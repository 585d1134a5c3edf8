------------------------------ MODULE CliArgs ------------------------------
(* parse_flag_radius of mine_tracker/src/cli_args.cpp: the radius that     *)
(* main hands to Flags.  An argument is [form, number]: the flag --radius, *)
(* --radius=<text>, or another text; number is what from_chars makes of    *)
(* the whole text, or NotANumber.                                          *)
EXTENDS Integers, Sequences, FiniteSetsExt

CONSTANTS
  NotANumber,
  CommandLines,        \* the arguments that the tracker may be started with
  DEFAULT_FLAG_RADIUS

Flag        == [form |-> "flag", number |-> NotANumber]
Prefixed(n) == [form |-> "prefixed", number |-> n]
Text(n)     == [form |-> "text", number |-> n]

Argument ==
  [form : {"flag", "prefixed", "text"}, number : Int \cup {NotANumber}]

ASSUME CliAssumption ==
  /\ CommandLines \subseteq Seq(Argument)
  /\ DEFAULT_FLAG_RADIUS \in Int /\ DEFAULT_FLAG_RADIUS > 0

\* parse_double_positive, and the fallback: a nan is not above zero, infinity is.
PositiveOr(default, n) ==
  IF n = NotANumber THEN default ELSE IF n > 0 THEN n ELSE default

\* What the argument after --radius is worth as a number.
Value(arg) == IF arg.form = "text" THEN arg.number ELSE NotANumber

Options(args) == {i \in DOMAIN args : args[i].form # "text"}

\* What the option at i gives as a number: nothing, if its value is missing.
OptionNumber(args, i) ==
  IF args[i].form = "prefixed" THEN args[i].number
  ELSE IF i < Len(args) THEN Value(args[i + 1]) ELSE NotANumber

\* Mutant: no break, so that the last option counts.
LastFlagRadius(args, default) ==
  IF Options(args) = {} THEN default
  ELSE PositiveOr(default, OptionNumber(args, Max(Options(args))))

\* The first option decides; what follows it is not looked at.
ParseFlagRadius(args, default) ==
  IF Options(args) = {} THEN default
  ELSE PositiveOr(default, OptionNumber(args, Min(Options(args))))

\* What Flags needs of its radius: it is above zero, a number of the command line
\* or the default.  What follows a complete option, a second option too, changes
\* nothing.
UsableRadius(args, default) ==
  LET radius == ParseFlagRadius(args, default) IN
  /\ radius \in Int /\ radius > 0
  /\ radius # default => \E i \in DOMAIN args : args[i].number = radius
  /\ \A n \in DOMAIN args : (\E i \in Options(args) : i < n) =>
       ParseFlagRadius(SubSeq(args, 1, n), default) = radius
=============================================================================
