---------------------------- MODULE TrackerMain ----------------------------
(* The life of the tracker process: main of mine_tracker/src/main.cpp with *)
(* UdpServer::start, receive_package and stop, and HttpServer::init and    *)
(* stop.  The alert queue is AlertChannel, which SafeQueue implements, and *)
(* CliArgs gives the radius that Flags is made with.                       *)
(* When main returns, its locals are destroyed in reverse order, and the   *)
(* destructor of a jthread joins the thread.                               *)
EXTENDS CliArgs

CONSTANT Alerts   \* what clients send, each alert in one request

VARIABLES
  g_running,
  main,         \* what main has done last
  heartbeat,    \* the threads: "none", then what they do, then "ended"
  udp,
  http,         \* Crow: "none", "starting", "serving", "stopping", "ended"
  handler,      \* alert -> stage of the request that carries it
  pending, received, closed, ended,   \* the channel; the worker receives
  is_running,   \* of UdpServer
  socket,       \* what the descriptor is: "open", "shut", "closed", "reused"
  socket_fd,    \* whether the field still holds the descriptor
  alive,        \* the locals of main that are not destroyed
  early         \* history: the alerts pushed before alert_queue.stop()

Queue == INSTANCE AlertChannel

channelVars == <<pending, received, closed, ended>>
socketVars  == <<is_running, socket, socket_fd>>
trackerVars == <<g_running, main, heartbeat, udp, http, handler, channelVars,
                 socketVars, alive, early>>

Locals == {"alert_queue", "udp_server", "alert_manager", "http_server"}

TrackerInit ==
  /\ g_running = TRUE
  /\ main = "starting"
  /\ heartbeat = "none" /\ udp = "none" /\ http = "none"
  /\ handler = [a \in Alerts |-> "unsent"]
  /\ Queue!ChannelInit
  /\ is_running = FALSE /\ socket = "closed" /\ socket_fd = FALSE
  /\ alive = Locals
  /\ early = {}

-----------------------------------------------------------------------------
(* Start *)

\* SIGINT or SIGTERM.
Signal ==
  /\ main # "exited"
  /\ g_running' = FALSE
  /\ UNCHANGED <<main, heartbeat, udp, http, handler, channelVars, socketVars, alive, early>>

\* udp_server.start() binds the port, and main spawns its threads.
Start ==
  /\ main = "starting"
  /\ main' = "operational"
  /\ heartbeat' = "looping" /\ udp' = "looping" /\ http' = "starting"
  /\ is_running' = TRUE /\ socket' = "open" /\ socket_fd' = TRUE
  /\ UNCHANGED <<g_running, handler, channelVars, alive, early>>

\* ExitCode::FailedOnStartup.
StartFails ==
  /\ main = "starting"
  /\ main' = "exited"
  /\ alive' = {}
  /\ UNCHANGED <<g_running, heartbeat, udp, http, handler, channelVars, socketVars, early>>

-----------------------------------------------------------------------------
(* The threads *)

\* Both loops test g_running; nobody requests a stop before main joins them.
HeartbeatEnds ==
  /\ heartbeat = "looping" /\ ~g_running
  /\ heartbeat' = "ended"
  /\ UNCHANGED <<g_running, main, udp, http, handler, channelVars, socketVars, alive, early>>

UdpStep(next) ==
  /\ udp' = next
  /\ UNCHANGED <<g_running, main, heartbeat, http, handler, channelVars, socketVars, alive, early>>

UdpLoop == udp = "looping" /\ UdpStep(IF g_running THEN "receiving" ELSE "ended")

\* receive_package: nothing to receive from, or the descriptor is read ...
UdpTest == udp = "receiving" /\ UdpStep(IF is_running /\ socket_fd THEN "has fd" ELSE "looping")

\* ... and recvfrom is called with it, whatever it has become meanwhile.
UdpRecvfrom ==
  /\ udp = "has fd"
  /\ UdpStep(CASE socket = "open"   -> "in recvfrom"
               [] socket = "reused" -> "in foreign recvfrom"
               [] OTHER             -> "looping")

\* A datagram.
UdpReceive == udp = "in recvfrom" /\ UdpStep("looping")

\* The HTTP connection under the descriptor sends something, or ends.
UdpForeign == udp = "in foreign recvfrom" /\ UdpStep("looping")

HttpStep(next) ==
  /\ http' = next
  /\ UNCHANGED <<g_running, main, heartbeat, udp, handler, channelVars, socketVars, alive, early>>

HttpServes == http = "starting" /\ HttpStep("serving")

\* Mutant: the handler of the exception only logs it.
HttpFailsSilently == http = "starting" /\ HttpStep("ended")

\* The port is taken, say: the exception ends the tracker.
HttpFails ==
  /\ http = "starting"
  /\ http' = "ended"
  /\ g_running' = FALSE
  /\ UNCHANGED <<main, heartbeat, udp, handler, channelVars, socketVars, alive, early>>

\* run() of Crow returns when its threads have finished their handlers.
HttpEnds ==
  /\ http = "stopping"
  /\ \A a \in Alerts : handler[a] \in {"unsent", "answered"}
  /\ HttpStep("ended")

\* A connection is accepted and gets the number of the closed UDP socket.
Reuse ==
  /\ http = "serving" /\ socket = "closed"
  /\ socket' = "reused"
  /\ UNCHANGED <<g_running, main, heartbeat, udp, http, handler, channelVars,
                 is_running, socket_fd, alive, early>>

HandlerStep(a, from, to) ==
  /\ handler[a] = from
  /\ handler' = [handler EXCEPT ![a] = to]
  /\ UNCHANGED <<g_running, main, heartbeat, udp, http, socketVars, alive>>

Request(a) ==
  http = "serving" /\ HandlerStep(a, "unsent", "parsed") /\ UNCHANGED <<channelVars, early>>

\* The callback of main.
PushAlert(a) ==
  /\ HandlerStep(a, "parsed", "called")
  /\ Queue!Send(a)
  /\ early' = IF closed THEN early ELSE early \cup {a}

\* The callback_mutex was taken for 100 ms (AlertDelivery).
SkipCallback(a) == HandlerStep(a, "parsed", "called") /\ UNCHANGED <<channelVars, early>>

Answer(a) == HandlerStep(a, "called", "answered") /\ UNCHANGED <<channelVars, early>>

WorkerStep ==
  /\ http # "none"
  /\ UNCHANGED <<g_running, main, heartbeat, udp, http, handler, socketVars, alive, early>>

WorkerReceives == Queue!Receive /\ WorkerStep

\* Mutant: the worker's loop tests the stop of the queue first.
WorkerEndsAtStop == ~ended /\ closed /\ ended' = TRUE /\ UNCHANGED <<pending, received, closed>> /\ WorkerStep

WorkerEnds == ~ended /\ Queue!End /\ WorkerStep

-----------------------------------------------------------------------------
(* Shutdown *)

Shutdown(from, to) ==
  /\ main = from
  /\ main' = to
  /\ UNCHANGED <<g_running, heartbeat, handler, early>>

StopQueue ==
  /\ ~g_running
  /\ Shutdown("operational", "queue stopped")
  /\ Queue!Close
  /\ UNCHANGED <<udp, http, socketVars, alive>>

\* UdpServer::stop, in its four steps.
StopRunning ==
  /\ Shutdown("queue stopped", "udp flagged")
  /\ is_running' = FALSE
  /\ UNCHANGED <<udp, http, channelVars, socket, socket_fd, alive>>

\* Mutant: close alone, which releases no thread from recvfrom.
NoShutdownSocket ==
  /\ Shutdown("udp flagged", "udp shut")
  /\ UNCHANGED <<udp, http, channelVars, socketVars, alive>>

\* "forse unlock any thread"
ShutdownSocket ==
  /\ Shutdown("udp flagged", "udp shut")
  /\ socket' = "shut"
  /\ udp' = IF udp = "in recvfrom" THEN "looping" ELSE udp
  /\ UNCHANGED <<http, channelVars, is_running, socket_fd, alive>>

CloseSocket ==
  /\ Shutdown("udp shut", "udp closed")
  /\ socket' = "closed"
  /\ UNCHANGED <<udp, http, channelVars, is_running, socket_fd, alive>>

ForgetSocket ==
  /\ Shutdown("udp closed", "udp stopped")
  /\ socket_fd' = FALSE
  /\ UNCHANGED <<udp, http, channelVars, is_running, socket, alive>>

\* app.stop() of Crow does nothing unless run() has created the server.
StopHttp ==
  /\ Shutdown("udp stopped", "joining http")
  /\ http' = IF http = "serving" THEN "stopping" ELSE http
  /\ UNCHANGED <<udp, channelVars, socketVars, alive>>

\* A local is destroyed once the threads declared after it are joined.
Join(from, to, destroyed) ==
  /\ Shutdown(from, to)
  /\ alive' = alive \ destroyed
  /\ UNCHANGED <<udp, http, channelVars, socketVars>>

JoinHttp == http = "ended" /\ Join("joining http", "joining worker", {"http_server"})

\* Mutant: a detached worker.
DetachWorker == Join("joining worker", "joining udp", {"alert_manager"})

JoinWorker == ended /\ Join("joining worker", "joining udp", {"alert_manager"})

JoinUdp == udp = "ended" /\ Join("joining udp", "joining heartbeat", {})

\* Then everything that was declared before the threads.
JoinHeartbeat == heartbeat = "ended" /\ Join("joining heartbeat", "exited", Locals)

-----------------------------------------------------------------------------

Main == Start \/ StartFails \/ StopQueue \/ StopRunning \/ ShutdownSocket
          \/ CloseSocket \/ ForgetSocket \/ StopHttp
          \/ JoinHttp \/ JoinWorker \/ JoinUdp \/ JoinHeartbeat

\* All but the arrival of a datagram.
Udp == UdpLoop \/ UdpTest \/ UdpRecvfrom \/ UdpForeign

Http == HttpServes \/ HttpFails \/ HttpEnds

Handler(a) == PushAlert(a) \/ SkipCallback(a) \/ Answer(a)

Worker == WorkerReceives \/ WorkerEnds

TrackerNext ==
  \/ Signal \/ Main
  \/ HeartbeatEnds \/ Udp \/ UdpReceive \/ Http \/ Reuse
  \/ \E a \in Alerts : Request(a) \/ Handler(a)
  \/ Worker

\* Threads are scheduled.  Nothing makes a client send an alert, a datagram
\* arrive, or an operator stop the tracker.
TrackerSpec ==
  /\ TrackerInit /\ [][TrackerNext]_trackerVars
  /\ WF_trackerVars(Main) /\ WF_trackerVars(HeartbeatEnds)
  /\ WF_trackerVars(Udp) /\ WF_trackerVars(Http) /\ WF_trackerVars(Worker)
  /\ \A a \in Alerts : WF_trackerVars(Handler(a))

-----------------------------------------------------------------------------
(* Properties *)

Stages == {"starting", "operational", "queue stopped", "udp flagged", "udp shut",
           "udp closed", "udp stopped", "joining http", "joining worker",
           "joining udp", "joining heartbeat", "exited"}

HeartbeatStates == {"none", "looping", "ended"}
UdpStates == {"none", "looping", "receiving", "has fd", "in recvfrom",
              "in foreign recvfrom", "ended"}
HttpStates    == {"none", "starting", "serving", "stopping", "ended"}
HandlerStages == {"unsent", "parsed", "called", "answered"}
SocketStates  == {"open", "shut", "closed", "reused"}

\* The tracker's state has its type, and no thread is blocked in recvfrom on a
\* socket that was shut: close would not release it.
TrackerTypeOK ==
  /\ g_running \in BOOLEAN
  /\ main \in Stages
  /\ heartbeat \in HeartbeatStates
  /\ udp \in UdpStates
  /\ http \in HttpStates
  /\ handler \in [Alerts -> HandlerStages]
  /\ pending \in Seq(Alerts) /\ received \in Seq(Alerts)
  /\ closed \in BOOLEAN /\ ended \in BOOLEAN
  /\ is_running \in BOOLEAN /\ socket_fd \in BOOLEAN
  /\ socket \in SocketStates
  /\ udp = "in recvfrom" => socket = "open"
  /\ alive \subseteq Locals
  /\ early \subseteq Alerts

\* An alert that was pushed before the shutdown stopped the queue is handled
\* before the process exits, although the stop comes first of all.
QueuedAlertsHandled == main = "exited" => early \subseteq Range(received)

\* No thread outlives the locals of main that it uses by reference, in whatever
\* order the threads come to their end.
ObjectsOutliveUsers ==
  /\ http \in {"starting", "serving", "stopping"} => {"http_server", "alert_queue"} \subseteq alive
  /\ http # "none" /\ ~ended => {"alert_manager", "alert_queue"} \subseteq alive
  /\ udp \notin {"none", "ended"} => "udp_server" \in alive

\* parse_flag_radius: whatever the command line of a starting main says, Flags
\* gets a usable radius.
RadiusUsable ==
  main = "starting" =>
    \A args \in CommandLines : UsableRadius(args, DEFAULT_FLAG_RADIUS)

\* Once the HTTP server has come up, a signal ends the process, and so does a
\* server that fails to come up: every blocking call and every join returns.
ShutdownEnds ==
  (main = "operational" /\ http # "starting" /\ (~g_running \/ http = "ended"))
    ~> (main = "exited")

=============================================================================
