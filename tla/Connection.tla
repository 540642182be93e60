----------------------------- MODULE Connection -----------------------------
(***************************************************************************)
(* The connections between a coordinator and its workers, at the level of  *)
(* bytes: transport.cpp moves cells, framing.cpp makes frames of them,     *)
(* fs_coordinator.cpp accepts and greets its workers one after the other,  *)
(* then dispatches and drains, then shuts down, and fs_worker.cpp greets,  *)
(* answers dispatches and stops.  A send is taken by the kernel in parts,  *)
(* a receive returns any part of what has arrived, either process may die  *)
(* in the middle of a frame, and a cell may be damaged on the way.         *)
(*                                                                         *)
(* What the coordinator dispatches, and why, is in Coordinator; here any   *)
(* number of dispatches may be unanswered, as the ceiling on overlapping   *)
(* attempts forgets the ones that were preempted.  Waits with a budget may *)
(* run out whenever nothing has arrived.                                   *)
(***************************************************************************)
EXTENDS Framing, FiniteSets

CONSTANTS Workers,        \* worker processes
          Launches,       \* how a run may be started, see LaunchType
          NoWorker        \* not a worker

\* The workers of a run (--workers is their number) with the (worker, boot)
\* pairs they announce; the cells the kernel holds in one direction, which no
\* code asks for or looks at; whether a failing send raises SIGPIPE (POSIX) or
\* only returns (Winsock); and three bounds: whether the kernel takes frames in
\* parts, the dispatches of the run, and the processes killed and cells damaged
\* in it.
LaunchType(l) ==
    /\ DOMAIN l.identity \subseteq Workers
    /\ {l.parts, l.signals} \subseteq BOOLEAN
    /\ l.capacity \in Nat \ {0}
    /\ {l.dispatches, l.faults} \subseteq Nat

ASSUME ConnectionAssumption ==
    /\ IsFiniteSet(Workers) /\ Workers # {} /\ NoWorker \notin Workers
    /\ \A l \in Launches : LaunchType(l)

VARIABLES
    pc,        \* where the coordinator is
    backlog,   \* connections the listener has not handed out yet
    candidate, \* the connection being greeted
    peer,      \* peers_: None, Alive, Retired, or Told to stop
    attempts,  \* attempts_: attempt -> peer
    dispatches,\* dispatch frames so far
    launch,    \* how the run was started
    wpc,       \* where each worker is
    job,       \* the attempt a worker is reporting
    out,       \* what send_all has not written yet, by worker and direction
    wire,      \* what the kernel holds
    buffer,    \* the accumulator of the reader
    sent, got, \* the frames sent and taken, by worker and direction
    end,       \* the two ends of each connection
    resets,    \* resets on their way, as <<worker, direction>>
    alarms,    \* readers that met what is not the protocol
    killed,    \* processes killed from outside
    damages    \* cells damaged

coordinatorVars == <<backlog, candidate, peer, attempts, dispatches>>
workerVars == <<wpc, job>>
streams == <<out, wire, buffer, sent, got>>
faults == <<resets, alarms, killed, damages>>
vars == <<pc, coordinatorVars, launch, workerVars, streams, end, faults>>

\* Frames go up to the coordinator and down to the worker.
Directions == {"up", "down"}
Reader == [up |-> "coordinator", down |-> "worker"]

Lengths == [Hello |-> 0, HelloAck |-> 0, HelloRefused |-> 0, Dispatch |-> 1,
            Started |-> 0, Completion |-> 1, Shutdown |-> 0, Error |-> 1]

\* Every payload is within the limit that encode_frame enforces.
ASSUME LengthsAssumption == \A t \in DOMAIN Lengths : Lengths[t] <= MaxPayload

Frame(type, a) == [type |-> type, length |-> Lengths[type], attempt |-> a]

\* The workers of this run, and what they announce.
Launched == DOMAIN launch.identity
identity == launch.identity

Nothing == [w \in Workers |-> [d \in Directions |-> <<>>]]

Init ==
    /\ pc = "Accept"
    /\ backlog = <<>> /\ candidate = NoWorker
    /\ peer = [w \in Workers |-> "None"]
    /\ attempts = <<>> /\ dispatches = 0
    /\ launch \in Launches
    /\ wpc = [w \in Workers |-> IF w \in Launched THEN "Start" ELSE "Absent"]
    /\ job = [w \in Workers |-> 0]
    /\ out = Nothing /\ wire = Nothing /\ buffer = Nothing
    /\ sent = Nothing /\ got = Nothing
    /\ end = [w \in Workers |-> [coordinator |-> "None", worker |-> "None"]]
    /\ resets = {} /\ alarms = {} /\ killed = {} /\ damages = 0

-----------------------------------------------------------------------------
(***************************************************************************)
(* transport.cpp                                                           *)
(***************************************************************************)

\* send_all begins with frame m.
Send(w, d, m) ==
    /\ out' = [out EXCEPT ![w][d] = encode_frame(m)]
    /\ sent' = [sent EXCEPT ![w][d] = Append(@, m)]

\* The end that direction d is read from.
ReadEnd(w, d) == end[w][Reader[d]]

\* One turn of the loop in send_all: the kernel takes the first k cells.  What
\* is written to an end that is gone vanishes.
Write(w, d, k) ==
    /\ k \in 1..Len(out[w][d])
    /\ launch.parts \/ k \in {Len(out[w][d]), launch.capacity - Len(wire[w][d])}
    /\ IF ReadEnd(w, d) # "Closed"
       THEN /\ k <= launch.capacity - Len(wire[w][d])
            /\ wire' = [wire EXCEPT ![w][d] = @ \o SubSeq(out[w][d], 1, k)]
       ELSE UNCHANGED wire
    /\ out' = [out EXCEPT ![w][d] = SubSeq(@, k + 1, Len(@))]
    /\ UNCHANGED <<pc, coordinatorVars, launch, workerVars, buffer, sent, got,
                   end, faults>>

\* send_all fails once the other end is gone.
WriteFails(w, d) == out[w][d] # <<>> /\ ReadEnd(w, d) = "Closed"

\* The reader of direction d waits for more cells: next() is asked first.
Waits(w, d) == next(buffer[w][d]).status = "None"

\* How many cells recv_some returns: all that have arrived and fit.
Received(w, d) == IF Len(wire[w][d]) <= ReadSize THEN Len(wire[w][d]) ELSE ReadSize

\* recv_some returns cells, and push takes them.
Read(w, d) ==
    LET k == Received(w, d)
    IN  /\ Waits(w, d)
        /\ k > 0
        /\ ~push_refuses(buffer[w][d], k)
        /\ wire' = [wire EXCEPT ![w][d] = SubSeq(@, k + 1, Len(@))]
        /\ buffer' = [buffer EXCEPT ![w][d] = @ \o SubSeq(wire[w][d], 1, k)]

\* recv_some returns nothing, or an error: the writer has closed its end.
AtEnd(w, d) ==
    /\ Waits(w, d) /\ wire[w][d] = <<>>
    /\ end[w][IF d = "up" THEN "worker" ELSE "coordinator"] \in {"Closed", "HalfClosed"}

\* Nothing has arrived: the wait may run out.
Idle(w, d) == Waits(w, d) /\ wire[w][d] = <<>> /\ ~AtEnd(w, d)

\* The frame next() returns is taken out of the buffer.
Taken(w, d) ==
    /\ next(buffer[w][d]).status = "Frame"
    /\ buffer' = [buffer EXCEPT ![w][d] = next(buffer[w][d]).rest]
    /\ got' = [got EXCEPT ![w][d] = Append(@, next(buffer[w][d]).frame)]

\* The ends of side s at the connections of W close.  What they have not read
\* or not written is lost; what was left unread resets the connection, and the
\* reset discards what the other side has not read when it arrives.
Close(s, W) ==
    LET d == IF s = "worker" THEN "down" ELSE "up"
        u == IF s = "worker" THEN "up" ELSE "down"
        closing == {w \in W : end[w][s] \in {"Open", "HalfClosed"}}
    IN  /\ end' = [w \in Workers |-> IF w \in closing
                                     THEN [end[w] EXCEPT ![s] = "Closed"] ELSE end[w]]
        /\ wire' = [w \in Workers |-> IF w \in closing
                                      THEN [wire[w] EXCEPT ![d] = <<>>] ELSE wire[w]]
        /\ out' = [w \in Workers |-> IF w \in closing
                                     THEN [out[w] EXCEPT ![u] = <<>>] ELSE out[w]]
        /\ buffer' = [w \in Workers |-> IF w \in closing
                                        THEN [buffer[w] EXCEPT ![d] = <<>>] ELSE buffer[w]]
        /\ resets' = resets \cup {<<w, u>> : w \in {v \in closing : wire[v][d] # <<>>}}

\* A reset arrives.
Reset(w, d) ==
    /\ <<w, d>> \in resets
    /\ resets' = resets \ {<<w, d>>}
    /\ wire' = [wire EXCEPT ![w][d] = <<>>]
    /\ UNCHANGED <<pc, coordinatorVars, launch, workerVars, out, buffer, sent, got,
                   end, alarms, killed, damages>>

\* A cell is damaged as it sets out.
Damage(w, d, n) ==
    LET last == Len(wire[w][d])
    IN  /\ Cardinality(killed) + damages < launch.faults
        /\ last > 0
        /\ wire[w][d][last].at = HeaderCells \/ n = 0
        /\ damages' = damages + 1
        /\ wire' = [wire EXCEPT ![w][d][last].frame = Damaged(n)]
        /\ UNCHANGED <<pc, coordinatorVars, launch, workerVars, out, buffer, sent, got,
                       end, resets, alarms, killed>>

-----------------------------------------------------------------------------
(***************************************************************************)
(* fs_worker.cpp                                                           *)
(***************************************************************************)

\* Where a worker may end: the exit codes of the tool, or killed.
Exit(w, code) ==
    /\ wpc' = [wpc EXCEPT ![w] = code]
    /\ job' = [job EXCEPT ![w] = 0]
    /\ Close("worker", {w})

Ended(w) == wpc[w] \in {"Absent", "Shutdown", "Unreachable", "Refused", "Failed", "Closed", "Killed"}

\* connect_with_retry, and the hello.
connect(w) ==
    /\ wpc[w] = "Start"
    /\ pc \notin {"Done", "Failed"}
    /\ wpc' = [wpc EXCEPT ![w] = "Greeting"]
    /\ end' = [end EXCEPT ![w] = [coordinator |-> "Open", worker |-> "Open"]]
    /\ backlog' = Append(backlog, w)
    /\ Send(w, "up", Frame("Hello", 0))
    /\ UNCHANGED <<pc, candidate, peer, attempts, dispatches, launch, job, wire,
                   buffer, got, faults>>

\* Nobody listens within the connect window.
connect_fails(w) ==
    /\ wpc[w] = "Start"
    /\ pc \in {"Done", "Failed"}
    /\ wpc' = [wpc EXCEPT ![w] = "Unreachable"]
    /\ UNCHANGED <<pc, coordinatorVars, launch, job, streams, end, faults>>

\* The worker reads, and has nothing left to write.
Reading(w) == wpc[w] \in {"Greeting", "Serving"} /\ out[w]["up"] = <<>>

worker_reads(w) ==
    /\ Reading(w)
    /\ Read(w, "down")
    /\ UNCHANGED <<pc, coordinatorVars, launch, workerVars, out, sent, got, end,
                   faults>>

\* read_frame fails: push or next refuses what came.
Offends(w, d) ==
    \/ next(buffer[w][d]).status = "Error"
    \/ Waits(w, d) /\ push_refuses(buffer[w][d], Received(w, d))

worker_fails(w) ==
    /\ Reading(w)
    /\ Offends(w, "down")
    /\ Exit(w, "Failed")
    /\ alarms' = alarms \cup {<<w, "down">>}
    /\ UNCHANGED <<pc, coordinatorVars, launch, sent, got, killed, damages>>

\* What the worker does with a frame of type t.
Answer(w, t) ==
    CASE wpc[w] = "Greeting" /\ t = "HelloAck"     -> "Serve"
      [] wpc[w] = "Greeting" /\ t = "HelloRefused" -> "Refused"
      [] wpc[w] = "Serving" /\ t = "Dispatch"      -> "Start"
      [] wpc[w] = "Serving" /\ t = "Shutdown"      -> "Shutdown"
      [] OTHER                                     -> "Failed"

\* The handshake is over.
worker_accepted(w) ==
    /\ Reading(w) /\ Taken(w, "down")
    /\ Answer(w, next(buffer[w]["down"]).frame.type) = "Serve"
    /\ wpc' = [wpc EXCEPT ![w] = "Serving"]
    /\ UNCHANGED <<pc, coordinatorVars, launch, job, out, wire, sent, end, faults>>

\* A dispatch: the start is reported first.
worker_starts(w) ==
    LET m == next(buffer[w]["down"]).frame
    IN  /\ Reading(w) /\ Taken(w, "down")
        /\ Answer(w, m.type) = "Start"
        /\ job' = [job EXCEPT ![w] = m.attempt]
        /\ wpc' = [wpc EXCEPT ![w] = "Starting"]
        /\ Send(w, "up", Frame("Started", m.attempt))
        /\ UNCHANGED <<pc, coordinatorVars, launch, wire, end, faults>>

\* Mutant of worker_completes: it does not go back to serving, and reports again.
completes_again(w) ==
    /\ wpc[w] = "Starting" /\ out[w]["up"] = <<>>
    /\ Send(w, "up", Frame("Completion", job[w]))
    /\ UNCHANGED <<pc, coordinatorVars, launch, workerVars, wire, buffer, got, end,
                   faults>>

worker_completes(w) ==
    /\ wpc[w] = "Starting" /\ out[w]["up"] = <<>>
    /\ wpc' = [wpc EXCEPT ![w] = "Serving"]
    /\ job' = [job EXCEPT ![w] = 0]
    /\ Send(w, "up", Frame("Completion", job[w]))
    /\ UNCHANGED <<pc, coordinatorVars, launch, wire, buffer, got, end, faults>>

\* A frame that ends the worker: a shutdown, a refusal, or one that has no
\* place here.
worker_stops(w) ==
    LET m == next(buffer[w]["down"]).frame
        code == Answer(w, m.type)
    IN  /\ Reading(w) /\ next(buffer[w]["down"]).status = "Frame"
        /\ code \in {"Refused", "Shutdown", "Failed"}
        /\ Exit(w, code)
        /\ got' = [got EXCEPT ![w]["down"] = Append(@, m)]
        /\ alarms' = IF code = "Failed" THEN alarms \cup {<<w, "down">>} ELSE alarms
        /\ UNCHANGED <<pc, coordinatorVars, launch, sent, killed, damages>>

\* Mutant of worker_cut_off: a close between two frames is taken for silence.
cut_off_in_frame(w) ==
    /\ \/ Reading(w) /\ AtEnd(w, "down") /\ buffer[w]["down"] # <<>>
       \/ WriteFails(w, "up")
    /\ Exit(w, "Failed")
    /\ UNCHANGED <<pc, coordinatorVars, launch, sent, got, alarms, killed, damages>>

\* The coordinator's end is gone: between two frames the worker tells a close
\* from a reset.  A send may fail as well.
worker_cut_off(w) ==
    /\ \/ Reading(w) /\ AtEnd(w, "down")
       \/ WriteFails(w, "up")
    /\ \E code \in {"Failed", "Closed"} :
          /\ code = "Closed" =>
                wpc[w] = "Serving" /\ Reading(w) /\ buffer[w]["down"] = <<>>
          /\ Exit(w, code)
    /\ UNCHANGED <<pc, coordinatorVars, launch, sent, got, alarms, killed, damages>>

\* read_frame_bounded: no reply within the budget.  Once a reply has begun to
\* arrive, the worker waits for all of it.
worker_gives_up(w) ==
    /\ wpc[w] = "Greeting" /\ Reading(w)
    /\ Idle(w, "down") /\ buffer[w]["down"] = <<>>
    /\ Exit(w, "Failed")
    /\ UNCHANGED <<pc, coordinatorVars, launch, sent, got, alarms, killed, damages>>

worker_killed(w) ==
    /\ ~Ended(w)
    /\ Cardinality(killed) + damages < launch.faults
    /\ killed' = killed \cup {w}
    /\ Exit(w, "Killed")
    /\ UNCHANGED <<pc, coordinatorVars, launch, sent, got, alarms, damages>>

-----------------------------------------------------------------------------
(***************************************************************************)
(* fs_coordinator.cpp                                                      *)
(***************************************************************************)

\* The coordinator is one thread: while it sends, it does nothing else.
Free == \A w \in Workers : out[w]["down"] = <<>>

\* The run ends with an error, and the process with it.
Fail == pc' = "Failed" /\ Close("coordinator", Workers)

accept ==
    /\ pc = "Accept"
    /\ backlog # <<>>
    /\ pc' = "Greet"
    /\ candidate' = Head(backlog) /\ backlog' = Tail(backlog)
    /\ UNCHANGED <<peer, attempts, dispatches, launch, workerVars, streams, end,
                   faults>>

\* receive_within: another part of what a connection has to say.
coordinator_reads(w) ==
    /\ \/ pc = "Greet" /\ w = candidate
       \/ pc = "Loop" /\ Free /\ peer[w] = "Alive"
    /\ Read(w, "up")
    /\ UNCHANGED <<pc, coordinatorVars, launch, workerVars, out, sent, got, end,
                   faults>>

\* Mutant of Incarnations: two workers under one name are not told apart.
NoIncarnations == {}

\* The incarnations in peers_.
Incarnations == {identity[v] : v \in {v \in Workers : peer[v] # "None"}}

\* handshake: the first frame of the candidate decides how it is answered.
greet ==
    LET w == candidate
        m == next(buffer[w]["up"]).frame
        sound == m.type = "Hello"
        reply == CASE ~sound                        -> "Error"
                   [] identity[w] \in Incarnations  -> "HelloRefused"
                   [] OTHER                         -> "HelloAck"
    IN  /\ pc = "Greet"
        /\ Taken(w, "up")
        /\ Send(w, "down", Frame(reply, 0))
        /\ pc' = IF reply = "HelloAck" THEN "Ack" ELSE "Reject"
        /\ alarms' = IF sound THEN alarms ELSE alarms \cup {<<w, "up">>}
        /\ UNCHANGED <<coordinatorVars, launch, workerVars, wire, end, resets,
                       killed, damages>>

\* The candidate is gone, silent for too long, or does not speak the protocol;
\* or its acknowledgement cannot be sent; or it has been refused.
greeting_fails ==
    /\ \/ /\ pc = "Greet"
          /\ \/ AtEnd(candidate, "up") \/ Idle(candidate, "up")
             \/ Offends(candidate, "up")
       \/ pc \in {"Ack", "Reject"} /\ WriteFails(candidate, "down")
       \/ pc = "Reject" /\ Free
    /\ Fail
    /\ alarms' = IF pc = "Greet" /\ Offends(candidate, "up")
                 THEN alarms \cup {<<candidate, "up">>} ELSE alarms
    /\ UNCHANGED <<coordinatorVars, launch, workerVars, sent, got, killed, damages>>

\* The acknowledgement is out: the candidate is a peer.
acknowledged ==
    /\ pc = "Ack" /\ Free
    /\ peer' = [peer EXCEPT ![candidate] = "Alive"]
    /\ candidate' = NoWorker
    /\ pc' = IF \A w \in Launched \ {candidate} : peer[w] # "None"
             THEN "Loop" ELSE "Accept"
    /\ UNCHANGED <<backlog, attempts, dispatches, launch, workerVars, streams, end,
                   faults>>

\* dispatch_schedule hands one entry to a live worker.
dispatch(w) ==
    /\ pc = "Loop" /\ Free
    /\ peer[w] = "Alive"
    /\ dispatches < launch.dispatches
    /\ dispatches' = dispatches + 1
    /\ attempts' = Append(attempts, w)
    /\ Send(w, "down", Frame("Dispatch", dispatches + 1))
    /\ UNCHANGED <<pc, backlog, candidate, peer, launch, workerVars, wire, buffer, got,
                   end, faults>>

\* retire_peer: the socket is closed and the attempts are abandoned.
Retire(w) ==
    /\ peer' = [peer EXCEPT ![w] = "Retired"]
    /\ attempts' = [a \in DOMAIN attempts |->
                       IF attempts[a] = w THEN NoWorker ELSE attempts[a]]
    /\ Close("coordinator", {w})

\* Mutant of peer_lost: a dispatch that cannot be sent ends the run.
lost_dispatch_is_fatal(w) ==
    /\ pc = "Loop" /\ peer[w] = "Alive"
    /\ \/ Free /\ (AtEnd(w, "up") \/ Offends(w, "up")) /\ Retire(w) /\ UNCHANGED pc
       \/ WriteFails(w, "down") /\ Fail /\ UNCHANGED <<peer, attempts>>
    /\ UNCHANGED <<backlog, candidate, dispatches, launch, workerVars, sent, got, alarms,
                   killed, damages>>

\* The peer has closed its end, a dispatch cannot be sent, or the peer does not
\* speak the protocol.
peer_lost(w) ==
    /\ pc = "Loop" /\ peer[w] = "Alive"
    /\ \/ Free /\ (AtEnd(w, "up") \/ Offends(w, "up"))
       \/ WriteFails(w, "down")
    /\ Retire(w)
    /\ alarms' = IF Offends(w, "up") /\ Free THEN alarms \cup {<<w, "up">>} ELSE alarms
    /\ UNCHANGED <<pc, backlog, candidate, dispatches, launch, workerVars, sent, got,
                   killed, damages>>

\* handle_frame: a start or a completion.
drain(w) ==
    LET m == next(buffer[w]["up"]).frame
    IN  /\ pc = "Loop" /\ Free /\ peer[w] = "Alive"
        /\ Taken(w, "up")
        /\ m.type \in {"Started", "Completion"}
        /\ attempts' = IF m.type = "Completion"
                       THEN [attempts EXCEPT ![m.attempt] = NoWorker] ELSE attempts
        /\ UNCHANGED <<pc, backlog, candidate, peer, dispatches, launch, workerVars,
                       out, wire, sent, end, faults>>

\* The rounds are over.
rounds_end ==
    /\ pc = "Loop" /\ Free
    /\ pc' = "Stop"
    /\ UNCHANGED <<coordinatorVars, launch, workerVars, streams, end, faults>>

\* shutdown_peers: one live peer is told to stop.
shutdown_peer(w) ==
    /\ pc = "Stop" /\ Free
    /\ peer[w] = "Alive"
    /\ peer' = [peer EXCEPT ![w] = "Told"]
    /\ Send(w, "down", Frame("Shutdown", 0))
    /\ UNCHANGED <<pc, backlog, candidate, attempts, dispatches, launch, workerVars,
                   wire, buffer, got, end, faults>>

\* shutdown_send once the frame is out, or could not be sent.
half_close(w) ==
    /\ pc = "Stop" /\ peer[w] = "Told"
    /\ end[w].coordinator = "Open"
    /\ out[w]["down"] = <<>> \/ WriteFails(w, "down")
    /\ out' = [out EXCEPT ![w]["down"] = <<>>]
    /\ end' = [end EXCEPT ![w].coordinator = "HalfClosed"]
    /\ UNCHANGED <<pc, coordinatorVars, launch, workerVars, wire, buffer, sent, got,
                   faults>>

\* The process ends; its sockets end with it.
exit ==
    /\ pc = "Stop"
    /\ \A w \in Workers : peer[w] # "Alive" /\ end[w].coordinator # "Open"
    /\ pc' = "Done"
    /\ Close("coordinator", Workers)
    /\ UNCHANGED <<coordinatorVars, launch, workerVars, sent, got, alarms, killed,
                   damages>>

\* send() is called without MSG_NOSIGNAL and SIGPIPE is not ignored: where a send
\* to an end that is gone raises it, the process dies in send_all.
send_signals ==
    /\ launch.signals
    /\ pc \notin {"Done", "Failed"}
    /\ \E w \in Workers : WriteFails(w, "down")
    /\ Fail
    /\ UNCHANGED <<coordinatorVars, launch, workerVars, sent, got, alarms, killed, damages>>

coordinator_killed ==
    /\ pc \notin {"Done", "Failed"}
    /\ Cardinality(killed) + damages < launch.faults
    /\ killed' = killed \cup {NoWorker}
    /\ Fail
    /\ UNCHANGED <<coordinatorVars, launch, workerVars, sent, got, alarms, damages>>

-----------------------------------------------------------------------------
Cells == 1..(kFrameOverhead + MaxPayload)

WorkerStep(w) ==
    \/ connect(w) \/ connect_fails(w)
    \/ worker_reads(w) \/ \E k \in Cells : Write(w, "up", k)
    \/ worker_accepted(w) \/ worker_starts(w) \/ worker_completes(w)
    \/ worker_stops(w) \/ worker_fails(w) \/ worker_cut_off(w)

CoordinatorStep ==
    \/ accept \/ greet \/ acknowledged \/ greeting_fails
    \/ \E w \in Workers : \/ coordinator_reads(w) \/ \E k \in Cells : Write(w, "down", k)
                          \/ dispatch(w) \/ drain(w) \/ peer_lost(w)
                          \/ shutdown_peer(w) \/ half_close(w)
    \/ rounds_end \/ exit

Fault ==
    \/ coordinator_killed \/ send_signals
    \/ \E w \in Workers :
          \/ worker_gives_up(w) \/ worker_killed(w)
          \/ \E d \in Directions : \/ Reset(w, d)
                                   \/ \E n \in 0..(MaxPayload + 1) : Damage(w, d, n)

Next == CoordinatorStep \/ Fault \/ \E w \in Workers : WorkerStep(w)

Spec == Init /\ [][Next]_vars

Fairness == WF_vars(CoordinatorStep) /\ \A w \in Workers : WF_vars(WorkerStep(w))

FairSpec == Spec /\ Fairness

-----------------------------------------------------------------------------
(***************************************************************************)
(* What the connections promise                                            *)
(***************************************************************************)

\* However the bytes are cut up, lost with a process or damaged, the frames
\* that FrameAccumulator::next returns are the ones encode_frame was given, in
\* their order and none twice.
InOrder ==
    \A w \in Workers, d \in Directions :
        /\ Len(got[w][d]) <= Len(sent[w][d])
        /\ got[w][d] = SubSeq(sent[w][d], 1, Len(got[w][d]))

\* Without damage no process sees a protocol error: not in the accumulator's
\* bound, not in a checksum, and not in the order of the frames.  Whatever else
\* ends a connection is a close, a timeout or a kill.
NoFalseAlarm == damages = 0 => alarms = {}

Serves(w) == wpc[w] \in {"Serving", "Starting"}

\* No two processes of one incarnation, a (worker, boot) pair, serve at a time:
\* the second one is refused at its hello (handshake), and an acknowledgement
\* that a worker gave up waiting for makes nobody serve.
OneServes ==
    \A v, w \in Workers : v # w /\ Serves(v) /\ Serves(w) => identity[v] # identity[w]

\* send_all on both sides: neither can write, so neither will read.
Standoff(w) ==
    /\ \A d \in Directions : out[w][d] # <<>> /\ Len(wire[w][d]) = launch.capacity
    /\ end[w] = [coordinator |-> "Open", worker |-> "Open"]

\* The dispatch and shutdown frames for worker w, less the completions taken.
Unanswered(w) ==
    Cardinality({i \in DOMAIN sent[w]["down"] :
                    sent[w]["down"][i].type \in {"Dispatch", "Shutdown"}})
  - Cardinality({i \in DOMAIN got[w]["up"] : got[w]["up"][i].type = "Completion"})

\* What the kernel holds: dispatches in one direction, answers in the other.
Held ==
    LET cells(t) == kFrameOverhead + Lengths[t]
    IN  launch.capacity \div cells("Dispatch")
            + launch.capacity \div (cells("Started") + cells("Completion"))

\* The coordinator and a worker both wait in send_all for the other one to read
\* only when more dispatches are unanswered than the kernel holds in both
\* directions, next to the frame that each of them is sending.  Then they do
\* wait, and for good: neither socket has a timeout.
NoStandoff == \A w \in Workers : Standoff(w) => Unanswered(w) >= Held + 2

\* The coordinator waits in accept for a worker that will never connect.
Deserted ==
    /\ pc = "Accept" /\ backlog = <<>>
    /\ \A w \in Workers : wpc[w] # "Start"

\* Every process comes to its end, whatever is lost or damaged on the way, but for
\* the two waits that have no timeout: accept, for a worker that died before it
\* connected, and send_all, when both sides send.
EveryoneEnds ==
    <>[](\/ Deserted
         \/ \E w \in Workers : Standoff(w)
         \/ pc \in {"Done", "Failed"} /\ \A w \in Workers : Ended(w))

\* Every worker was accepted, nobody killed the coordinator, and still it ends
\* without telling its workers to stop.
CutShort ==
    /\ pc = "Failed" /\ NoWorker \notin killed
    /\ \A w \in Launched : peer[w] # "None"

\* Once the handshakes are over the run goes on whatever becomes of the workers,
\* where a failing send does no more than return an error: a worker that is lost
\* is retired, between two frames, in the middle of one and while one is sent.
RunGoesOnWinsock == CutShort => launch.signals

\* "A worker that dies, sends an unreadable frame, or closes its socket is
\* retired [...] and the run goes on", on every platform.
RunGoesOn == ~CutShort
=============================================================================
