------------------------------ MODULE Headless ------------------------------
(***************************************************************************)
(* The headless relay (app/main.py): a main thread that reads a mapping    *)
(* file, starts one UDPListener thread per port (app/listener.py) and      *)
(* joins them, and a signal handler that stops them.  The listeners share  *)
(* one RateLimiter (app/rate_limit.py), parse magic packets                *)
(* (app/parser.py) and wake machines over SSH (app/fortigate.py).          *)
(*                                                                         *)
(* Granularity.  The signal handler runs on the main thread, which does    *)
(* nothing else until the handler returns; it closes one listener per      *)
(* step.  A listener's steps end where it may block or where it touches    *)
(* state of another thread: the socket, stop_event, the clock, the lock of *)
(* the limiter and the SSH session.                                        *)
(*                                                                         *)
(* Abstractions.  Packets keep their structure with shorter fields.  MAC   *)
(* text is an injective rendering of the six bytes and always matches      *)
(* MAC_PATTERN, so the bytes stand for it.  Time is an integer clock up to *)
(* MaxTime.  One signal is delivered: a second one would repeat the first  *)
(* handler's idempotent steps.                                             *)
(***************************************************************************)
EXTENDS Integers, FiniteSets, Sequences

CONSTANTS
    Ports,          \* UDP ports a mapping file names
    MinPort,        \* 1024
    MaxPort,        \* 65535
    Documents,      \* contents of MAPPING_FILE: sequences of Entry
    Intervals,      \* values of WOL_RATE_LIMIT_SECONDS
    Sources,        \* addresses that send datagrams
    AllowedIp,      \* GUACAMOLE_ALLOWED_IP
    Bytes,          \* values of a byte
    FF,             \* the byte 255
    HeaderLength,   \* 6 in the code
    MacLength,      \* 6 in the code
    Repeats,        \* 16 in the code
    MaxTime,        \* bound: the clock stops here
    Nothing         \* None

ASSUME LengthsPositive ==
    /\ HeaderLength \in Nat \ {0}
    /\ MacLength \in Nat \ {0}
    /\ Repeats \in Nat \ {0}
ASSUME FFIsByte == FF \in Bytes
ASSUME IntervalsNatural == Intervals \subseteq Nat
ASSUME BoundsNatural == MinPort \in Nat /\ MaxPort \in Nat /\ MaxTime \in Nat

Time == 0 .. MaxTime
Macs == [1 .. MacLength -> Bytes]
PacketLength == HeaderLength + MacLength * Repeats

\* A key of the listeners object, which YAML may read as a number or as a
\* string, and what its value fails to be.
Entry == [port : Nat, quoted : BOOLEAN,
          value : {"valid", "not_an_object", "wrong_keys", "bad_interface",
                   "bad_gateway"}]

VARIABLES
    document,       \* the mapping file, until it is read
    main,           \* what the main thread does next
    code,           \* what main() returned
    interval,       \* RateLimiter._interval
    listeners,      \* the ports of the UDPListener objects
    stop,           \* stop_event
    closing,        \* listeners the signal handler has still to close
    thread,         \* the listener threads
    socket,         \* UDPListener._socket: None, open or closed
    bound,          \* ports whose bind succeeded
    sessions,       \* ports with an SSH client that is not closed
    lastAllowed,    \* RateLimiter._last_allowed
    clock,          \* time.monotonic()
    grants          \* history: the readings at which a key was granted

mainVars == <<document, main, code, interval, listeners>>
sigVars == <<stop, closing>>
wakeVars == <<sessions, lastAllowed, grants>>
vars == <<document, main, code, interval, listeners, stop, closing, thread,
          socket, bound, sessions, lastAllowed, clock, grants>>

Pcs == {"unstarted", "create", "bind", "test", "recv", "clock", "limit",
        "connect", "exec", "status", "close", "ended"}

\* A thread and the locals of run() and _handle() that outlive a step.
At(pc) == [pc |-> pc, source |-> Nothing, data |-> Nothing, now |-> Nothing]

Init ==
    /\ document \in Documents
    /\ main = "config" /\ code = Nothing
    /\ interval = 0
    /\ listeners = {}
    /\ stop = FALSE /\ closing = {}
    /\ thread = [p \in Ports |-> At("unstarted")]
    /\ socket = [p \in Ports |-> Nothing]
    /\ bound = {} /\ sessions = {}
    /\ lastAllowed = [k \in Ports \X Macs |-> Nothing]
    /\ clock = 0
    /\ grants = [k \in Ports \X Macs |-> {}]

-----------------------------------------------------------------------------
(***************************************************************************)
(* parse_magic_packet and build_magic_packet.                              *)
(***************************************************************************)
\* b * n for bytes b.
Tile(b, n) == [i \in 1 .. n * Len(b) |-> b[((i - 1) % Len(b)) + 1]]

BuildMagicPacket(mac) == Tile(<<FF>>, HeaderLength) \o Tile(mac, Repeats)

Header(data) == SubSeq(data, 1, HeaderLength)
MacOf(data) == SubSeq(data, HeaderLength + 1, HeaderLength + MacLength)

\* Mutant: the length is a minimum.
AcceptsLonger(data) ==
    /\ Len(data) >= PacketLength
    /\ Header(data) = Tile(<<FF>>, HeaderLength)
    /\ SubSeq(data, HeaderLength + 1, PacketLength) = Tile(MacOf(data), Repeats)

IsMagicPacket(data) ==
    /\ Len(data) = PacketLength
    /\ Header(data) = Tile(<<FF>>, HeaderLength)
    /\ SubSeq(data, HeaderLength + 1, Len(data)) = Tile(MacOf(data), Repeats)

\* What the network delivers: every payload up to one byte too long.
Datagrams == UNION {[1 .. n -> Bytes] : n \in 0 .. PacketLength + 1}

ASSUME NothingDistinct ==
    Nothing \notin Datagrams /\ Nothing \notin Time /\ Nothing \notin {"open", "closed"}

-----------------------------------------------------------------------------
(***************************************************************************)
(* load_settings and load_mappings.                                        *)
(***************************************************************************)
\* _UniqueKeyLoader: no two equal keys.  5000 and "5000" are not equal.
KeysUnique(d) ==
    \A i, j \in DOMAIN d :
        (d[i].port = d[j].port /\ d[i].quoted = d[j].quoted) => i = j

\* Mutant: str(raw_port) is not compared with the ports read before it.
EntryAcceptedTwice(d, i) ==
    /\ d[i].port \in MinPort .. MaxPort
    /\ d[i].value = "valid"

\* One iteration of the loop, which raises ConfigError otherwise.
EntryAccepted(d, i) ==
    /\ d[i].port \in MinPort .. MaxPort
    /\ \A j \in 1 .. i - 1 : d[j].port # d[i].port
    /\ d[i].value = "valid"

LoadMappings(d) ==
    /\ d # <<>>
    /\ KeysUnique(d)
    /\ \A i \in DOMAIN d : EntryAccepted(d, i)

ConfigPorts(d) == {d[i].port : i \in DOMAIN d}

\* Ports has every port that a mapping file can open.
ASSUME DocumentsAssumption ==
    /\ Documents \subseteq Seq(Entry)
    /\ \A d \in Documents : ConfigPorts(d) \cap (MinPort .. MaxPort) \subseteq Ports

ReadConfig ==
    /\ main = "config"
    /\ LoadMappings(document)
    /\ listeners' = ConfigPorts(document)
    /\ interval' \in Intervals
    /\ document' = <<>>
    /\ main' = "starting"
    /\ UNCHANGED <<code, sigVars, thread, socket, bound, wakeVars, clock>>

\* ConfigError: from the mapping file, or from the environment.
ConfigFails ==
    /\ main = "config"
    /\ main' = "returned" /\ code' = 1
    /\ UNCHANGED <<document, interval, listeners, sigVars, thread, socket,
                   bound, wakeVars, clock>>

-----------------------------------------------------------------------------
(***************************************************************************)
(* The main thread and its signal handler.                                 *)
(***************************************************************************)
StartThread(p) ==
    /\ main = "starting" /\ closing = {}
    /\ p \in listeners /\ thread[p].pc = "unstarted"
    /\ thread' = [thread EXCEPT ![p] = At("create")]
    /\ main' = IF \A q \in listeners \ {p} : thread[q].pc # "unstarted"
               THEN "joining" ELSE main
    /\ UNCHANGED <<document, code, interval, listeners, sigVars, socket,
                   bound, wakeVars, clock>>

Joined ==
    /\ main = "joining" /\ closing = {}
    /\ \A p \in listeners : thread[p].pc = "ended"
    /\ main' = "returned"
    /\ code' = IF stop THEN 0 ELSE 1
    /\ UNCHANGED <<document, interval, listeners, sigVars, thread, socket,
                   bound, wakeVars, clock>>

\* shutdown(): SIGTERM or SIGINT once the handlers are installed.
Signal ==
    /\ main \in {"starting", "joining"} /\ ~stop
    /\ stop' = TRUE
    /\ closing' = listeners
    /\ UNCHANGED <<mainVars, thread, socket, bound, wakeVars, clock>>

\* Mutant: close() leaves the socket to the thread.
CloseListenerLater(p) ==
    /\ p \in closing
    /\ closing' = closing \ {p}
    /\ UNCHANGED <<mainVars, stop, thread, socket, bound, wakeVars, clock>>

\* UDPListener.close().
CloseListener(p) ==
    /\ p \in closing
    /\ closing' = closing \ {p}
    /\ socket' = IF socket[p] = Nothing THEN socket
                 ELSE [socket EXCEPT ![p] = "closed"]
    /\ UNCHANGED <<mainVars, stop, thread, bound, wakeVars, clock>>

-----------------------------------------------------------------------------
(***************************************************************************)
(* UDPListener.run and _handle.                                            *)
(***************************************************************************)
Goto(p, pc) == thread' = [thread EXCEPT ![p] = At(pc)]

CreateSocket(p) ==
    /\ thread[p].pc = "create"
    /\ socket' = [socket EXCEPT ![p] = "open"]
    /\ Goto(p, "bind")
    /\ UNCHANGED <<mainVars, sigVars, bound, wakeVars, clock>>

\* OSError from socket(): _socket stays None.
CreateFails(p) ==
    /\ thread[p].pc = "create"
    /\ Goto(p, "ended")
    /\ UNCHANGED <<mainVars, sigVars, socket, bound, wakeVars, clock>>

Bind(p) ==
    /\ thread[p].pc = "bind" /\ socket[p] = "open"
    /\ bound' = bound \cup {p}
    /\ Goto(p, "test")
    /\ UNCHANGED <<mainVars, sigVars, socket, wakeVars, clock>>

\* OSError: the port is in use, or the handler has closed the socket.
BindFails(p) ==
    /\ thread[p].pc = "bind"
    /\ socket' = [socket EXCEPT ![p] = "closed"]
    /\ Goto(p, "ended")
    /\ UNCHANGED <<mainVars, sigVars, bound, wakeVars, clock>>

\* Mutant: the loop ends when it receives nothing for a while.
TestStopIdle(p) ==
    /\ thread[p].pc = "test"
    /\ \/ ~stop /\ Goto(p, "recv") /\ UNCHANGED socket
       \/ Goto(p, "ended") /\ socket' = [socket EXCEPT ![p] = "closed"]
    /\ UNCHANGED <<mainVars, sigVars, bound, wakeVars, clock>>

\* Mutant: the loop runs until close() has closed the socket.
TestSocket(p) ==
    /\ thread[p].pc = "test"
    /\ IF socket[p] = "closed"
       THEN Goto(p, "ended") /\ UNCHANGED socket
       ELSE Goto(p, "recv") /\ UNCHANGED socket
    /\ UNCHANGED <<mainVars, sigVars, bound, wakeVars, clock>>

\* while not stop_event.is_set(), and the finally clause after it.
TestStop(p) ==
    /\ thread[p].pc = "test"
    /\ IF stop
       THEN Goto(p, "ended") /\ socket' = [socket EXCEPT ![p] = "closed"]
       ELSE Goto(p, "recv") /\ UNCHANGED socket
    /\ UNCHANGED <<mainVars, sigVars, bound, wakeVars, clock>>

\* socket.timeout after 0.5 s, or OSError: back to the loop test.
RecvTimeout(p) ==
    /\ thread[p].pc = "recv"
    /\ Goto(p, "test")
    /\ UNCHANGED <<mainVars, sigVars, socket, bound, wakeVars, clock>>

Accepted(source, data) == source = AllowedIp /\ IsMagicPacket(data)

\* recvfrom returns; the source check and the parser touch nothing shared.
Receive(p, source, data) ==
    /\ thread[p].pc = "recv" /\ socket[p] = "open"
    /\ IF Accepted(source, data)
       THEN thread' = [thread EXCEPT ![p] =
                [pc |-> "clock", source |-> source, data |-> data,
                 now |-> Nothing]]
       ELSE Goto(p, "test")
    /\ UNCHANGED <<mainVars, sigVars, socket, bound, wakeVars, clock>>

-----------------------------------------------------------------------------
(***************************************************************************)
(* RateLimiter.allow: the clock is read before the lock is taken.          *)
(***************************************************************************)
ReadClock(p) ==
    /\ thread[p].pc = "clock"
    /\ thread' = [thread EXCEPT ![p].pc = "limit", ![p].now = clock]
    /\ UNCHANGED <<mainVars, sigVars, socket, bound, wakeVars, clock>>

Key(p) == <<p, MacOf(thread[p].data)>>

\* Mutant: a request at the end of the interval is refused.
StillLimited(p) ==
    /\ lastAllowed[Key(p)] # Nothing
    /\ thread[p].now - lastAllowed[Key(p)] <= interval

Limited(p) ==
    /\ lastAllowed[Key(p)] # Nothing
    /\ thread[p].now - lastAllowed[Key(p)] < interval

Refuse(p) ==
    /\ thread[p].pc = "limit" /\ Limited(p)
    /\ Goto(p, "test")
    /\ UNCHANGED <<mainVars, sigVars, socket, bound, wakeVars, clock>>

Grant(p) ==
    /\ thread[p].pc = "limit" /\ ~Limited(p)
    /\ lastAllowed' = [lastAllowed EXCEPT ![Key(p)] = thread[p].now]
    /\ grants' = [grants EXCEPT ![Key(p)] = @ \cup {thread[p].now}]
    /\ thread' = [thread EXCEPT ![p].pc = "connect", ![p].now = Nothing]
    /\ UNCHANGED <<mainVars, sigVars, socket, bound, sessions, clock>>

-----------------------------------------------------------------------------
(***************************************************************************)
(* FortiGateClient.execute_wol.  FortiGateError is logged by _handle, any  *)
(* other exception by run(); both lead back to the loop test.              *)
(***************************************************************************)
Connect(p) ==
    /\ thread[p].pc = "connect"
    /\ sessions' = sessions \cup {p}
    /\ Goto(p, "exec")
    /\ UNCHANGED <<mainVars, sigVars, socket, bound, lastAllowed, grants,
                   clock>>

\* _connect closes its client before it raises FortiGateError; after any other
\* exception the client is left behind, without a session.
ConnectFails(p) ==
    /\ thread[p].pc = "connect"
    /\ Goto(p, "test")
    /\ UNCHANGED <<mainVars, sigVars, socket, bound, wakeVars, clock>>

ExecCommand(p) ==
    /\ thread[p].pc = "exec"
    /\ Goto(p, "status")
    /\ UNCHANGED <<mainVars, sigVars, socket, bound, wakeVars, clock>>

ExecFails(p) ==
    /\ thread[p].pc = "exec"
    /\ Goto(p, "close")
    /\ UNCHANGED <<mainVars, sigVars, socket, bound, wakeVars, clock>>

\* The output decides between success and FortiGateError, and the finally clause
\* runs after either.
ExitStatus(p) ==
    /\ thread[p].pc = "status"
    /\ Goto(p, "close")
    /\ UNCHANGED <<mainVars, sigVars, socket, bound, wakeVars, clock>>

CloseSession(p) ==
    /\ thread[p].pc = "close"
    /\ sessions' = sessions \ {p}
    /\ Goto(p, "test")
    /\ UNCHANGED <<mainVars, sigVars, socket, bound, lastAllowed, grants,
                   clock>>

-----------------------------------------------------------------------------
Tick ==
    /\ main \in {"starting", "joining"} /\ clock < MaxTime
    /\ clock' = clock + 1
    /\ UNCHANGED <<mainVars, sigVars, thread, socket, bound, wakeVars>>

MainStep ==
    \/ ReadConfig \/ ConfigFails
    \/ \E p \in listeners : StartThread(p)
    \/ \E p \in closing : CloseListener(p)
    \/ Joined

ThreadStep(p) ==
    \/ CreateSocket(p) \/ CreateFails(p) \/ Bind(p) \/ BindFails(p)
    \/ TestStop(p) \/ RecvTimeout(p)
    \/ ReadClock(p) \/ Refuse(p) \/ Grant(p)
    \/ Connect(p) \/ ConnectFails(p) \/ CloseSession(p)

\* Steps that wait for an answer of the device.
DeviceStep(p) == ExecCommand(p) \/ ExecFails(p) \/ ExitStatus(p)

Next ==
    \/ MainStep \/ Signal \/ Tick
    \/ \E p \in Ports : ThreadStep(p) \/ DeviceStep(p)
    \/ \E p \in Ports, source \in Sources, data \in Datagrams :
           Receive(p, source, data)

Spec == Init /\ [][Next]_vars

\* The operating system schedules every thread, and timeouts end recvfrom() and
\* the connection attempt.  Neither the wait for the reply to the exec request
\* nor recv_exit_status() has one, and nothing is assumed of the senders of
\* datagrams.
Fairness ==
    /\ WF_vars(MainStep)
    /\ \A p \in Ports : WF_vars(ThreadStep(p))

FairSpec == Spec /\ Fairness

-----------------------------------------------------------------------------
(***************************************************************************)
(* Properties.                                                             *)
(***************************************************************************)
Optional(S) == S \cup {Nothing}

TypeOK ==
    /\ main \in {"config", "starting", "joining", "returned"}
    /\ code \in Optional({0, 1})
    /\ interval \in Intervals \cup {0}
    /\ listeners \subseteq Ports
    /\ stop \in BOOLEAN /\ closing \subseteq listeners
    /\ thread \in [Ports -> [pc : Pcs, source : Optional(Sources),
                             data : Optional(Datagrams), now : Optional(Time)]]
    /\ socket \in [Ports -> Optional({"open", "closed"})]
    /\ bound \subseteq listeners /\ sessions \subseteq listeners
    /\ lastAllowed \in [Ports \X Macs -> Optional(Time)]
    /\ clock \in Time
    /\ grants \in [Ports \X Macs -> SUBSET Time]

(* load_mappings: a file is refused or every one of its entries becomes a   *)
(* listener of its own, on an unprivileged port; "5000" beside 5000 does    *)
(* not silently replace it.                                                 *)
ConfigFaithful ==
    [][main' = "starting" /\ main = "config" =>
          /\ Cardinality(listeners') = Len(document)
          /\ listeners' \subseteq MinPort .. MaxPort]_vars

(* Whatever interleaves, a wake request is on its way only for a datagram   *)
(* that came from the allowed address and is exactly what                   *)
(* build_magic_packet makes of the address that is woken.                   *)
WakesJustified ==
    \A p \in Ports : thread[p].data # Nothing =>
        /\ thread[p].source = AllowedIp
        /\ \E mac \in Macs : thread[p].data = BuildMagicPacket(mac)
                             /\ MacOf(thread[p].data) = mac

(* RateLimiter.allow decides exactly: a request is granted if and only if   *)
(* the same port and MAC were granted nothing less than an interval before  *)
(* the request's reading of the clock.  Refused requests, other ports and   *)
(* other MACs do not prolong the wait, and the end of the interval is free. *)
LimiterExact ==
    [][\A p \in Ports :
          (thread[p].pc = "limit" /\ thread'[p].pc # "limit") =>
              (thread'[p].pc = "connect" <=>
                   \A g \in grants[Key(p)] : thread[p].now - g >= interval)]_vars

(* Once the signal handler has returned, no listener can take another       *)
(* datagram, also one whose thread was just being started, was binding its  *)
(* socket, or had passed the loop test before the signal.                   *)
DeafAfterShutdown ==
    (stop /\ closing = {}) =>
        \A p \in Ports : thread[p].pc = "recv" => socket[p] # "open"

(* The exit of main() is clean and its code tells a supervisor the truth:   *)
(* every thread has ended with its SSH session closed, whichever step of a  *)
(* wake failed; 0 follows a signal, and 1 a refused configuration or a      *)
(* start at which no listener could bind.                                   *)
ExitTruthful ==
    main = "returned" =>
        /\ sessions = {} /\ \A p \in listeners : thread[p].pc = "ended"
        /\ code = 0 => stop
        /\ code = 1 => ~stop /\ bound = {}

(* What the properties above rest on.  A thread that was started belongs to *)
(* a listener and has had its socket since it tried to bind it; a port that *)
(* was bound serves until the signal; only the steps of a wake have an SSH  *)
(* session.                                                                 *)
LifeInv ==
    /\ main = "config" => document \in Documents /\ listeners = {} /\ ~stop
    /\ \A p \in Ports :
           /\ thread[p].pc # "unstarted" => p \in listeners
           /\ thread[p].pc \notin {"unstarted", "create", "ended"}
                  => socket[p] # Nothing
           /\ p \in bound => /\ thread[p].pc \notin {"unstarted", "create", "bind"}
                             /\ thread[p].pc = "ended" => stop
           /\ p \in sessions => thread[p].pc \in {"exec", "status", "close"}

(* Between recvfrom() and the SSH session a thread has an accepted datagram, *)
(* and RateLimiter.allow a reading of the clock.                             *)
PacketInv ==
    \A p \in Ports :
        /\ thread[p].pc \in {"clock", "limit", "connect"}
               <=> thread[p].data # Nothing
        /\ thread[p].data # Nothing => Accepted(thread[p].source, thread[p].data)
        /\ thread[p].pc = "limit" => thread[p].now # Nothing

(* _last_allowed has the latest of the readings at which a key was granted. *)
LimitInv ==
    \A k \in Ports \X Macs :
        IF lastAllowed[k] = Nothing THEN grants[k] = {}
        ELSE /\ lastAllowed[k] \in grants[k]
             /\ \A g \in grants[k] : g <= lastAllowed[k]

(* A listener that the handler is done with is not receiving.               *)
DeafInv ==
    \A p \in Ports :
        stop /\ p \notin closing /\ thread[p].pc = "recv" => socket[p] # "open"

(* A signal ends the process, provided no device leaves a request to execute *)
(* the wake command, or the command itself, unanswered for ever.             *)
DrainsOnSignal ==
    (\A p \in Ports : []<>(thread[p].pc \notin {"exec", "status"}))
        => (stop ~> main = "returned")

=============================================================================
