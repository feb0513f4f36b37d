------------------------------- MODULE Relay --------------------------------
(***************************************************************************)
(* The local SOCKS5 and HTTP proxy (proxy.rs): the accept loop, the        *)
(* handshake of each connection, the dial through the tunnel device and    *)
(* the copy of the client's bytes.                                         *)
(*                                                                         *)
(* What a client sends is cut into units numbered from 1: two for the      *)
(* handshake (SOCKS5 greeting and request, or an HTTP head that arrives in *)
(* two parts), then the payload.  0 stands for the rewritten head of a     *)
(* plain HTTP request.  Bytes from upstream to client are left out, and so *)
(* is the 64 KiB limit on an HTTP head.  The build is the Linux one and    *)
(* VGL_TUN names a device: elsewhere, or with an empty name, no socket is  *)
(* bound at all.                                                           *)
(***************************************************************************)
EXTENDS Naturals, FiniteSets, SequencesExt

CONSTANTS
  Conns,    \* client connections
  Kinds,    \* what clients may speak
  Payload,  \* units of payload per connection
  Tries,    \* bound on the addresses a name resolves to, at least one
  FdLimit   \* sockets the process may have open

ASSUME RelayAssumption ==
  /\ Kinds \subseteq {"socks", "bind", "connect", "plain"}
  /\ Payload \in Nat /\ Tries \in Nat \ {0} /\ FdLimit \in Nat

VARIABLES
  listener,          \* the accept loop runs
  device,            \* the tun device exists
  phase, kind,       \* per connection: where its handler stands
  sent, gone, taken, \* units sent, end of input sent, units read
  buf,               \* the head read so far, with what came along
  tries, sock,       \* addresses left, the upstream socket
  bound,             \* that socket is bound to the device
  told, wire         \* replies to the client, units written upstream

inputVars == <<sent, gone>>
dialVars  == <<tries, sock, bound>>
outVars   == <<told, wire>>
vars == <<listener, device, phase, kind, inputVars, taken, buf, dialVars, outVars>>

End == Payload + 2
Socks(c) == kind[c] \in {"socks", "bind"}

(* Units i to j of a client's stream. *)
Units(i, j) == [n \in 1..(IF j < i THEN 0 ELSE j - i + 1) |-> i + n - 1]

(* What upstream must get of a client that has sent n units. *)
Expected(k, n) == (IF k = "plain" THEN <<0>> ELSE <<>>) \o Units(3, n)

Live == {c \in Conns : phase[c] \notin {"none", "closed"}}
Fds == Cardinality(Live) + Cardinality({c \in Conns : sock[c] # "none"})

Init ==
  /\ listener = TRUE /\ device = FALSE
  /\ phase = [c \in Conns |-> "none"] /\ kind \in [Conns -> Kinds]
  /\ sent = [c \in Conns |-> 0] /\ gone = [c \in Conns |-> FALSE]
  /\ taken = [c \in Conns |-> 0] /\ buf = [c \in Conns |-> <<>>]
  /\ tries = [c \in Conns |-> 0] /\ sock = [c \in Conns |-> "none"]
  /\ bound = [c \in Conns |-> FALSE]
  /\ told = [c \in Conns |-> <<>>] /\ wire = [c \in Conns |-> <<>>]

At(c, p) == phase[c] = p
Goto(c, p) == phase' = [phase EXCEPT ![c] = p]
Tell(c, m) == told' = [told EXCEPT ![c] = Append(@, m)]

(* Both streams are dropped with the task. *)
Close(c) == Goto(c, "closed") /\ sock' = [sock EXCEPT ![c] = "none"]

-----------------------------------------------------------------------------
(* The accept loop of serve_relay: any error ends it. *)

Accept(c) ==
  /\ listener /\ At(c, "none") /\ Fds < FdLimit
  /\ Goto(c, "first")
  /\ UNCHANGED <<listener, device, kind, inputVars, taken, buf, dialVars, outVars>>

(* No socket is left, or accept passes on the error of a queued connection *)
(* that was aborted.                                                       *)
AcceptFails ==
  /\ listener /\ \E c \in Conns : At(c, "none")
  /\ listener' = FALSE
  /\ UNCHANGED <<device, phase, kind, inputVars, taken, buf, dialVars, outVars>>

-----------------------------------------------------------------------------
(* The handshake. *)

Unread(c) == taken[c] < sent[c]

(* SOCKS5: read exactly the greeting and accept it. *)
ReadGreeting(c) ==
  /\ At(c, "first") /\ Socks(c) /\ Unread(c)
  /\ taken' = [taken EXCEPT ![c] = 1]
  /\ Tell(c, "method")
  /\ Goto(c, "request")
  /\ UNCHANGED <<listener, device, kind, inputVars, buf, dialVars, wire>>

(* A literal address is dialled as it is, a name is looked up first.       *)
Target(c) ==
  \/ Goto(c, "dial") /\ tries' = [tries EXCEPT ![c] = 1]
  \/ Goto(c, "resolve") /\ UNCHANGED tries

(* ... then exactly the request.                                           *)
ReadRequest(c) ==
  /\ At(c, "request") /\ Unread(c) /\ kind[c] = "socks"
  /\ taken' = [taken EXCEPT ![c] = 2]
  /\ Target(c)
  /\ UNCHANGED <<listener, device, kind, inputVars, buf, sock, bound, outVars>>

RefuseCommand(c) ==
  /\ At(c, "request") /\ Unread(c) /\ kind[c] = "bind"
  /\ taken' = [taken EXCEPT ![c] = 2]
  /\ Tell(c, "unsupported")
  /\ Close(c)
  /\ UNCHANGED <<listener, device, kind, inputVars, buf, tries, bound, wire>>

(* HTTP: the first byte, then whatever has arrived, up to the blank line.  *)
ReadHead(c) ==
  /\ phase[c] \in {"first", "head"} /\ ~Socks(c) /\ Unread(c)
  /\ \E n \in (taken[c] + 1)..sent[c] :
       /\ taken' = [taken EXCEPT ![c] = n]
       /\ buf' = [buf EXCEPT ![c] = @ \o Units(taken[c] + 1, n)]
       /\ IF n < 2
          THEN Goto(c, "head") /\ UNCHANGED tries
          ELSE Target(c)
  /\ UNCHANGED <<listener, device, kind, inputVars, sock, bound, outVars>>

(* The client's input ends in the middle of the handshake. *)
EarlyEnd(c) ==
  /\ phase[c] \in {"first", "request", "head"} /\ gone[c] /\ ~Unread(c)
  /\ Close(c)
  /\ UNCHANGED <<listener, device, kind, inputVars, taken, buf, tries, bound, outVars>>

-----------------------------------------------------------------------------
(* connect_blocking.                                                       *)

(* to_socket_addrs asks the resolver of the host, over sockets that are    *)
(* not bound to the device and in or out of a session: while a connection  *)
(* is at this step its name is on its way there.  The answer is some       *)
(* addresses; none stands for an error.                                    *)
Resolve(c) ==
  /\ At(c, "resolve")
  /\ \E n \in 0..Tries : tries' = [tries EXCEPT ![c] = n]
  /\ Goto(c, "dial")
  /\ UNCHANGED <<listener, device, kind, inputVars, taken, buf, sock, bound, outVars>>

(* One address after the other; a socket that cannot be made, bound or     *)
(* connected counts as a failed address.                                   *)

(* An address skipped. *)
NextAddressTwice(c) ==
  /\ tries' = [tries EXCEPT ![c] = @ - 2]
  /\ sock' = [sock EXCEPT ![c] = "none"] /\ bound' = [bound EXCEPT ![c] = FALSE]

(* The failed address tried again. *)
NextAddressSame(c) ==
  /\ sock' = [sock EXCEPT ![c] = "none"] /\ bound' = [bound EXCEPT ![c] = FALSE]
  /\ UNCHANGED tries

NextAddress(c) ==
  /\ tries' = [tries EXCEPT ![c] = @ - 1]
  /\ sock' = [sock EXCEPT ![c] = "none"] /\ bound' = [bound EXCEPT ![c] = FALSE]

Socket(c) ==
  /\ At(c, "dial") /\ sock[c] = "none" /\ tries[c] > 0
  /\ \/ /\ Fds < FdLimit
        /\ sock' = [sock EXCEPT ![c] = "new"]
        /\ UNCHANGED <<tries, bound>>
     \/ /\ Fds >= FdLimit
        /\ NextAddress(c)
  /\ UNCHANGED <<listener, device, phase, kind, inputVars, taken, buf, outVars>>

(* The error of SO_BINDTODEVICE swallowed, as those of the timeouts are.   *)
BindSwallowed(c) ==
  /\ At(c, "dial") /\ sock[c] = "new"
  /\ sock' = [sock EXCEPT ![c] = "ready"]
  /\ bound' = [bound EXCEPT ![c] = device]
  /\ UNCHANGED <<listener, device, phase, kind, inputVars, taken, buf, tries, outVars>>

(* Success announced before the connection stands. *)
ReplyEarly(c) ==
  /\ At(c, "dial") /\ sock[c] = "new"
  /\ kind[c] # "plain"
  /\ Tell(c, IF Socks(c) THEN "ok" ELSE "established")
  /\ sock' = [sock EXCEPT ![c] = "ready"] /\ bound' = [bound EXCEPT ![c] = TRUE]
  /\ UNCHANGED <<listener, device, phase, kind, inputVars, taken, buf, tries, wire>>

Bind(c) ==
  /\ At(c, "dial") /\ sock[c] = "new"
  /\ \/ /\ device
        /\ sock' = [sock EXCEPT ![c] = "ready"]
        /\ bound' = [bound EXCEPT ![c] = TRUE]
        /\ UNCHANGED tries
     \/ /\ ~device
        /\ NextAddress(c)
  /\ UNCHANGED <<listener, device, phase, kind, inputVars, taken, buf, outVars>>

Connect(c) ==
  /\ At(c, "dial") /\ sock[c] = "ready"
  /\ \/ /\ sock' = [sock EXCEPT ![c] = "up"]
        /\ Goto(c, "reply")
        /\ UNCHANGED <<tries, bound>>
     \/ /\ NextAddress(c)
        /\ UNCHANGED phase
  /\ UNCHANGED <<listener, device, kind, inputVars, taken, buf, outVars>>

(* SOCKS5 reports the failure; HTTP only closes. *)
DialFails(c) ==
  /\ At(c, "dial") /\ sock[c] = "none" /\ tries[c] = 0
  /\ IF Socks(c) THEN Tell(c, "refused") ELSE UNCHANGED told
  /\ Close(c)
  /\ UNCHANGED <<listener, device, kind, inputVars, taken, buf, tries, bound, wire>>

-----------------------------------------------------------------------------
(* The upstream connection stands. *)

Reply(c) ==
  /\ At(c, "reply")
  /\ IF kind[c] = "plain"
     THEN wire' = [wire EXCEPT ![c] = <<0>>] /\ UNCHANGED told
     ELSE Tell(c, IF Socks(c) THEN "ok" ELSE "established") /\ UNCHANGED wire
  /\ Goto(c, IF Socks(c) THEN "relay" ELSE "rest")
  /\ UNCHANGED <<listener, device, kind, inputVars, taken, buf, dialVars>>

(* What followed the head in the buffer forgotten. *)
WriteRestSkipped(c) ==
  /\ At(c, "rest")
  /\ Goto(c, "relay")
  /\ UNCHANGED <<listener, device, kind, inputVars, taken, buf, dialVars, outVars>>

(* Payload that arrived with the head goes first. *)
WriteRest(c) ==
  /\ At(c, "rest")
  /\ wire' = [wire EXCEPT ![c] = @ \o SubSeq(buf[c], 3, Len(buf[c]))]
  /\ Goto(c, "relay")
  /\ UNCHANGED <<listener, device, kind, inputVars, taken, buf, dialVars, told>>

(* copy_bidirectional, from client to upstream. *)
Copy(c) ==
  /\ At(c, "relay") /\ Unread(c)
  /\ taken' = [taken EXCEPT ![c] = sent[c]]
  /\ wire' = [wire EXCEPT ![c] = @ \o Units(taken[c] + 1, sent[c])]
  /\ UNCHANGED <<listener, device, phase, kind, inputVars, buf, dialVars, told>>

(* Both ends are through. *)
Finish(c) ==
  /\ At(c, "relay") /\ gone[c] /\ ~Unread(c)
  /\ Goto(c, "closed") /\ sock' = [sock EXCEPT ![c] = "none"]
  /\ UNCHANGED <<listener, device, kind, inputVars, taken, buf, tries, bound, outVars>>

(* An error of either stream; a blocking dial is not interrupted by one.   *)
Break(c) ==
  /\ c \in Live /\ phase[c] \notin {"resolve", "dial"}
  /\ Close(c)
  /\ UNCHANGED <<listener, device, kind, inputVars, taken, buf, tries, bound, outVars>>

-----------------------------------------------------------------------------
(* Clients and the tunnel. *)

Send(c) ==
  /\ c \in Live /\ ~gone[c] /\ sent[c] < End
  /\ sent' = [sent EXCEPT ![c] = @ + 1]
  /\ UNCHANGED <<listener, device, phase, kind, gone, taken, buf, dialVars, outVars>>

EndInput(c) ==
  /\ c \in Live /\ ~gone[c]
  /\ gone' = [gone EXCEPT ![c] = TRUE]
  /\ UNCHANGED <<listener, device, phase, kind, sent, taken, buf, dialVars, outVars>>

TunnelChanges ==
  /\ device' = ~device
  /\ UNCHANGED <<listener, phase, kind, inputVars, taken, buf, dialVars, outVars>>

-----------------------------------------------------------------------------

Handshake(c) ==
  \/ ReadGreeting(c) \/ ReadRequest(c) \/ RefuseCommand(c) \/ ReadHead(c) \/ EarlyEnd(c)

Dial(c) == Resolve(c) \/ Socket(c) \/ Bind(c) \/ Connect(c) \/ DialFails(c)

Transfer(c) == Reply(c) \/ WriteRest(c) \/ Copy(c) \/ Finish(c) \/ Break(c)

Next ==
  \/ \E c \in Conns :
       Accept(c) \/ Handshake(c) \/ Dial(c) \/ Transfer(c) \/ Send(c) \/ EndInput(c)
  \/ AcceptFails
  \/ TunnelChanges

Spec == Init /\ [][Next]_vars

(* The dial runs on a thread of tokio's blocking pool: the resolver and    *)
(* connect have time limits.  Nothing else is owed: a write may wait for   *)
(* ever, the sockets' own time limits do not apply once they are           *)
(* non-blocking, and clients owe nothing.                                  *)
FairSpec == Spec /\ \A c \in Conns : WF_vars(Dial(c))

-----------------------------------------------------------------------------
(* Properties. *)

Phases == {"none", "first", "request", "head", "resolve", "dial", "reply", "rest",
           "relay", "closed"}

TypeOK ==
  /\ listener \in BOOLEAN /\ device \in BOOLEAN
  /\ phase \in [Conns -> Phases] /\ kind \in [Conns -> Kinds]
  /\ sent \in [Conns -> 0..End] /\ gone \in [Conns -> BOOLEAN]
  /\ taken \in [Conns -> 0..End] /\ buf \in [Conns -> Seq(1..End)]
  /\ tries \in [Conns -> 0..Tries]
  /\ sock \in [Conns -> {"none", "new", "ready", "up"}]
  /\ bound \in [Conns -> BOOLEAN]
  /\ told \in [Conns -> Seq({"method", "ok", "refused", "unsupported", "established"})]
  /\ wire \in [Conns -> Seq(0..End)]

(* A connection made for a client, and the bytes it carries, use a socket  *)
(* bound to the tunnel device, whatever addresses fail and whenever the    *)
(* device comes and goes: without a tunnel no connection is made.          *)
FailClosed == \A c \in Conns : wire[c] # <<>> \/ sock[c] = "up" => bound[c]

(* Upstream gets the client's payload in order, once and without the       *)
(* handshake, however the input was cut into reads.                        *)
StreamIntact ==
  \A c \in Conns :
    /\ IsPrefix(wire[c], Expected(kind[c], sent[c]))
    /\ At(c, "relay") => wire[c] = Expected(kind[c], taken[c])

(* A client is given at most one verdict, success only over a connection   *)
(* that stands.  (A HTTP client whose dial fails is given none.)           *)
OneVerdict ==
  \A c \in Conns :
    /\ told[c] \in {<<>>, <<"method">>, <<"method", "ok">>, <<"method", "refused">>,
                    <<"method", "unsupported">>, <<"established">>}
    /\ phase[c] \in {"resolve", "dial"} => told[c] \in {<<>>, <<"method">>}

(* The dial of a client whose request has been read comes to its end, with *)
(* a connection or without, however many addresses fail, whatever the      *)
(* tunnel does meanwhile and however few sockets are left.                 *)
RequestsEnd ==
  \A c \in Conns : phase[c] \in {"resolve", "dial"} ~> phase[c] \notin {"resolve", "dial"}

(* What the relay sends out for a client leaves through the tunnel, and    *)
(* so no name is ever on its way to the resolver of the host.              *)
NamesKept == \A c \in Conns : ~At(c, "resolve")
=============================================================================
