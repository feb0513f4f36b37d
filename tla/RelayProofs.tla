---------------------------- MODULE RelayProofs -----------------------------
(***************************************************************************)
(* The relay never lets a client's bytes out beside the tunnel, gives a    *)
(* client one verdict and passes its payload on whole and in order, for    *)
(* any number of connections, addresses and sockets and any cut of the     *)
(* streams into reads.                                                     *)
(***************************************************************************)
EXTENDS Relay, SequenceTheorems, TLAPS

ShapeOK ==
  /\ phase \in [Conns -> Phases]
  /\ sock \in [Conns -> {"none", "new", "ready", "up"}]
  /\ bound \in [Conns -> BOOLEAN]
  /\ DOMAIN wire = Conns /\ wire = [c \in Conns |-> wire[c]]

(* A socket past its bind is bound, an upstream connection exists only     *)
(* once the dial is over, and bytes are written only after that.           *)
BindInv ==
  /\ ShapeOK
  /\ \A c \in Conns :
       /\ sock[c] \in {"ready", "up"} => bound[c]
       /\ phase[c] \in {"reply", "rest", "relay"} => sock[c] = "up"
       /\ phase[c] \in {"none", "first", "request", "head", "resolve", "dial"} => wire[c] = <<>>
       /\ wire[c] # <<>> => bound[c]

(* No socket exists at the start. *)
LEMMA BindInit == Init => BindInv
BY DEF Init, BindInv, ShapeOK, Phases

(* Accepting and shaking hands dial nothing. *)
LEMMA BindHandshake ==
  ASSUME BindInv, NEW c \in Conns, Accept(c) \/ Handshake(c)
  PROVE  BindInv'
<1> USE DEF BindInv, ShapeOK, Phases, At, Goto, Close, dialVars, outVars
<1>1. CASE Accept(c)
  BY <1>1 DEF Accept
<1>2. CASE ReadGreeting(c)
  BY <1>2 DEF ReadGreeting
<1>3. CASE ReadRequest(c)
  BY <1>3 DEF ReadRequest, Target
<1>4. CASE RefuseCommand(c)
  BY <1>4 DEF RefuseCommand
<1>5. CASE ReadHead(c)
  <2>1. UNCHANGED <<sock, bound, outVars>> /\ wire[c] = <<>>
        /\ \E p \in {"head", "resolve", "dial"} : phase' = [phase EXCEPT ![c] = p]
    BY <1>5 DEF ReadHead, Target
  <2>2. QED
    BY <2>1
<1>6. CASE EarlyEnd(c)
  BY <1>6 DEF EarlyEnd
<1>7. QED
  BY <1>1, <1>2, <1>3, <1>4, <1>5, <1>6 DEF Handshake

(* A dial ends with a bound connection or with none. *)
LEMMA BindDial ==
  ASSUME BindInv, NEW c \in Conns, Dial(c)
  PROVE  BindInv'
<1> USE DEF BindInv, ShapeOK, Phases, At, Goto, Close, dialVars, outVars
<1>1. ASSUME phase[c] = "dial", NextAddress(c), UNCHANGED <<phase, outVars>>
      PROVE  BindInv'
  <2>1. /\ sock' = [sock EXCEPT ![c] = "none"] /\ bound' = [bound EXCEPT ![c] = FALSE]
        /\ UNCHANGED <<phase, wire>> /\ wire[c] = <<>>
    BY <1>1 DEF NextAddress
  <2>2. QED
    BY <1>1, <2>1
<1>0. CASE Resolve(c)
  BY <1>0 DEF Resolve
<1>2. CASE Socket(c)
  BY <1>1, <1>2 DEF Socket
<1>3. CASE Bind(c)
  <2>1. CASE device
    BY <1>3, <2>1 DEF Bind
  <2>2. CASE ~device
    BY <1>1, <1>3, <2>2 DEF Bind
  <2>3. QED
    BY <2>1, <2>2
<1>4. CASE Connect(c)
  <2>1. CASE sock' = [sock EXCEPT ![c] = "up"] /\ phase' = [phase EXCEPT ![c] = "reply"]
             /\ UNCHANGED <<bound, outVars>>
    BY <2>1, <1>4 DEF Connect
  <2>2. QED
    BY <1>1, <1>4, <2>1 DEF Connect
<1>5. CASE DialFails(c)
  BY <1>5 DEF DialFails
<1>6. QED
  BY <1>0, <1>2, <1>3, <1>4, <1>5 DEF Dial

(* Bytes go out over the connection the dial has left. *)
LEMMA BindTransfer ==
  ASSUME BindInv, NEW c \in Conns, Transfer(c)
  PROVE  BindInv'
<1> USE DEF BindInv, ShapeOK, Phases, At, Goto, Close, dialVars, outVars
<1>1. CASE Reply(c)
  BY <1>1 DEF Reply
<1>2. CASE WriteRest(c)
  BY <1>2 DEF WriteRest
<1>3. CASE Copy(c)
  BY <1>3 DEF Copy
<1>4. CASE Finish(c)
  BY <1>4 DEF Finish
<1>5. CASE Break(c)
  BY <1>5 DEF Break
<1>6. QED
  BY <1>1, <1>2, <1>3, <1>4, <1>5 DEF Transfer

(* One step of any kind keeps the invariant. *)
LEMMA BindNext ==
  ASSUME BindInv, [Next]_vars
  PROVE  BindInv'
<1>1. ASSUME NEW c \in Conns, Send(c) \/ EndInput(c) PROVE BindInv'
  BY <1>1 DEF Send, EndInput, BindInv, ShapeOK, dialVars, outVars
<1>2. CASE AcceptFails \/ TunnelChanges \/ UNCHANGED vars
  BY <1>2 DEF AcceptFails, TunnelChanges, vars, BindInv, ShapeOK, dialVars, outVars
<1>3. QED
  BY <1>1, <1>2, BindHandshake, BindDial, BindTransfer DEF Next

(* A connection made for a client uses a socket bound to the tunnel        *)
(* device, for any clients and whatever becomes of the device.             *)
THEOREM FailClosedHolds == Spec => []FailClosed
<1>1. BindInv /\ [Next]_vars => BindInv'
  BY BindNext
<1>2. BindInv => FailClosed
  BY DEF BindInv, FailClosed
<1>3. QED
  BY <1>1, <1>2, BindInit, PTL DEF Spec

-----------------------------------------------------------------------------
(* Types: addresses are left as long as a socket is under way.             *)

(* The bounds are numbers. *)
LEMMA EndType == End \in Nat /\ End >= 2 /\ Tries \in Nat
BY RelayAssumption DEF RelayAssumption, End

(* A cut of a client's stream is a sequence of its units. *)
LEMMA UnitsType ==
  ASSUME NEW i \in Nat \ {0}, NEW j \in 0..End
  PROVE  Units(i, j) \in Seq(1..End)
<1> DEFINE n == IF j < i THEN 0 ELSE j - i + 1
<1>1. n \in Nat /\ End \in Nat
  BY RelayAssumption DEF RelayAssumption, End
<1>2. \A k \in 1..n : i + k - 1 \in 1..End
  BY <1>1
<1>3. Units(i, j) = [k \in 1..n |-> i + k - 1]
  BY DEF Units
<1>4. QED
  BY <1>1, <1>2, <1>3

Early == {"none", "first", "request", "head", "resolve"}

(* The parts of TypeOK, by the state they speak of. *)
PhaseTypes ==
  /\ listener \in BOOLEAN /\ device \in BOOLEAN
  /\ phase \in [Conns -> Phases] /\ kind \in [Conns -> Kinds]

InputTypes ==
  /\ sent \in [Conns -> 0..End] /\ gone \in [Conns -> BOOLEAN]
  /\ taken \in [Conns -> 0..End] /\ buf \in [Conns -> Seq(1..End)]

DialTypes ==
  /\ tries \in [Conns -> 0..Tries]
  /\ sock \in [Conns -> {"none", "new", "ready", "up"}]
  /\ bound \in [Conns -> BOOLEAN]
  /\ \A c \in Conns :
       /\ sock[c] \in {"new", "ready"} => tries[c] > 0
       /\ phase[c] \in Early => sock[c] = "none"

Replies == {"method", "ok", "refused", "unsupported", "established"}
OutTypes == told \in [Conns -> Seq(Replies)] /\ wire \in [Conns -> Seq(0..End)]

TypeInv == PhaseTypes /\ InputTypes /\ DialTypes /\ OutTypes

(* A part of a sequence is one. *)
LEMMA SubSeqType ==
  ASSUME NEW S, NEW s \in Seq(S)
  PROVE  SubSeq(s, 3, Len(s)) \in Seq(S)
<1>1. Len(s) \in Nat /\ s \in [1..Len(s) -> S]
  BY LenProperties
<1>2. \A i \in 3..Len(s) : s[i] \in S
  BY <1>1
<1>3. QED
  BY <1>1, <1>2, SubSeqProperties

(* A reply is one of few. *)
LEMMA ToldType ==
  ASSUME OutTypes, NEW c \in Conns, NEW m \in Replies, UNCHANGED wire,
         UNCHANGED told \/ Tell(c, m)
  PROVE  OutTypes'
<1>1. CASE UNCHANGED told
  BY <1>1 DEF OutTypes
<1>2. CASE Tell(c, m)
  <2>1. Append(told[c], m) \in Seq(Replies)
    BY DEF OutTypes
  <2>2. QED
    BY <1>2, <2>1 DEF OutTypes, Tell
<1>3. QED
  BY <1>1, <1>2

(* What goes upstream are units of the stream and the rewritten head. *)
LEMMA WireType ==
  ASSUME OutTypes, NEW c \in Conns, NEW w \in Seq(0..End), UNCHANGED told,
         wire' = [wire EXCEPT ![c] = w]
  PROVE  OutTypes'
BY DEF OutTypes

(* The handshake keeps the types. *)
LEMMA TypeHandshake ==
  ASSUME TypeInv, NEW c \in Conns, Accept(c) \/ Handshake(c)
  PROVE  TypeInv'
<1> USE DEF TypeInv, At, Goto, Tell, Close, inputVars, dialVars, outVars
<1>1. PhaseTypes'
  BY DEF Accept, Handshake, ReadGreeting, ReadRequest, RefuseCommand, ReadHead, EarlyEnd,
         Target, PhaseTypes, Phases
<1>2. InputTypes'
  <2>1. CASE UNCHANGED <<inputVars, taken, buf>>
    BY <2>1 DEF InputTypes
  <2>2. CASE UNCHANGED <<inputVars, buf>> /\ \E n \in {1, 2} : taken' = [taken EXCEPT ![c] = n]
    BY <2>2, EndType DEF InputTypes, End
  <2>3. CASE ReadHead(c)
    <3>1. PICK n \in (taken[c] + 1)..sent[c] :
            /\ taken' = [taken EXCEPT ![c] = n]
            /\ buf' = [buf EXCEPT ![c] = @ \o Units(taken[c] + 1, n)]
      BY <2>3 DEF ReadHead
    <3>2. taken[c] \in 0..End /\ n \in 0..End
      BY <3>1, EndType DEF InputTypes
    <3>3. Units(taken[c] + 1, n) \in Seq(1..End)
      BY <3>2, UnitsType
    <3>4. QED
      BY <2>3, <3>1, <3>2, <3>3 DEF InputTypes, ReadHead
  <2>4. QED
    BY <2>1, <2>2, <2>3
       DEF Accept, Handshake, ReadGreeting, ReadRequest, RefuseCommand, EarlyEnd
<1>3. DialTypes'
  <2> USE DEF PhaseTypes, DialTypes, Phases, Early
  <2>1. CASE Accept(c) \/ ReadGreeting(c)
    BY <2>1 DEF Accept, ReadGreeting
  <2>2. CASE RefuseCommand(c) \/ EarlyEnd(c)
    BY <2>2 DEF RefuseCommand, EarlyEnd
  <2>3. CASE ReadRequest(c) \/ ReadHead(c)
    <3>1. sock[c] = "none" /\ UNCHANGED <<sock, bound>>
      BY <2>3 DEF ReadRequest, ReadHead
    <3>2. 1 \in 0..Tries
      BY EndType, RelayAssumption DEF RelayAssumption
    <3>3. UNCHANGED tries \/ tries' = [tries EXCEPT ![c] = 1]
      BY <2>3 DEF ReadRequest, ReadHead, Target
    <3>4. \E p \in {"resolve", "dial", "head"} : phase' = [phase EXCEPT ![c] = p]
      BY <2>3 DEF ReadRequest, ReadHead, Target
    <3>5. QED
      BY <3>1, <3>2, <3>3, <3>4
  <2>4. QED
    BY <2>1, <2>2, <2>3 DEF Handshake
<1>4. OutTypes'
  <2>1. /\ UNCHANGED wire
        /\ \E m \in Replies : UNCHANGED told \/ told' = [told EXCEPT ![c] = Append(@, m)]
    BY DEF Accept, Handshake, ReadGreeting, ReadRequest, RefuseCommand, ReadHead, EarlyEnd, Replies
  <2>2. QED
    BY <2>1, ToldType DEF Tell
<1>5. QED
  BY <1>1, <1>2, <1>3, <1>4

(* So does a dial, which takes an address only while there is one. *)
LEMMA TypeDial ==
  ASSUME TypeInv, NEW c \in Conns, Dial(c)
  PROVE  TypeInv'
<1> USE DEF TypeInv, At, Goto, Tell, Close, NextAddress, inputVars, dialVars, outVars
<1>1. PhaseTypes'
  BY DEF Dial, Resolve, Socket, Bind, Connect, DialFails, PhaseTypes, Phases
<1>2. InputTypes'
  BY DEF Dial, Resolve, Socket, Bind, Connect, DialFails, InputTypes
<1>3. DialTypes'
  <2> USE EndType DEF PhaseTypes, DialTypes, Phases, Early
  <2>1. tries[c] \in 0..Tries /\ (tries[c] > 0 => tries[c] - 1 \in 0..Tries)
    OBVIOUS
  <2>2. ASSUME NextAddress(c), tries[c] > 0, UNCHANGED phase PROVE DialTypes'
    BY <2>1, <2>2
  <2>0. CASE Resolve(c)
    BY <2>0 DEF Resolve
  <2>3. CASE Socket(c)
    <3>1. CASE sock' = [sock EXCEPT ![c] = "new"] /\ UNCHANGED <<tries, bound>>
      BY <2>3, <3>1 DEF Socket
    <3>2. QED
      BY <2>2, <2>3, <3>1 DEF Socket
  <2>4. CASE Bind(c)
    <3>1. CASE device
      BY <2>4, <3>1 DEF Bind
    <3>2. QED
      BY <2>2, <2>4, <3>1 DEF Bind
  <2>5. CASE Connect(c)
    <3>1. CASE sock' = [sock EXCEPT ![c] = "up"] /\ Goto(c, "reply") /\ UNCHANGED <<tries, bound>>
      BY <3>1
    <3>2. QED
      BY <2>2, <2>5, <3>1 DEF Connect
  <2>6. CASE DialFails(c)
    BY <2>6 DEF DialFails
  <2>7. QED
    BY <2>0, <2>3, <2>4, <2>5, <2>6 DEF Dial
<1>4. OutTypes'
  <2>1. UNCHANGED wire /\ (UNCHANGED told \/ Tell(c, "refused"))
    BY DEF Dial, Resolve, Socket, Bind, Connect, DialFails
  <2>2. QED
    BY <2>1, ToldType DEF Replies
<1>5. QED
  BY <1>1, <1>2, <1>3, <1>4

(* And the transfer. *)
LEMMA TypeTransfer ==
  ASSUME TypeInv, NEW c \in Conns, Transfer(c)
  PROVE  TypeInv'
<1> USE DEF TypeInv, At, Goto, Tell, Close, inputVars, dialVars, outVars
<1>1. PhaseTypes'
  BY DEF Transfer, Reply, WriteRest, Copy, Finish, Break, PhaseTypes, Phases
<1>2. InputTypes'
  BY DEF Transfer, Reply, WriteRest, Copy, Finish, Break, InputTypes
<1>3. DialTypes'
  BY DEF Transfer, Reply, WriteRest, Copy, Finish, Break, PhaseTypes, DialTypes, Phases, Early, Live
<1>4. OutTypes'
  <2>1. CASE Reply(c)
    <3>1. CASE kind[c] = "plain"
      <4>1. <<0>> \in Seq(0..End)
        BY EndType
      <4>2. QED
        BY <2>1, <3>1, <4>1, WireType DEF Reply
    <3>2. CASE kind[c] # "plain"
      BY <2>1, <3>2, ToldType DEF Reply, Replies
    <3>3. QED
      BY <3>1, <3>2
  <2>2. CASE WriteRest(c)
    <3>1. SubSeq(buf[c], 3, Len(buf[c])) \in Seq(1..End)
      <4>1. buf[c] \in Seq(1..End)
        BY DEF InputTypes
      <4>2. QED
        BY <4>1, SubSeqType
    <3>2. wire[c] \o SubSeq(buf[c], 3, Len(buf[c])) \in Seq(0..End)
      BY <3>1, EndType DEF OutTypes
    <3>3. QED
      BY <2>2, <3>2, WireType DEF WriteRest
  <2>3. CASE Copy(c)
    <3>1. Units(taken[c] + 1, sent[c]) \in Seq(1..End)
      BY UnitsType, EndType DEF InputTypes
    <3>2. wire[c] \o Units(taken[c] + 1, sent[c]) \in Seq(0..End)
      BY <3>1, EndType DEF OutTypes
    <3>3. QED
      BY <2>3, <3>2, WireType DEF Copy
  <2>4. CASE Finish(c) \/ Break(c)
    BY <2>4 DEF Finish, Break, OutTypes
  <2>5. QED
    BY <2>1, <2>2, <2>3, <2>4 DEF Transfer
<1>5. QED
  BY <1>1, <1>2, <1>3, <1>4

(* One step of any kind keeps the types. *)
LEMMA TypeNext ==
  ASSUME TypeInv, [Next]_vars
  PROVE  TypeInv'
<1> USE DEF TypeInv, inputVars, dialVars, outVars
<1>1. CASE \E c \in Conns : Send(c)
  BY <1>1, EndType DEF Send, PhaseTypes, InputTypes, DialTypes, OutTypes
<1>2. CASE \E c \in Conns : EndInput(c)
  BY <1>2 DEF EndInput, PhaseTypes, InputTypes, DialTypes, OutTypes
<1>3. CASE AcceptFails \/ TunnelChanges \/ UNCHANGED vars
  BY <1>3 DEF AcceptFails, TunnelChanges, vars, PhaseTypes, InputTypes, DialTypes, OutTypes
<1>4. QED
  BY <1>1, <1>2, <1>3, TypeHandshake, TypeDial, TypeTransfer DEF Next

(* Nothing has been read at the start. *)
LEMMA TypeInit == Init => TypeInv
<1> SUFFICES ASSUME Init PROVE TypeInv
  OBVIOUS
<1>1. PhaseTypes
  BY DEF Init, PhaseTypes, Phases
<1>2. DialTypes
  BY EndType DEF Init, DialTypes
<1>3. InputTypes
  BY EndType DEF Init, InputTypes
<1>4. OutTypes
  BY DEF Init, OutTypes
<1>5. QED
  BY <1>1, <1>2, <1>3, <1>4 DEF TypeInv

(* Every variable of the relay has its type: no read runs past what a      *)
(* client has sent, no dial past its addresses.                            *)
THEOREM TypeCorrect == Spec => []TypeOK
<1>1. TypeInv /\ [Next]_vars => TypeInv'
  BY TypeNext
<1>2. TypeInv => TypeOK
  BY DEF TypeInv, PhaseTypes, InputTypes, DialTypes, OutTypes, Replies, TypeOK
<1>3. QED
  BY <1>1, <1>2, TypeInit, PTL DEF Spec

-----------------------------------------------------------------------------
(* One verdict: what a client has been told depends on where its handler   *)
(* stands and on what it speaks.                                           *)

Opening(c) == IF Socks(c) THEN <<"method">> ELSE <<>>

VerdictInv ==
  /\ phase \in [Conns -> Phases] /\ DOMAIN told = Conns /\ told = [c \in Conns |-> told[c]]
  /\ OneVerdict
  /\ \A c \in Conns :
       /\ phase[c] \in {"none", "first", "head"} => told[c] = <<>>
       /\ phase[c] = "head" => ~Socks(c)
       /\ phase[c] = "request" => Socks(c) /\ told[c] = <<"method">>
       /\ phase[c] \in {"resolve", "dial", "reply"} => told[c] = Opening(c)

(* A second word. *)
LEMMA AppendOne ==
  ASSUME NEW a, NEW m
  PROVE  Append(<<a>>, m) = <<a, m>>
<1> DEFINE s == Append(<<a>>, m)
           t == <<a, m>>
<1>1. <<a>> \in Seq({a, m}) /\ Len(<<a>>) = 1
  OBVIOUS
<1>2. s \in Seq({a, m}) /\ Len(s) = 2 /\ s[1] = a /\ s[2] = m
  BY <1>1
<1>3. t \in Seq({a, m}) /\ Len(t) = 2 /\ t[1] = a /\ t[2] = m
  OBVIOUS
<1> HIDE DEF s, t
<1>4. \A i \in 1..Len(s) : s[i] = t[i]
  BY <1>2, <1>3
<1>5. s = t
  BY <1>2, <1>3, <1>4, SeqEqual
<1>6. QED
  BY <1>5 DEF s, t

Verdicts == {<<>>, <<"method">>, <<"method", "ok">>, <<"method", "refused">>,
             <<"method", "unsupported">>, <<"established">>}

(* What a connection in phase p may have been told. *)
MayHaveTold(c, p, t) ==
  /\ p \in {"none", "first", "head"} => t = <<>>
  /\ p = "head" => ~Socks(c)
  /\ p = "request" => Socks(c) /\ t = <<"method">>
  /\ p \in {"resolve", "dial", "reply"} => t = Opening(c)

Moves(c, p, t) ==
  /\ phase' = [phase EXCEPT ![c] = p] /\ told' = [told EXCEPT ![c] = t]
  /\ UNCHANGED kind

(* What one connection is told moves no other. *)
LEMMA VerdictStep ==
  ASSUME VerdictInv, NEW c \in Conns, NEW p \in Phases, NEW t \in Verdicts, Moves(c, p, t),
         MayHaveTold(c, p, t)
  PROVE  VerdictInv'
<1> USE DEF MayHaveTold, Verdicts
<1>1. p \in {"resolve", "dial"} => t \in {<<>>, <<"method">>}
  BY DEF Opening
<1>2. \A d \in Conns : Opening(d)' = Opening(d) /\ (Socks(d)' <=> Socks(d))
  BY DEF Opening, Socks, Moves
<1>3. /\ told'[c] = t /\ phase'[c] = p
      /\ \A d \in Conns \ {c} : told'[d] = told[d] /\ phase'[d] = phase[d]
  BY DEF VerdictInv, Moves
<1>4. OneVerdict'
  BY <1>1, <1>3 DEF VerdictInv, OneVerdict, At
<1>5. QED
  BY <1>2, <1>3, <1>4 DEF VerdictInv, Moves

(* Where nothing is told only the phase matters. *)
LEMMA Silent ==
  ASSUME VerdictInv, NEW c \in Conns, NEW p \in Phases, UNCHANGED <<kind, told>>,
         phase' = [phase EXCEPT ![c] = p], MayHaveTold(c, p, told[c])
  PROVE  VerdictInv'
<1>1. told[c] \in Verdicts /\ Moves(c, p, told[c])
  BY DEF VerdictInv, OneVerdict, Verdicts, Moves
<1>2. QED
  BY <1>1, VerdictStep

(* Before the dial only the method is told. *)
LEMMA VerdictHandshake ==
  ASSUME VerdictInv, NEW c \in Conns, Accept(c) \/ Handshake(c)
  PROVE  VerdictInv'
<1> USE DEF At, Goto, Tell, Close, Phases, outVars
<1>1. CASE Accept(c)
  BY <1>1, Silent DEF MayHaveTold, Accept, VerdictInv
<1>2. CASE ReadGreeting(c)
  <2>1. told[c] = <<>> /\ Socks(c)
    BY <1>2 DEF ReadGreeting, VerdictInv
  <2>2. Moves(c, "request", <<"method">>)
    BY <1>2, <2>1 DEF ReadGreeting, Moves
  <2>3. <<"method">> \in Verdicts /\ MayHaveTold(c, "request", <<"method">>)
    BY <2>1 DEF Verdicts, MayHaveTold
  <2>4. QED
    BY <2>2, <2>3, VerdictStep
<1>3. CASE ReadRequest(c)
  BY <1>3, Silent DEF MayHaveTold, ReadRequest, Target, VerdictInv, Opening
<1>4. CASE RefuseCommand(c)
  <2>1. told[c] = <<"method">>
    BY <1>4 DEF RefuseCommand, VerdictInv
  <2>2. Moves(c, "closed", <<"method", "unsupported">>)
    BY AppendOne, <1>4, <2>1 DEF RefuseCommand, Moves
  <2>3. <<"method", "unsupported">> \in Verdicts /\ MayHaveTold(c, "closed", <<"method", "unsupported">>)
    BY DEF Verdicts, MayHaveTold
  <2>4. QED
    BY <2>2, <2>3, VerdictStep
<1>5. CASE ReadHead(c)
  <2>1. /\ UNCHANGED <<kind, told>> /\ ~Socks(c) /\ told[c] = <<>>
        /\ \E p \in {"head", "resolve", "dial"} : phase' = [phase EXCEPT ![c] = p]
    BY <1>5 DEF ReadHead, Target, VerdictInv
  <2>2. QED
    BY <2>1, Silent DEF MayHaveTold, Opening
<1>6. CASE EarlyEnd(c)
  BY <1>6, Silent DEF MayHaveTold, EarlyEnd
<1>7. QED
  BY <1>1, <1>2, <1>3, <1>4, <1>5, <1>6 DEF Handshake

(* A dial tells of its failure only, and once: the connection is closed.   *)
LEMMA VerdictDial ==
  ASSUME VerdictInv, NEW c \in Conns, Dial(c)
  PROVE  VerdictInv'
<1> USE DEF At, Goto, Tell, Close, Phases, outVars
<1>0. phase[c] \in {"resolve", "dial"}
  BY DEF Dial, Resolve, Socket, Bind, Connect, DialFails
<1>1. told[c] = Opening(c) /\ phase = [phase EXCEPT ![c] = phase[c]]
  BY <1>0 DEF VerdictInv
<1>2. CASE UNCHANGED <<kind, told, phase>>
  BY <1>0, <1>1, <1>2, Silent DEF MayHaveTold
<1>3. CASE UNCHANGED <<kind, told>> /\ \E p \in {"dial", "reply"} : phase' = [phase EXCEPT ![c] = p]
  BY <1>1, <1>3, Silent DEF MayHaveTold
<1>4. CASE DialFails(c)
  <2>1. CASE Socks(c)
    <3>1. told[c] = <<"method">>
      BY <1>1, <2>1 DEF Opening
    <3>2. Moves(c, "closed", <<"method", "refused">>)
      BY AppendOne, <1>4, <2>1, <3>1 DEF DialFails, Moves
    <3>3. <<"method", "refused">> \in Verdicts /\ MayHaveTold(c, "closed", <<"method", "refused">>)
      BY DEF Verdicts, MayHaveTold
    <3>4. QED
      BY <3>2, <3>3, VerdictStep
  <2>2. CASE ~Socks(c)
    BY <1>4, <2>2, Silent DEF MayHaveTold, DialFails
  <2>3. QED
    BY <2>1, <2>2
<1>5. QED
  BY <1>2, <1>3, <1>4 DEF Dial, Resolve, Socket, Bind, Connect

(* Success is told where the connection stands, and once. *)
LEMMA VerdictTransfer ==
  ASSUME VerdictInv, NEW c \in Conns, Transfer(c)
  PROVE  VerdictInv'
<1> USE DEF At, Goto, Tell, Close, Phases, outVars
<1>1. CASE Reply(c)
  <2>1. CASE kind[c] = "plain"
    BY <1>1, <2>1, Silent DEF MayHaveTold, Reply, Socks
  <2>2. CASE Socks(c)
    <3>1. told[c] = <<"method">>
      BY <1>1, <2>2 DEF Reply, VerdictInv, Opening
    <3>2. Moves(c, "relay", <<"method", "ok">>)
      BY AppendOne, <1>1, <2>2, <3>1 DEF Reply, Moves, Socks
    <3>3. <<"method", "ok">> \in Verdicts /\ MayHaveTold(c, "relay", <<"method", "ok">>)
      BY DEF Verdicts, MayHaveTold
    <3>4. QED
      BY <3>2, <3>3, VerdictStep
  <2>3. CASE kind[c] # "plain" /\ ~Socks(c)
    <3>1. told[c] = <<>>
      BY <1>1, <2>3 DEF Reply, VerdictInv, Opening
    <3>2. Moves(c, "rest", <<"established">>)
      BY <1>1, <2>3, <3>1 DEF Reply, Moves
    <3>3. <<"established">> \in Verdicts /\ MayHaveTold(c, "rest", <<"established">>)
      BY DEF Verdicts, MayHaveTold
    <3>4. QED
      BY <3>2, <3>3, VerdictStep
  <2>4. QED
    BY <2>1, <2>2, <2>3
<1>2. CASE UNCHANGED <<kind, told>>
           /\ \E p \in {"relay", "closed"} : phase' = [phase EXCEPT ![c] = p]
  BY <1>2, Silent DEF MayHaveTold
<1>3. CASE Copy(c)
  <2>1. phase[c] = "relay" /\ phase' = [phase EXCEPT ![c] = "relay"]
    BY <1>3 DEF Copy, VerdictInv
  <2>2. QED
    BY <1>2, <1>3, <2>1 DEF Copy
<1>4. QED
  BY <1>1, <1>2, <1>3 DEF Transfer, WriteRest, Finish, Break

(* A client is given one verdict, and success only over a connection that  *)
(* stands.                                                                 *)
THEOREM OneVerdictHolds == Spec => []OneVerdict
<1>1. Init => VerdictInv
  BY DEF Init, VerdictInv, OneVerdict, Phases, At
<1>2. VerdictInv /\ [Next]_vars => VerdictInv'
  <2> SUFFICES ASSUME VerdictInv, [Next]_vars PROVE VerdictInv'
    OBVIOUS
  <2>1. CASE UNCHANGED <<phase, kind, told>>
    BY <2>1 DEF VerdictInv, OneVerdict, Opening, Socks, At
  <2>2. QED
    BY <2>1, VerdictHandshake, VerdictDial, VerdictTransfer
       DEF Next, Send, EndInput, AcceptFails, TunnelChanges, vars, outVars
<1>3. VerdictInv => OneVerdict
  BY DEF VerdictInv
<1>4. QED
  BY <1>1, <1>2, <1>3, PTL DEF Spec

-----------------------------------------------------------------------------
(* Streams: what upstream has got is the part of a client's stream that    *)
(* has been read, without the handshake.                                   *)

(* The k-th unit of a cut that begins with unit i is unit i + k - 1. *)
Cut(s, i, j) ==
  /\ s \in Seq(Nat)
  /\ Len(s) = IF j < i THEN 0 ELSE j - i + 1
  /\ \A k \in 1..Len(s) : s[k] = i + k - 1

(* Every cut is one. *)
LEMMA UnitsCut ==
  ASSUME NEW i \in Nat, NEW j \in Nat
  PROVE  Cut(Units(i, j), i, j)
<1> DEFINE n == IF j < i THEN 0 ELSE j - i + 1
<1>1. n \in Nat
  OBVIOUS
<1>2. Units(i, j) = [k \in 1..n |-> i + k - 1]
  BY DEF Units
<1>3. \A k \in 1..n : i + k - 1 \in Nat
  BY <1>1
<1> HIDE DEF n
<1>4. Units(i, j) \in Seq(Nat) /\ Len(Units(i, j)) = n
  BY <1>1, <1>2, <1>3
<1>5. QED
  BY <1>2, <1>4 DEF n, Cut

(* Two adjoining cuts make one. *)
LEMMA UnitsConcat ==
  ASSUME NEW i \in Nat, NEW j \in Nat, NEW m \in Nat, i <= j + 1, j <= m
  PROVE  Units(i, j) \o Units(j + 1, m) = Units(i, m)
<1> DEFINE s == Units(i, j)
           t == Units(j + 1, m)
           u == Units(i, m)
<1>1. j + 1 \in Nat
  OBVIOUS
<1>2. Cut(s, i, j) /\ Cut(t, j + 1, m) /\ Cut(u, i, m)
  BY <1>1, UnitsCut
<1> HIDE DEF s, t, u
<1>3. /\ s \in Seq(Nat) /\ Len(s) = j - i + 1
      /\ \A k \in 1..Len(s) : s[k] = i + k - 1
      /\ t \in Seq(Nat) /\ Len(t) = m - j
      /\ \A k \in 1..Len(t) : t[k] = j + k
      /\ u \in Seq(Nat) /\ Len(u) = m - i + 1
      /\ \A k \in 1..Len(u) : u[k] = i + k - 1
  BY <1>2, SMTT(30) DEF Cut
<1>4. /\ s \o t \in Seq(Nat) /\ Len(s \o t) = Len(s) + Len(t)
      /\ \A k \in 1..Len(s) + Len(t) :
           (s \o t)[k] = IF k <= Len(s) THEN s[k] ELSE t[k - Len(s)]
  BY <1>3, ConcatProperties
<1>5. Len(s \o t) = Len(u)
  BY <1>3, <1>4
<1>6. ASSUME NEW k \in 1..Len(s \o t) PROVE (s \o t)[k] = u[k]
  <2>1. k \in 1..Len(s) + Len(t) /\ k \in 1..Len(u)
    BY <1>4, <1>5
  <2>2. CASE k <= Len(s)
    BY <1>3, <1>4, <2>1, <2>2
  <2>3. CASE k > Len(s)
    <3>1. k - Len(s) \in 1..Len(t)
      BY <1>3, <2>1, <2>3
    <3>2. t[k - Len(s)] = j + (k - Len(s))
      BY <1>3, <3>1
    <3>3. (s \o t)[k] = t[k - Len(s)]
      <4>1. ~(k <= Len(s))
        BY <1>3, <2>1, <2>3
      <4>2. QED
        BY <1>4, <2>1, <4>1
    <3>4. u[k] = i + k - 1
      BY <1>3, <2>1
    <3>5. QED
      BY <1>3, <2>1, <3>2, <3>3, <3>4
  <2>4. QED
    BY <1>3, <2>2, <2>3, SMTT(30)
<1>7. s \o t = u
  BY <1>3, <1>4, <1>5, <1>6, SeqEqual
<1>8. QED
  BY <1>7 DEF s, t, u

(* What follows the two units of a head. *)
LEMMA UnitsRest ==
  ASSUME NEW j \in Nat
  PROVE  SubSeq(Units(1, j), 3, Len(Units(1, j))) = Units(3, j)
<1> DEFINE s == Units(1, j)
           u == Units(3, j)
           r == SubSeq(s, 3, Len(s))
<1>1. Cut(s, 1, j) /\ Cut(u, 3, j)
  BY UnitsCut
<1> HIDE DEF s, u
<1>2. /\ s \in Seq(Nat) /\ Len(s) = j
      /\ \A k \in 1..Len(s) : s[k] = k
      /\ u \in Seq(Nat) /\ Len(u) = IF j < 3 THEN 0 ELSE j - 2
      /\ \A k \in 1..Len(u) : u[k] = k + 2
  BY <1>1 DEF Cut
<1>3. \A k \in 3..j : s[k] \in Nat
  BY <1>2
<1>4. /\ r \in Seq(Nat) /\ Len(r) = IF 3 <= j THEN j - 3 + 1 ELSE 0
      /\ \A k \in 1..(j - 3 + 1) : r[k] = s[3 + k - 1]
  BY <1>2, <1>3, SubSeqProperties
<1> HIDE DEF r
<1>5. Len(r) = Len(u)
  BY <1>2, <1>4
<1>6. \A k \in 1..Len(r) : r[k] = u[k]
  BY <1>2, <1>4
<1>7. r = u
  BY <1>2, <1>4, <1>5, <1>6, SeqEqual
<1>8. QED
  BY <1>7 DEF r, s, u

(* More input extends what is expected. *)
LEMMA ExpectedGrows ==
  ASSUME NEW k, NEW m \in Nat, NEW n \in Nat, 2 <= m, m <= n
  PROVE  /\ Expected(k, m) \in Seq(Nat)
         /\ Expected(k, n) = Expected(k, m) \o Units(m + 1, n)
<1> DEFINE h == IF k = "plain" THEN <<0>> ELSE <<>>
           a == Units(3, m)
           b == Units(m + 1, n)
<1>1. h \in Seq(Nat)
  OBVIOUS
<1>2. m + 1 \in Nat /\ 3 \in Nat /\ 3 <= m + 1
  OBVIOUS
<1>3. a \in Seq(Nat) /\ b \in Seq(Nat)
  <2>1. Cut(a, 3, m) /\ Cut(b, m + 1, n)
    BY <1>2, UnitsCut
  <2>2. QED
    BY <2>1 DEF Cut
<1>4. Units(3, n) = a \o b
  BY <1>2, UnitsConcat
<1> HIDE DEF h, a, b
<1>5. h \o a \in Seq(Nat) /\ (h \o a) \o b = h \o (a \o b)
  BY <1>1, <1>3, ConcatProperties, ConcatAssociative, SMTT(30)
<1>6. QED
  BY <1>4, <1>5 DEF Expected, h, a, b

(* What is expected is a sequence of units. *)
LEMMA ExpectedType ==
  ASSUME NEW k, NEW n \in Nat
  PROVE  Expected(k, n) \in Seq(Nat)
<1> DEFINE h == IF k = "plain" THEN <<0>> ELSE <<>>
           a == Units(3, n)
<1>1. h \in Seq(Nat) /\ 3 \in Nat
  OBVIOUS
<1>2. a \in Seq(Nat)
  BY <1>1, UnitsCut DEF Cut
<1> HIDE DEF h, a
<1>3. h \o a \in Seq(Nat)
  BY <1>1, <1>2, ConcatProperties
<1>4. QED
  BY <1>3 DEF Expected, h, a

(* Before the payload only the head is expected. *)
LEMMA ExpectedHead ==
  ASSUME NEW k
  PROVE  Expected(k, 2) = IF k = "plain" THEN <<0>> ELSE <<>>
<1> DEFINE h == IF k = "plain" THEN <<0>> ELSE <<>>
<1>1. h \in Seq(Nat)
  OBVIOUS
<1>2. Units(3, 2) = <<>>
  BY DEF Units
<1> HIDE DEF h
<1>3. h \o <<>> = h
  BY <1>1, ConcatEmptySeq
<1>4. QED
  BY <1>2, <1>3 DEF Expected, h

(* A sequence is a prefix of its extensions. *)
LEMMA PrefixConcat ==
  ASSUME NEW s \in Seq(Nat), NEW t \in Seq(Nat)
  PROVE  IsPrefix(s, s \o t)
<1>1. /\ s \o t \in Seq(Nat) /\ Len(s \o t) = Len(s) + Len(t)
      /\ \A i \in 1..Len(s) + Len(t) : (s \o t)[i] = IF i <= Len(s) THEN s[i] ELSE t[i - Len(s)]
  BY ConcatProperties
<1>2. Len(s) \in Nat /\ Len(t) \in Nat
  OBVIOUS
<1>3. s \in [1..Len(s) -> Nat]
  BY LenProperties
<1> DEFINE a == SubSeq(s, 1, Len(s))
           b == SubSeq(s \o t, 1, Len(s))
<1>4. \A i \in 1..Len(s) : (s \o t)[i] = s[i] /\ (s \o t)[i] \in Nat /\ s[i] \in Nat
  BY <1>1, <1>2, <1>3
<1>5. /\ a \in Seq(Nat) /\ Len(a) = Len(s)
      /\ \A i \in 1..Len(s) : a[i] = s[i]
  BY <1>2, <1>4, SubSeqProperties
<1>6. /\ b \in Seq(Nat) /\ Len(b) = Len(s)
      /\ \A i \in 1..Len(s) : b[i] = (s \o t)[i]
  BY <1>2, <1>4, SubSeqProperties
<1> HIDE DEF a, b
<1>7. a = b
  BY <1>4, <1>5, <1>6, SeqEqual
<1>8. QED
  BY <1>1, <1>2, <1>7 DEF IsPrefix, a, b

(* What a connection of kind k in phase p has read (t of n units sent, b   *)
(* in the head buffer) and written (w).                                    *)
Fits(k, p, t, n, b, w) ==
  /\ t <= n
  /\ p \in {"none", "first"} => t = 0
  /\ p = "request" => t = 1
  /\ p \in {"resolve", "dial", "reply", "rest", "relay"} => t >= 2
  /\ k \in {"socks", "bind"} /\ p \in {"resolve", "dial", "reply"} => t = 2
  /\ k \notin {"socks", "bind"} /\ p \in Early \cup {"dial", "reply", "rest"} => b = Units(1, t)
  /\ p \in Early \cup {"dial", "reply"} => w = <<>>
  /\ p = "rest" => k \notin {"socks", "bind"} /\ w = Expected(k, 2)
  /\ p = "relay" => w = Expected(k, t)
  /\ w = <<>> \/ \E m \in 2..n : w = Expected(k, m)

StreamOK(c) == Fits(kind[c], phase[c], taken[c], sent[c], buf[c], wire[c])
StreamInv == TypeInv /\ \A c \in Conns : StreamOK(c)

(* A step of one connection that leaves it fitting keeps the invariant.    *)
Same(d) ==
  /\ phase'[d] = phase[d] /\ kind'[d] = kind[d] /\ taken'[d] = taken[d]
  /\ sent'[d] = sent[d] /\ buf'[d] = buf[d] /\ wire'[d] = wire[d]

LEMMA StreamStep ==
  ASSUME StreamInv, [Next]_vars, NEW c \in Conns, \A d \in Conns \ {c} : Same(d),
         Fits(kind'[c], phase'[c], taken'[c], sent'[c], buf'[c], wire'[c])
  PROVE  StreamInv'
<1>1. TypeInv'
  BY TypeNext DEF StreamInv
<1>2. ASSUME NEW d \in Conns PROVE StreamOK(d)'
  <2>1. CASE d = c
    BY <2>1 DEF StreamOK
  <2>2. CASE d # c
    BY <2>2 DEF StreamInv, StreamOK, Same
  <2>3. QED
    BY <2>1, <2>2
<1>3. QED
  BY <1>1, <1>2 DEF StreamInv

(* The shapes of the state, for what follows. *)
Arrays ==
  /\ phase \in [Conns -> Phases] /\ kind \in [Conns -> Kinds]
  /\ sent \in [Conns -> 0..End] /\ taken \in [Conns -> 0..End]
  /\ buf \in [Conns -> Seq(1..End)] /\ wire \in [Conns -> Seq(0..End)]

(* The invariant contains them. *)
LEMMA StreamArrays == StreamInv => Arrays /\ End \in Nat
BY EndType DEF StreamInv, TypeInv, PhaseTypes, InputTypes, OutTypes, Arrays

(* The handshake takes two units and keeps what came with them. *)
LEMMA StreamHandshake ==
  ASSUME StreamInv, [Next]_vars, NEW c \in Conns, Accept(c) \/ Handshake(c)
  PROVE  StreamInv'
<1> USE DEF Arrays, At, Goto, Tell, Close, inputVars, dialVars, outVars
<1>1. Arrays /\ End \in Nat /\ Fits(kind[c], phase[c], taken[c], sent[c], buf[c], wire[c])
  BY StreamArrays DEF StreamInv, StreamOK
<1>2. \A d \in Conns \ {c} : Same(d)
  BY <1>1
     DEF Same, Accept, Handshake, ReadGreeting, ReadRequest, RefuseCommand, ReadHead, EarlyEnd,
         Target
<1>3. UNCHANGED <<kind, sent, wire>>
  BY DEF Accept, Handshake, ReadGreeting, ReadRequest, RefuseCommand, ReadHead, EarlyEnd
<1>4. Fits(kind[c], phase'[c], taken'[c], sent[c], buf'[c], wire[c])
  <2>1. CASE Accept(c)
    BY <1>1, <2>1 DEF Accept, Fits, Early
  <2>2. CASE ReadGreeting(c)
    BY <1>1, <2>2 DEF ReadGreeting, Fits, Early, Socks, Unread
  <2>3. CASE ReadRequest(c)
    <3>1. taken'[c] = 2 /\ buf'[c] = buf[c] /\ phase'[c] \in {"resolve", "dial"}
      BY <1>1, <2>3 DEF ReadRequest, Target
    <3>2. kind[c] = "socks" /\ phase[c] = "request" /\ 2 <= sent[c]
      BY <1>1, <2>3 DEF ReadRequest, Unread, Fits
    <3>3. QED
      BY <1>1, <3>1, <3>2 DEF Fits, Early
  <2>4. CASE RefuseCommand(c)
    BY <1>1, <2>4 DEF RefuseCommand, Fits, Early, Unread
  <2>5. CASE EarlyEnd(c)
    BY <1>1, <2>5 DEF EarlyEnd, Fits, Early
  <2>6. CASE ReadHead(c)
    <3>1. PICK n \in (taken[c] + 1)..sent[c] :
            /\ taken'[c] = n /\ buf'[c] = buf[c] \o Units(taken[c] + 1, n)
            /\ IF n < 2 THEN phase'[c] = "head" ELSE phase'[c] \in {"resolve", "dial"}
      BY <1>1, <2>6 DEF ReadHead, Target
    <3>2. /\ taken[c] \in Nat /\ sent[c] \in Nat /\ n \in Nat
          /\ taken[c] <= n /\ n <= sent[c] /\ 1 <= taken[c] + 1 /\ 1 \in Nat
      BY <1>1, <3>1
    <3>3. buf[c] = Units(1, taken[c]) /\ wire[c] = <<>> /\ kind[c] \notin {"socks", "bind"}
      BY <1>1, <2>6 DEF ReadHead, Fits, Early, Socks
    <3>4. buf'[c] = Units(1, n)
      <4>1. Units(1, taken[c]) \o Units(taken[c] + 1, n) = Units(1, n)
        BY <3>2, UnitsConcat
      <4>2. QED
        BY <3>1, <3>3, <4>1
    <3>5. QED
      BY <3>1, <3>2, <3>3, <3>4 DEF Fits, Early
  <2>7. QED
    BY <2>1, <2>2, <2>3, <2>4, <2>5, <2>6 DEF Handshake
<1>5. QED
  BY <1>2, <1>3, <1>4, StreamStep

(* A dial touches neither. *)
LEMMA StreamDial ==
  ASSUME StreamInv, [Next]_vars, NEW c \in Conns, Dial(c)
  PROVE  StreamInv'
<1> USE DEF Arrays, At, Goto, Tell, Close, inputVars, dialVars, outVars
<1>1. Arrays /\ Fits(kind[c], phase[c], taken[c], sent[c], buf[c], wire[c])
  BY StreamArrays DEF StreamInv, StreamOK
<1>2. /\ phase[c] \in {"resolve", "dial"} /\ UNCHANGED <<kind, taken, sent, buf, wire>>
      /\ \E p \in {"dial", "reply", "closed"} : phase' = [phase EXCEPT ![c] = p]
  <2>1. CASE Resolve(c)
    BY <2>1 DEF Resolve
  <2>2. CASE Socket(c) \/ Bind(c) \/ Connect(c) \/ DialFails(c)
    BY <1>1, <2>2 DEF Socket, Bind, Connect, DialFails
  <2>3. QED
    BY <2>1, <2>2 DEF Dial
<1>3. \A d \in Conns \ {c} : Same(d)
  BY <1>1, <1>2 DEF Same
<1>4. Fits(kind[c], phase'[c], taken[c], sent[c], buf[c], wire[c])
  BY <1>1, <1>2 DEF Fits, Early
<1>5. QED
  BY <1>2, <1>3, <1>4, StreamStep

(* The transfer writes the head, what came with it, and then what it reads. *)
LEMMA StreamTransfer ==
  ASSUME StreamInv, [Next]_vars, NEW c \in Conns, Transfer(c)
  PROVE  StreamInv'
<1> USE DEF Arrays, At, Goto, Tell, Close, inputVars, dialVars, outVars
<1>1. Arrays /\ End \in Nat /\ Fits(kind[c], phase[c], taken[c], sent[c], buf[c], wire[c])
  BY StreamArrays DEF StreamInv, StreamOK
<1>2. \A d \in Conns \ {c} : Same(d)
  BY <1>1 DEF Same, Transfer, Reply, WriteRest, Copy, Finish, Break
<1>3. UNCHANGED <<kind, sent, buf>> /\ taken[c] \in Nat /\ sent[c] \in Nat
  BY <1>1 DEF Transfer, Reply, WriteRest, Copy, Finish, Break
<1>4. Fits(kind[c], phase'[c], taken'[c], sent[c], buf[c], wire'[c])
  <2>1. CASE Reply(c)
    <3>1. /\ phase[c] = "reply" /\ UNCHANGED taken
          /\ phase'[c] = IF Socks(c) THEN "relay" ELSE "rest"
          /\ wire'[c] = IF kind[c] = "plain" THEN <<0>> ELSE wire[c]
      BY <1>1, <2>1 DEF Reply
    <3>2. wire'[c] = Expected(kind[c], 2)
      BY <1>1, <3>1, ExpectedHead DEF Fits
    <3>3. QED
      BY <1>1, <1>3, <3>1, <3>2 DEF Fits, Early, Socks
  <2>2. CASE WriteRest(c)
    <3>1. /\ phase[c] = "rest" /\ UNCHANGED taken /\ phase'[c] = "relay"
          /\ wire'[c] = wire[c] \o SubSeq(buf[c], 3, Len(buf[c]))
      BY <1>1, <2>2 DEF WriteRest
    <3>2. /\ wire[c] = Expected(kind[c], 2) /\ buf[c] = Units(1, taken[c])
          /\ 2 <= taken[c] /\ taken[c] <= sent[c]
      BY <1>1, <1>3, <3>1 DEF Fits
    <3>3. wire'[c] = Expected(kind[c], 2) \o Units(3, taken[c])
      BY <1>3, <3>1, <3>2, UnitsRest
    <3>4. Expected(kind[c], taken[c]) = Expected(kind[c], 2) \o Units(2 + 1, taken[c])
      <4>1. 2 \in Nat /\ 2 <= 2
        OBVIOUS
      <4>2. QED
        BY <1>3, <3>2, <4>1, ExpectedGrows
    <3>5. wire'[c] = Expected(kind[c], taken[c])
      BY <3>3, <3>4
    <3>6. taken[c] \in 2..sent[c]
      BY <1>3, <3>2
    <3>7. \E m \in 2..sent[c] : wire'[c] = Expected(kind[c], m)
      BY <3>5, <3>6
    <3>8. QED
      BY <3>1, <3>2, <3>5, <3>7 DEF Fits, Early
  <2>3. CASE Copy(c)
    <3>1. /\ phase[c] = "relay" /\ UNCHANGED phase /\ taken'[c] = sent[c]
          /\ wire'[c] = wire[c] \o Units(taken[c] + 1, sent[c])
      BY <1>1, <2>3 DEF Copy
    <3>2. wire[c] = Expected(kind[c], taken[c]) /\ 2 <= taken[c] /\ taken[c] <= sent[c]
      BY <1>1, <1>3, <3>1 DEF Fits
    <3>3. wire'[c] = Expected(kind[c], sent[c])
      BY <1>3, <3>1, <3>2, ExpectedGrows
    <3>4. sent[c] \in 2..sent[c] /\ 2 <= sent[c] /\ sent[c] <= sent[c]
      BY <1>3, <3>2
    <3>5. \E m \in 2..sent[c] : wire'[c] = Expected(kind[c], m)
      BY <3>3, <3>4
    <3>6. QED
      BY <3>1, <3>3, <3>4, <3>5 DEF Fits, Early
  <2>4. CASE Finish(c) \/ Break(c)
    <3>1. phase'[c] = "closed" /\ UNCHANGED <<taken, wire>>
      BY <1>1, <2>4 DEF Finish, Break
    <3>2. QED
      BY <1>1, <3>1 DEF Fits, Early
  <2>5. QED
    BY <2>1, <2>2, <2>3, <2>4 DEF Transfer
<1>5. QED
  BY <1>2, <1>3, <1>4, StreamStep

(* A client that sends more takes nothing back. *)
LEMMA StreamSend ==
  ASSUME StreamInv, [Next]_vars, NEW c \in Conns, Send(c)
  PROVE  StreamInv'
<1>1. Arrays /\ End \in Nat /\ Fits(kind[c], phase[c], taken[c], sent[c], buf[c], wire[c])
  BY StreamArrays DEF StreamInv, StreamOK
<1>2. /\ UNCHANGED <<phase, kind, taken, buf, wire>> /\ sent' = [sent EXCEPT ![c] = @ + 1]
      /\ sent[c] \in Nat /\ taken[c] \in Nat
  BY <1>1 DEF Send, outVars, Arrays
<1>3. \A d \in Conns \ {c} : Same(d)
  BY <1>1, <1>2 DEF Same, Arrays
<1>4. sent'[c] = sent[c] + 1
  BY <1>1, <1>2 DEF Arrays
<1>5. Fits(kind[c], phase[c], taken[c], sent[c] + 1, buf[c], wire[c])
  BY <1>1, <1>2 DEF Fits
<1>6. QED
  BY <1>2, <1>3, <1>4, <1>5, StreamStep

(* Upstream gets the payload in order, once and without the handshake,     *)
(* however the input was cut into reads.                                   *)
THEOREM StreamIntactHolds == Spec => []StreamIntact
<1>1. Init => StreamInv
  <2> SUFFICES ASSUME Init PROVE StreamInv
    OBVIOUS
  <2>1. Units(1, 0) = <<>>
    BY DEF Units
  <2>2. ASSUME NEW c \in Conns PROVE StreamOK(c)
    BY <2>1 DEF Init, StreamOK, Fits
  <2>3. QED
    BY <2>2, TypeInit DEF StreamInv
<1>2. StreamInv /\ [Next]_vars => StreamInv'
  <2> SUFFICES ASSUME StreamInv, [Next]_vars PROVE StreamInv'
    OBVIOUS
  <2>1. CASE UNCHANGED <<phase, kind, taken, sent, buf, wire>>
    BY <2>1, TypeNext DEF StreamInv, StreamOK
  <2>2. QED
    BY <2>1, StreamHandshake, StreamDial, StreamTransfer, StreamSend
       DEF Next, EndInput, AcceptFails, TunnelChanges, vars, inputVars, outVars
<1>3. StreamInv => StreamIntact
  <2> SUFFICES ASSUME StreamInv, NEW c \in Conns
               PROVE  /\ IsPrefix(wire[c], Expected(kind[c], sent[c]))
                      /\ At(c, "relay") => wire[c] = Expected(kind[c], taken[c])
    BY DEF StreamIntact
  <2>1. Fits(kind[c], phase[c], taken[c], sent[c], buf[c], wire[c]) /\ sent[c] \in Nat
    BY StreamArrays DEF StreamInv, StreamOK, Arrays
  <2>2. CASE wire[c] = <<>>
    <3>1. Expected(kind[c], sent[c]) \in Seq(Nat)
      BY <2>1, ExpectedType
    <3>2. <<>> \o Expected(kind[c], sent[c]) = Expected(kind[c], sent[c])
      BY <3>1, ConcatEmptySeq
    <3>3. <<>> \in Seq(Nat)
      OBVIOUS
    <3>4. IsPrefix(<<>>, <<>> \o Expected(kind[c], sent[c]))
      BY <3>1, <3>3, PrefixConcat
    <3>5. QED
      BY <2>1, <2>2, <3>2, <3>4 DEF Fits, At
  <2>3. ASSUME NEW m \in 2..sent[c], wire[c] = Expected(kind[c], m)
        PROVE  IsPrefix(wire[c], Expected(kind[c], sent[c]))
    <3>1. m \in Nat /\ m + 1 \in Nat /\ 2 <= m /\ m <= sent[c]
      BY <2>1, <2>3
    <3>2. /\ Expected(kind[c], m) \in Seq(Nat)
          /\ Expected(kind[c], sent[c]) = Expected(kind[c], m) \o Units(m + 1, sent[c])
      BY <2>1, <3>1, ExpectedGrows
    <3>3. Units(m + 1, sent[c]) \in Seq(Nat)
      BY <2>1, <3>1, UnitsCut DEF Cut
    <3>4. QED
      BY <2>3, <3>2, <3>3, PrefixConcat
  <2>4. QED
    BY <2>1, <2>2, <2>3 DEF Fits, At
<1>4. QED
  BY <1>1, <1>2, <1>3, PTL DEF Spec
=============================================================================
