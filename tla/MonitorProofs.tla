----------------------------- MODULE MonitorProofs -----------------------------
(***************************************************************************)
(* The call monitor (monitor.rs, pending.rs), for any clients, TTL and     *)
(* capacity. Three arguments, each with an invariant of its own.           *)
(*                                                                         *)
(* MInv, only authorised calls are reported, and each once: the table is   *)
(* keyed by serial, so what a reply takes out of it is the call it         *)
(* answers; and a call has one reply, which says what UDisks2 did, and is  *)
(* read before its report begins. That no two calls have one serial is an  *)
(* assumption: without it TLC finds the property violated (monitor_serial).*)
(*                                                                         *)
(* FInv, where a call is: unread, parked, being reported, reported or lost,*)
(* and never two of these. The table stays within its bound, and what is   *)
(* evicted is the oldest.                                                  *)
(*                                                                         *)
(* GInv, what is declared follows /etc/fstab: at a mount point where no    *)
(* success is unread, the report under way leads to what /etc/fstab has,   *)
(* or it is declared already; where one is, the last of them leads there,  *)
(* for an authorised call leaves in /etc/fstab what its own library calls  *)
(* declare.                                                                *)
(***************************************************************************)
EXTENDS Monitor, OrderedProofs, FiniteSetTheorems, TLAPS

DistinctSerials == \A b, c \in Calls : Serial[b] = Serial[c] => b = c

Messages == [type : {"call", "return", "error"}, call : Calls]

Types ==
  /\ answer \in [Calls -> {"unsent", "awaited", "authorised", "refused"}]
  /\ stream \in Seq(Messages)
  /\ report = None \/ \E c \in Calls : \E left : report = [call |-> c, left |-> left]

\* The call's success is still to be read.
UnreadReturn(c) == \E i \in 1 .. Len(stream) : stream[i].type = "return" /\ stream[i].call = c

\* A reply in the stream is the only one of its call, and true.
RepliesAreTrue ==
  /\ \A c \in Calls : UnreadReturn(c) => answer[c] = "authorised"
  /\ \A i, j \in 1 .. Len(stream) :
       stream[i].type = "return" /\ stream[j].type = "return" /\ stream[i].call = stream[j].call => i = j

\* A call is parked under its serial.
ParkedBySerial ==
  \A s \in DOMAIN pending : pending[s].call \in Calls /\ Serial[pending[s].call] = s

\* The calls that are, or have been, reported.
Taken(c) == c \in reported \/ (report # None /\ report.call = c)

TakenWasRead == \A c \in Calls : Taken(c) => answer[c] = "authorised" /\ ~UnreadReturn(c)

MInv ==
  /\ Types
  /\ RepliesAreTrue
  /\ ParkedBySerial
  /\ TakenWasRead
  /\ OnlyAuthorisedIsReported

--------------------------------------------------------------------------------
(* The stream *)

\* A message that is read leaves the others.
LEMMA ReadTakesFirst ==
  ASSUME MInv, NEW type, Read(type)
  PROVE  /\ Head(stream) \in Messages /\ Head(stream).type = type /\ Head(stream).call \in Calls
         /\ stream' \in Seq(Messages)
         /\ \A c \in Calls : UnreadReturn(c)' => UnreadReturn(c)
         /\ \A i, j \in 1 .. Len(stream') :
              stream'[i].type = "return" /\ stream'[j].type = "return"
                /\ stream'[i].call = stream'[j].call => i = j
         /\ type = "return" =>
              \A c \in Calls : c = Head(stream).call => UnreadReturn(c) /\ ~UnreadReturn(c)'
<1>1. /\ stream \in Seq(Messages) /\ stream # <<>> /\ stream' = Tail(stream) /\ Head(stream).type = type
  BY DEF MInv, Types, Read
<1>2. /\ Head(stream) = stream[1] /\ Head(stream) \in Messages
      /\ Len(stream) \in Nat \ {0} /\ stream' \in Seq(Messages) /\ Len(stream') = Len(stream) - 1
      /\ \A i \in 1 .. Len(stream') : stream'[i] = stream[i + 1]
  BY <1>1
<1>3. Head(stream).call \in Calls
  BY <1>2 DEF Messages
<1>4. ASSUME NEW c \in Calls, UnreadReturn(c)'
      PROVE  \E i \in 1 .. Len(stream) : i # 1 /\ stream[i].type = "return" /\ stream[i].call = c
  <2>1. PICK i \in 1 .. Len(stream') : stream'[i].type = "return" /\ stream'[i].call = c
    BY <1>4 DEF UnreadReturn
  <2>2. i + 1 \in 1 .. Len(stream) /\ i + 1 # 1 /\ stream[i + 1] = stream'[i]
    BY <1>2, <2>1
  <2> QED
    BY <2>1, <2>2
<1>5. ASSUME NEW i \in 1 .. Len(stream'), NEW j \in 1 .. Len(stream'),
             stream'[i].type = "return", stream'[j].type = "return", stream'[i].call = stream'[j].call
      PROVE  i = j
  <2>1. /\ i + 1 \in 1 .. Len(stream) /\ stream[i + 1] = stream'[i]
        /\ j + 1 \in 1 .. Len(stream) /\ stream[j + 1] = stream'[j]
    BY <1>2
  <2>2. i + 1 = j + 1
    BY <1>5, <2>1 DEF MInv, RepliesAreTrue
  <2> QED
    BY <2>2
<1>6. ASSUME type = "return", NEW c \in Calls, c = Head(stream).call
      PROVE  UnreadReturn(c) /\ ~UnreadReturn(c)'
  <2>1. 1 \in 1 .. Len(stream) /\ stream[1].type = "return" /\ stream[1].call = c
    BY <1>1, <1>2, <1>6
  <2>2. UnreadReturn(c)
    BY <2>1 DEF UnreadReturn
  <2>3. ASSUME UnreadReturn(c)' PROVE FALSE
    <3>1. PICK i \in 1 .. Len(stream) : i # 1 /\ stream[i].type = "return" /\ stream[i].call = c
      BY <1>4, <2>3
    <3> QED
      BY <2>1, <3>1 DEF MInv, RepliesAreTrue
  <2> QED
    BY <2>2, <2>3
<1>7. \A c \in Calls : UnreadReturn(c)' => UnreadReturn(c)
  BY <1>4 DEF UnreadReturn
<1> QED
  BY <1>1, <1>2, <1>3, <1>5, <1>6, <1>7

\* A message that is emitted joins them.
LEMMA EmittedLast ==
  ASSUME MInv, NEW m \in Messages, stream' = Append(stream, m)
  PROVE  /\ stream' \in Seq(Messages)
         /\ \A c \in Calls : UnreadReturn(c)' <=> UnreadReturn(c) \/ (m.type = "return" /\ m.call = c)
         /\ (m.type = "return" => ~UnreadReturn(m.call))
            => \A i, j \in 1 .. Len(stream') :
                 stream'[i].type = "return" /\ stream'[j].type = "return"
                   /\ stream'[i].call = stream'[j].call => i = j
<1>1. /\ Len(stream) \in Nat /\ stream' \in Seq(Messages) /\ Len(stream') = Len(stream) + 1
      /\ stream'[Len(stream) + 1] = m
      /\ \A i \in 1 .. Len(stream) : stream'[i] = stream[i]
  BY DEF MInv, Types
<1>2. ASSUME NEW c \in Calls
      PROVE  UnreadReturn(c)' <=> UnreadReturn(c) \/ (m.type = "return" /\ m.call = c)
  BY <1>1 DEF UnreadReturn
<1>3. ASSUME m.type = "return" => ~UnreadReturn(m.call),
             NEW i \in 1 .. Len(stream'), NEW j \in 1 .. Len(stream'),
             stream'[i].type = "return", stream'[j].type = "return", stream'[i].call = stream'[j].call
      PROVE  i = j
  BY <1>1, <1>3 DEF MInv, RepliesAreTrue, UnreadReturn
<1> QED
  BY <1>1, <1>2, <1>3

--------------------------------------------------------------------------------
(* The steps *)

LEMMA InitMInv == Init => MInv
BY DEF Init, MInv, Types, RepliesAreTrue, ParkedBySerial, TakenWasRead, Taken, UnreadReturn,
       OnlyAuthorisedIsReported

\* A message of a call, with what UDisks2 has made of it.
LEMMA EmitKeepsInv ==
  ASSUME MInv, NEW c \in Calls, NEW type \in {"call", "return", "error"},
         NEW to \in {"awaited", "authorised", "refused"},
         answer[c] \in {"unsent", "awaited"}, answer' = [answer EXCEPT ![c] = to],
         type = "return" => to = "authorised",
         stream' = Append(stream, [type |-> type, call |-> c]),
         UNCHANGED <<pending, report, reported>>
  PROVE  MInv'
<1> DEFINE m == [type |-> type, call |-> c]
<1>1. m \in Messages /\ m.type = type /\ m.call = c /\ ~UnreadReturn(c) /\ ~Taken(c)
  BY DEF MInv, Messages, RepliesAreTrue, TakenWasRead
<1> HIDE DEF m
<1>2. stream' = Append(stream, m)
  BY DEF m
<1>3. /\ stream' \in Seq(Messages)
      /\ \A b \in Calls : UnreadReturn(b)' <=> UnreadReturn(b) \/ (type = "return" /\ b = c)
      /\ \A i, j \in 1 .. Len(stream') :
           stream'[i].type = "return" /\ stream'[j].type = "return"
             /\ stream'[i].call = stream'[j].call => i = j
  BY <1>1, <1>2, EmittedLast
<1>4. /\ answer' \in [Calls -> {"unsent", "awaited", "authorised", "refused"}]
      /\ answer'[c] = to /\ \A b \in Calls \ {c} : answer'[b] = answer[b]
  BY DEF MInv, Types
<1>5. Types'
  BY <1>3, <1>4 DEF MInv, Types
<1>6. RepliesAreTrue'
  BY <1>1, <1>3, <1>4 DEF MInv, RepliesAreTrue
<1>7. ParkedBySerial'
  BY DEF MInv, ParkedBySerial
<1>8. TakenWasRead'
  BY <1>1, <1>3, <1>4 DEF MInv, TakenWasRead, Taken
<1>9. OnlyAuthorisedIsReported'
  BY <1>1, <1>4 DEF MInv, Types, OnlyAuthorisedIsReported, Taken
<1> QED
  BY <1>5, <1>6, <1>7, <1>8, <1>9 DEF MInv

\* A message is read and nothing is reported.
LEMMA ReadKeepsInv ==
  ASSUME MInv, NEW type, Read(type), ParkedBySerial', UNCHANGED report \/ report' = None, UNCHANGED reported
  PROVE  MInv'
<1>1. report = None /\ report' = None /\ UNCHANGED answer
  BY DEF Read, udisks
<1>2. Types' /\ RepliesAreTrue'
  BY <1>1, ReadTakesFirst DEF MInv, Types, RepliesAreTrue
<1>3. TakenWasRead' /\ OnlyAuthorisedIsReported'
  BY <1>1, ReadTakesFirst DEF MInv, TakenWasRead, Taken, OnlyAuthorisedIsReported
<1> QED
  BY <1>2, <1>3 DEF MInv

\* What is left of the table is parked where it was.
LEMMA TakeLeavesParked ==
  ASSUME MInv, NEW type, Take(type) PROVE ParkedBySerial'
BY DEF MInv, ParkedBySerial, Take

LEMMA ParkKeepsInv == ASSUME MInv, Park PROVE MInv'
<1> DEFINE c == Head(stream).call
           parked == [call |-> c, path |-> request[c].path, intent |-> IntentOf(request[c]), at |-> clock]
<1>1. Read("call") /\ UNCHANGED <<report, reported>>
  BY DEF Park
<1>2. PICK keep \in SUBSET DOMAIN pending :
        pending' = [s \in keep \cup {Serial[c]} |-> IF s = Serial[c] THEN parked ELSE pending[s]]
  BY DEF Park
<1>3. c \in Calls /\ parked.call = c
  BY <1>1, ReadTakesFirst
<1> HIDE DEF c, parked
<1>4. ParkedBySerial'
  BY <1>2, <1>3 DEF MInv, ParkedBySerial
<1> QED
  BY <1>1, <1>4, ReadKeepsInv

\* The reply of a call: what it takes out of the table is that call.
LEMMA AuthorisedKeepsInv == ASSUME DistinctSerials, MInv, Authorised PROVE MInv'
<1> DEFINE parked == pending[Serial[Head(stream).call]]
<1>1. /\ Read("return") /\ ParkedBySerial' /\ UNCHANGED reported
      /\ report' = IF Parked THEN ReportOf(parked) ELSE None
  BY TakeLeavesParked DEF Authorised, Take
<1>2. PICK c \in Calls : c = Head(stream).call
  BY <1>1, ReadTakesFirst
<1>3. /\ UnreadReturn(c) /\ ~UnreadReturn(c)'
      /\ stream' \in Seq(Messages)
      /\ \A b \in Calls : UnreadReturn(b)' => UnreadReturn(b)
      /\ \A i, j \in 1 .. Len(stream') :
           stream'[i].type = "return" /\ stream'[j].type = "return"
             /\ stream'[i].call = stream'[j].call => i = j
  BY <1>1, <1>2, ReadTakesFirst
<1>4. report = None /\ UNCHANGED answer
  BY <1>1 DEF Read, udisks
<1>5. answer[c] = "authorised" /\ c \notin reported
  BY <1>3 DEF MInv, RepliesAreTrue, TakenWasRead, Taken
<1>6. CASE ~Parked
  BY <1>1, <1>6, ReadKeepsInv
<1>7. CASE Parked
  <2>1. parked.call = c
    BY <1>2, <1>7 DEF DistinctSerials, MInv, ParkedBySerial, Parked
  <2>2. report' = [call |-> c, left |-> ReportOf(parked).left]
    BY <1>1, <1>7, <2>1 DEF ReportOf
  <2>3. report'.call = c /\ \E left : report' = [call |-> c, left |-> left]
    BY <2>2
  <2> HIDE DEF parked
  <2>4. Types' /\ RepliesAreTrue'
    BY <1>4, <1>3, <2>3 DEF MInv, Types, RepliesAreTrue
  <2>5. TakenWasRead'
    BY <1>1, <1>4, <1>5, <1>3, <2>3 DEF MInv, TakenWasRead, Taken
  <2>6. OnlyAuthorisedIsReported'
    BY <1>1, <1>4, <1>5, <2>3 DEF OnlyAuthorisedIsReported
  <2> QED
    BY <1>1, <2>4, <2>5, <2>6 DEF MInv
<1> QED
  BY <1>6, <1>7

\* The report goes on, or ends.
LEMMA ReportingKeepsInv == ASSUME MInv, Declare \/ Fail PROVE MInv'
<1>1. /\ report # None /\ UNCHANGED <<answer, stream, pending>>
      /\ \/ report' = None /\ reported' \subseteq reported \cup {report.call}
         \/ report' = [report EXCEPT !.left = Tail(@)] /\ reported' = reported
  BY DEF Declare, Fail, udisks
<1>2. PICK c \in Calls : \E left : report = [call |-> c, left |-> left]
  BY <1>1 DEF MInv, Types
<1>3. /\ report.call = c
      /\ \/ report' = None /\ reported' \subseteq reported \cup {c}
         \/ /\ \E rest : report' = [call |-> c, left |-> rest]
            /\ report'.call = c /\ reported' = reported
  BY <1>1, <1>2
<1>4. Types' /\ RepliesAreTrue' /\ ParkedBySerial'
  BY <1>1, <1>3 DEF MInv, Types, RepliesAreTrue, ParkedBySerial, UnreadReturn
<1>5. TakenWasRead' /\ OnlyAuthorisedIsReported'
  BY <1>1, <1>3 DEF MInv, TakenWasRead, Taken, UnreadReturn, OnlyAuthorisedIsReported
<1> QED
  BY <1>4, <1>5 DEF MInv

LEMMA MInvInductive == ASSUME DistinctSerials PROVE MInv /\ [Next]_vars => MInv'
<1> SUFFICES ASSUME MInv, [Next]_vars PROVE MInv'
  OBVIOUS
<1>1. CASE Tick \/ UNCHANGED vars
  BY <1>1 DEF Tick, vars, udisks, MInv, Types, RepliesAreTrue, ParkedBySerial, TakenWasRead, Taken,
     UnreadReturn, OnlyAuthorisedIsReported
<1>2. ASSUME NEW c \in Calls, NEW r \in Requests, Send(c, r) PROVE MInv'
  BY <1>2, EmitKeepsInv DEF Send
<1>3. ASSUME NEW c \in Calls, Authorise(c) \/ Refuse(c) PROVE MInv'
  BY <1>3, EmitKeepsInv DEF Authorise, Refuse, Reply
<1>4. CASE Ignore
  <2>1. Read("call") /\ UNCHANGED <<pending, report, reported>>
    BY <1>4 DEF Ignore
  <2>2. ParkedBySerial'
    BY <2>1 DEF MInv, ParkedBySerial
  <2> QED
    BY <2>1, <2>2, ReadKeepsInv
<1>5. CASE Refused
  BY <1>5, TakeLeavesParked, ReadKeepsInv DEF Refused, Take
<1>6. CASE StreamEnds
  BY <1>6 DEF StreamEnds, udisks, MInv, Types, RepliesAreTrue, ParkedBySerial, TakenWasRead, Taken,
     UnreadReturn, OnlyAuthorisedIsReported
<1> QED
  BY <1>1, <1>2, <1>3, <1>4, <1>5, <1>6, ParkKeepsInv, AuthorisedKeepsInv, ReportingKeepsInv DEF Next, Listen

\* Authorisation (monitor.rs, "Only authorised calls are acted upon"): as long as no two
\* calls have one serial, what is reported was asked by a call UDisks2 authorised, and
\* by one that has not been reported yet, whoever else calls, in whatever order calls
\* are answered, whatever is evicted from the table and whatever fails.
THEOREM OnlyTheAuthorised == ASSUME DistinctSerials PROVE Spec => []OnlyAuthorisedIsReported
<1>1. MInv => OnlyAuthorisedIsReported
  BY DEF MInv
<1>2. MInv /\ [Next]_vars => MInv'
  BY MInvInductive
<1> QED
  BY <1>1, <1>2, InitMInv, PTL DEF Spec
--------------------------------------------------------------------------------
(* Where a call is *)

\* A message of a type about a call is in a stream.
Unread(s, type, c) == \E i \in 1 .. Len(s) : s[i].type = type /\ s[i].call = c

\* A call has one message of a type there.
OnceEach(s, type) ==
  \A i, j \in 1 .. Len(s) : s[i].type = type /\ s[j].type = type /\ s[i].call = s[j].call => i = j

InTable(c) == \E s \in DOMAIN pending : pending[s].call = c

\* A report has one library call left, or two.
HasLeft(left) == (\E a : left = <<a>>) \/ (\E a, b : left = <<a, b>>)

FateTypes ==
  /\ request \in [Calls -> Requests \cup {None}]
  /\ answer \in [Calls -> {"unsent", "awaited", "authorised", "refused"}]
  /\ stream \in Seq(Messages)
  /\ DOMAIN pending \subseteq Serials
  /\ Cardinality(DOMAIN pending) <= MaxPending
  /\ \A s \in DOMAIN pending :
       /\ pending[s].call \in Calls /\ Serial[pending[s].call] = s
       /\ pending[s].at \in 0 .. clock
       /\ \E r : pending[s].intent = IntentOf(r)
       /\ pending[s].intent # None
  /\ clock \in 0 .. MaxClock
  /\ report = None \/ \E c \in Calls : \E left : HasLeft(left) /\ report = [call |-> c, left |-> left]
  /\ DOMAIN declared = MountPoints
  /\ reported \subseteq Calls /\ lost \subseteq Calls

\* A call is unsent, or unread, or parked, or being reported or reported, or lost, or
\* none of these any more; never two of them.
Fate(c) ==
  /\ answer[c] = "unsent" => ~Unread(stream, "call", c) /\ ~InTable(c) /\ ~Taken(c) /\ c \notin lost
  /\ Unread(stream, "call", c) => ~InTable(c) /\ ~Taken(c) /\ c \notin lost
  /\ InTable(c) => ~Taken(c) /\ c \notin lost
  /\ Taken(c) => c \notin lost
  /\ report # None /\ report.call = c => c \notin reported

FInv ==
  /\ FateTypes
  /\ OnceEach(stream, "call")
  /\ \A c \in Calls : Fate(c)

LEMMA TailMessages ==
  ASSUME NEW s \in Seq(Messages), s # <<>>
  PROVE  /\ Head(s) \in Messages /\ Tail(s) \in Seq(Messages)
         /\ Unread(s, Head(s).type, Head(s).call)
         /\ \A t, c : Unread(s, t, c) <=> Unread(Tail(s), t, c) \/ (Head(s).type = t /\ Head(s).call = c)
         /\ \A t : OnceEach(s, t) =>
              OnceEach(Tail(s), t) /\ (Head(s).type = t => ~Unread(Tail(s), t, Head(s).call))
<1>1. /\ Head(s) = s[1] /\ Head(s) \in Messages /\ Tail(s) \in Seq(Messages)
      /\ Len(s) \in Nat \ {0} /\ Len(Tail(s)) = Len(s) - 1
      /\ \A i \in 1 .. Len(Tail(s)) : Tail(s)[i] = s[i + 1]
  OBVIOUS
<1>2. ASSUME NEW i \in 1 .. Len(Tail(s)) PROVE i + 1 \in 1 .. Len(s) /\ i + 1 # 1
  BY <1>1
<1>3. ASSUME NEW i \in 1 .. Len(s), i # 1 PROVE i - 1 \in 1 .. Len(Tail(s)) /\ s[i] = Tail(s)[i - 1]
  <2>1. i \in Nat /\ i - 1 \in 1 .. Len(Tail(s)) /\ (i - 1) + 1 = i
    BY <1>1, <1>3
  <2> QED
    BY <1>1, <2>1
<1>4. 1 \in 1 .. Len(s)
  BY <1>1
<1>5. ASSUME NEW t, NEW c
      PROVE  Unread(s, t, c) <=> Unread(Tail(s), t, c) \/ (Head(s).type = t /\ Head(s).call = c)
  <2>1. ASSUME Unread(s, t, c)
        PROVE  Unread(Tail(s), t, c) \/ (Head(s).type = t /\ Head(s).call = c)
    BY <1>1, <1>3, <2>1 DEF Unread
  <2>2. ASSUME Unread(Tail(s), t, c) PROVE Unread(s, t, c)
    BY <1>1, <1>2, <2>2 DEF Unread
  <2>3. ASSUME Head(s).type = t, Head(s).call = c PROVE Unread(s, t, c)
    BY <1>1, <1>4, <2>3 DEF Unread
  <2> QED
    BY <2>1, <2>2, <2>3
<1>6. ASSUME NEW t, OnceEach(s, t)
      PROVE  OnceEach(Tail(s), t) /\ (Head(s).type = t => ~Unread(Tail(s), t, Head(s).call))
  <2>1. ASSUME NEW i \in 1 .. Len(Tail(s)), NEW j \in 1 .. Len(Tail(s)), Tail(s)[i].type = t,
               Tail(s)[j].type = t, Tail(s)[i].call = Tail(s)[j].call
        PROVE  i = j
    <3>1. /\ i + 1 \in 1 .. Len(s) /\ s[i + 1] = Tail(s)[i]
          /\ j + 1 \in 1 .. Len(s) /\ s[j + 1] = Tail(s)[j]
      BY <1>1, <1>2
    <3>2. i + 1 = j + 1
      BY <1>6, <2>1, <3>1 DEF OnceEach
    <3> QED
      BY <3>2
  <2>2. ASSUME Head(s).type = t, NEW i \in 1 .. Len(Tail(s)), Tail(s)[i].type = t,
               Tail(s)[i].call = Head(s).call
        PROVE  FALSE
    <3>1. i + 1 \in 1 .. Len(s) /\ s[i + 1] = Tail(s)[i] /\ i + 1 # 1
      BY <1>1, <1>2
    <3> QED
      BY <1>1, <1>4, <1>6, <2>2, <3>1 DEF OnceEach
  <2> QED
    BY <2>1, <2>2 DEF OnceEach, Unread
<1> QED
  <2>1. Unread(s, Head(s).type, Head(s).call)
    BY <1>5
  <2> QED
    BY <1>1, <1>5, <1>6, <2>1

LEMMA AppendedMessages ==
  ASSUME NEW s \in Seq(Messages), NEW m \in Messages
  PROVE  /\ Append(s, m) \in Seq(Messages)
         /\ \A t, c : Unread(Append(s, m), t, c) <=> Unread(s, t, c) \/ (m.type = t /\ m.call = c)
         /\ \A t : OnceEach(s, t) /\ (m.type = t => ~Unread(s, t, m.call)) => OnceEach(Append(s, m), t)
<1> DEFINE e == Append(s, m)
           n == Len(s)
<1>1. /\ n \in Nat /\ e \in Seq(Messages) /\ Len(e) = n + 1 /\ e[n + 1] = m
      /\ \A i \in 1 .. n : e[i] = s[i]
  OBVIOUS
<1> HIDE DEF e
<1>2. \A i \in 1 .. Len(e) : i \in 1 .. n \/ i = n + 1
  BY <1>1
<1>3. n + 1 \in 1 .. Len(e) /\ \A i \in 1 .. n : i \in 1 .. Len(e)
  BY <1>1
<1> HIDE DEF n
<1>4. ASSUME NEW t, NEW c PROVE Unread(e, t, c) <=> Unread(s, t, c) \/ (m.type = t /\ m.call = c)
  BY <1>1, <1>2, <1>3 DEF Unread, n
<1>5. ASSUME NEW t, OnceEach(s, t), m.type = t => ~Unread(s, t, m.call) PROVE OnceEach(e, t)
  <2> SUFFICES ASSUME NEW i \in 1 .. Len(e), NEW j \in 1 .. Len(e), e[i].type = t, e[j].type = t,
                      e[i].call = e[j].call
               PROVE  i = j
    BY DEF OnceEach
  <2>1. CASE i \in 1 .. n /\ j \in 1 .. n
    BY <1>1, <1>5, <2>1 DEF OnceEach, n
  <2>2. CASE i \in 1 .. n /\ j = n + 1
    BY <1>1, <1>5, <2>2 DEF Unread, n
  <2>3. CASE j \in 1 .. n /\ i = n + 1
    BY <1>1, <1>5, <2>3 DEF Unread, n
  <2> QED
    BY <1>2, <2>1, <2>2, <2>3
<1> QED
  BY <1>1, <1>4, <1>5 DEF e

--------------------------------------------------------------------------------
(* What a step makes of them *)

\* What is asked for comes down to one library call, or two.
LEMMA IntentHasLeft ==
  ASSUME NEW r, IntentOf(r) # None, NEW path, NEW luks
  PROVE  HasLeft(LibraryCalls(IntentOf(r), path, luks))
<1> DEFINE i == IntentOf(r)
<1>1. i.does \in {"mount", "unmount", "options", "move"}
  BY DEF IntentOf, Intent, Mount, Unmount, Update, Move, Options
<1> HIDE DEF i
<1>2. \/ i.does = "mount"
        /\ LibraryCalls(i, path, luks) = <<ReportMount(Info(i.new, path), luks)>>
      \/ i.does = "unmount"
        /\ LibraryCalls(i, path, luks) = <<RemoveMount(Info(i.old, path))>>
      \/ i.does = "options"
        /\ LibraryCalls(i, path, luks) = <<ReportOptionsChanged(Info(i.old, path), i.options)>>
      \/ i.does = "move"
        /\ LibraryCalls(i, path, luks) = <<RemoveMount(Info(i.old, path)), ReportMount(Info(i.new, path), luks)>>
  BY <1>1 DEF LibraryCalls
<1> QED
  BY <1>2 DEF HasLeft, i

LEMMA LeftIsList ==
  ASSUME NEW left, HasLeft(left)
  PROVE  left # <<>> /\ Len(left) \in {1, 2} /\ (Len(left) # 1 => HasLeft(Tail(left)))
<1>1. ASSUME NEW a, left = <<a>> PROVE left # <<>> /\ Len(left) = 1
  BY <1>1
<1>2. ASSUME NEW a, NEW b, left = <<a, b>> PROVE left # <<>> /\ Len(left) = 2 /\ Tail(left) = <<b>>
  BY <1>2
<1> QED
  BY <1>1, <1>2 DEF HasLeft

LEMMA TableIsFinite == ASSUME DOMAIN pending \subseteq Serials PROVE IsFiniteSet(DOMAIN pending)
<1>1. IsFiniteSet(Serials)
  <2>1. Serial \in Surjection(Calls, Serials)
    BY MonitorAssumption DEF Surjection, Serials
  <2> QED
    BY <2>1, MonitorAssumption, FS_Surjection
<1> QED
  BY <1>1, FS_Subset

Young == {s \in DOMAIN pending : Waited(s) < PendingTtl}

\* Room is made for one: nobody young goes while there is room, and one goes at most.
LEMMA KeepsLeavesRoom ==
  ASSUME FateTypes, NEW keep, Keeps(keep)
  PROVE  /\ keep \subseteq Young /\ IsFiniteSet(keep) /\ Cardinality(keep) \in 0 .. MaxPending - 1
         /\ keep # Young =>
              /\ Cardinality(keep) = MaxPending - 1
              /\ \A s \in keep, u \in Young \ keep : pending[s].at >= pending[u].at
<1>1. /\ keep \subseteq Young
      /\ Cardinality(keep) = IF Cardinality(Young) >= MaxPending THEN MaxPending - 1 ELSE Cardinality(Young)
      /\ \A s \in keep, u \in Young \ keep : pending[s].at >= pending[u].at
  BY DEF Keeps, Young
<1>2. IsFiniteSet(Young)
  BY TableIsFinite, FS_Subset DEF FateTypes, Young
<1>3. IsFiniteSet(keep) /\ (Cardinality(keep) = Cardinality(Young) => keep = Young)
  BY <1>1, <1>2, FS_Subset
<1>4. Cardinality(Young) \in Nat /\ MaxPending \in Nat \ {0}
  BY <1>2, FS_CardinalityType, MonitorAssumption
<1> QED
  BY <1>1, <1>3, <1>4

\* The table when the call `c` is parked.
LEMMA ParkedTable ==
  ASSUME FateTypes, Park
  PROVE  LET c == Head(stream).call
         IN  /\ Read("call") /\ c \in Calls /\ IntentOf(request[c]) # None
             /\ \E keep \in SUBSET DOMAIN pending :
                  /\ Keeps(keep)
                  /\ DOMAIN pending' = keep \cup {Serial[c]}
                  /\ pending'[Serial[c]] =
                       [call |-> c, path |-> request[c].path, intent |-> IntentOf(request[c]), at |-> clock]
                  /\ \A s \in keep \ {Serial[c]} : pending'[s] = pending[s]
                  /\ lost' = lost \cup {pending[s].call : s \in DOMAIN pending \ keep}
             /\ UNCHANGED <<report, reported>>
<1> DEFINE c == Head(stream).call
           parked == [call |-> c, path |-> request[c].path, intent |-> IntentOf(request[c]), at |-> clock]
<1>1. /\ Read("call") /\ UNCHANGED <<report, reported>> /\ parked.intent # None
      /\ \E keep \in SUBSET DOMAIN pending :
           /\ Keeps(keep)
           /\ pending' = [s \in keep \cup {Serial[c]} |-> IF s = Serial[c] THEN parked ELSE pending[s]]
           /\ lost' = lost \cup {pending[s].call : s \in DOMAIN pending \ keep}
  BY DEF Park
<1>2. c \in Calls
  BY <1>1, TailMessages DEF Read, FateTypes, Messages
<1>3. IntentOf(request[c]) # None
  BY <1>1
<1>4. PICK keep \in SUBSET DOMAIN pending :
           /\ Keeps(keep)
           /\ pending' = [s \in keep \cup {Serial[c]} |-> IF s = Serial[c] THEN parked ELSE pending[s]]
           /\ lost' = lost \cup {pending[s].call : s \in DOMAIN pending \ keep}
  BY <1>1
<1> HIDE DEF parked, c
<1>5. /\ DOMAIN pending' = keep \cup {Serial[c]} /\ pending'[Serial[c]] = parked
      /\ \A s \in keep \ {Serial[c]} : pending'[s] = pending[s]
  BY <1>4
<1> QED
  BY <1>1, <1>2, <1>3, <1>4, <1>5 DEF parked, c

\* A message of `c` is emitted.
LEMMA EmitKeepsFate ==
  ASSUME FInv, NEW c \in Calls, NEW type \in {"call", "return", "error"},
         NEW to \in {"awaited", "authorised", "refused"},
         answer[c] = IF type = "call" THEN "unsent" ELSE "awaited",
         answer' = [answer EXCEPT ![c] = to],
         stream' = Append(stream, [type |-> type, call |-> c]),
         request' \in [Calls -> Requests \cup {None}],
         UNCHANGED <<pending, clock, report, declared, reported, lost>>
  PROVE  FInv'
<1> DEFINE m == [type |-> type, call |-> c]
<1>1. m \in Messages /\ m.type = type /\ m.call = c /\ stream' = Append(stream, m)
  BY DEF Messages
<1> HIDE DEF m
<1>2. /\ stream' \in Seq(Messages)
      /\ \A t, b : Unread(stream', t, b) <=> Unread(stream, t, b) \/ (type = t /\ c = b)
      /\ \A t : OnceEach(stream, t) /\ (type = t => ~Unread(stream, t, c)) => OnceEach(stream', t)
  BY <1>1, AppendedMessages DEF FInv, FateTypes
<1>3. /\ answer' \in [Calls -> {"unsent", "awaited", "authorised", "refused"}]
      /\ answer'[c] = to /\ \A b \in Calls \ {c} : answer'[b] = answer[b]
  BY DEF FInv, FateTypes
<1>4. FateTypes'
  BY <1>2, <1>3 DEF FInv, FateTypes
<1>5. OnceEach(stream, "call")'
  BY <1>2 DEF FInv, Fate
<1>6. ASSUME NEW b \in Calls PROVE Fate(b)'
  <2>1. Fate(b) /\ (InTable(b)' <=> InTable(b)) /\ (Taken(b)' <=> Taken(b)) /\ lost' = lost
    BY DEF FInv, InTable, Taken
  <2>2. Unread(stream', "call", b) <=> Unread(stream, "call", b) \/ (type = "call" /\ c = b)
    BY <1>2
  <2> QED
    BY <1>3, <2>1, <2>2 DEF Fate
<1> QED
  BY <1>4, <1>5, <1>6 DEF FInv

\* A message is read: of which call, and what is left to read.
LEMMA ReadCall ==
  ASSUME FInv, NEW type, Read(type)
  PROVE  /\ Head(stream).call \in Calls /\ report = None /\ stream' \in Seq(Messages)
         /\ UNCHANGED <<request, answer, clock, declared>>
         /\ OnceEach(stream', "call")
         /\ \A c \in Calls : Unread(stream', "call", c) => Unread(stream, "call", c)
         /\ type = "call" =>
              /\ Unread(stream, "call", Head(stream).call)
              /\ ~Unread(stream', "call", Head(stream).call)
<1>1. /\ stream \in Seq(Messages) /\ stream # <<>> /\ stream' = Tail(stream) /\ Head(stream).type = type
      /\ report = None /\ UNCHANGED <<request, answer, clock, declared>>
  BY DEF FInv, FateTypes, Read, udisks
<1>2. /\ Head(stream) \in Messages /\ stream' \in Seq(Messages)
      /\ Unread(stream, Head(stream).type, Head(stream).call)
      /\ \A t, c : Unread(stream, t, c) <=> Unread(stream', t, c) \/ (Head(stream).type = t /\ Head(stream).call = c)
      /\ \A t : OnceEach(stream, t) =>
           OnceEach(stream', t) /\ (Head(stream).type = t => ~Unread(stream', t, Head(stream).call))
  BY <1>1, TailMessages
<1>3. Head(stream).call \in Calls
  BY <1>2 DEF Messages
<1>4. OnceEach(stream, "call")
  BY DEF FInv
<1> QED
  BY <1>1, <1>2, <1>3, <1>4

LEMMA ParkKeepsFate == ASSUME FInv, Park PROVE FInv'
<1> DEFINE c == Head(stream).call
<1>1. /\ c \in Calls /\ report = None /\ stream' \in Seq(Messages)
      /\ UNCHANGED <<request, answer, clock, declared, report, reported>>
      /\ OnceEach(stream', "call")
      /\ \A b \in Calls : Unread(stream', "call", b) => Unread(stream, "call", b)
      /\ Unread(stream, "call", c) /\ ~Unread(stream', "call", c)
  <2>1. Read("call") /\ UNCHANGED <<report, reported>>
    BY DEF Park
  <2> QED
    BY <2>1, ReadCall
<1>2. IntentOf(request[c]) # None
  BY ParkedTable DEF FInv
<1>3. PICK keep \in SUBSET DOMAIN pending :
        /\ Keeps(keep)
        /\ DOMAIN pending' = keep \cup {Serial[c]}
        /\ pending'[Serial[c]] =
             [call |-> c, path |-> request[c].path, intent |-> IntentOf(request[c]), at |-> clock]
        /\ \A s \in keep \ {Serial[c]} : pending'[s] = pending[s]
        /\ lost' = lost \cup {pending[s].call : s \in DOMAIN pending \ keep}
  BY ParkedTable DEF FInv
<1> HIDE DEF c
<1>4. Serial[c] \in Serials
  BY <1>1 DEF Serials
<1>5. /\ pending'[Serial[c]].call = c /\ pending'[Serial[c]].at = clock
      /\ pending'[Serial[c]].intent = IntentOf(request[c])
  BY <1>3
<1>6. Cardinality(DOMAIN pending') <= MaxPending
  <2>1. IsFiniteSet(keep) /\ Cardinality(keep) \in 0 .. MaxPending - 1
    BY <1>3, KeepsLeavesRoom DEF FInv
  <2>2. \/ Cardinality(keep \cup {Serial[c]}) = Cardinality(keep) + 1
        \/ Cardinality(keep \cup {Serial[c]}) = Cardinality(keep)
    BY <2>1, FS_AddElement
  <2> QED
    BY <1>3, <2>1, <2>2, MonitorAssumption
<1>7. FateTypes'
  <2>1. ASSUME NEW s \in DOMAIN pending'
        PROVE  /\ pending'[s].call \in Calls /\ Serial[pending'[s].call] = s
               /\ pending'[s].at \in 0 .. clock
               /\ \E r : pending'[s].intent = IntentOf(r)
               /\ pending'[s].intent # None
    <3>1. CASE s = Serial[c]
      <4>1. clock \in 0 .. clock
        BY DEF FInv, FateTypes
      <4> QED
        BY <1>1, <1>2, <1>5, <3>1, <4>1
    <3>2. CASE s # Serial[c]
      <4>1. s \in DOMAIN pending /\ pending'[s] = pending[s]
        BY <1>3, <2>1, <3>2
      <4> QED
        BY <4>1 DEF FInv, FateTypes
    <3> QED
      BY <3>1, <3>2
  <2>2. lost' \subseteq Calls
    BY <1>3 DEF FInv, FateTypes
  <2>3. DOMAIN pending' \subseteq Serials
    BY <1>3, <1>4 DEF FInv, FateTypes
  <2> QED
    BY <1>1, <1>6, <2>1, <2>2, <2>3 DEF FInv, FateTypes
<1>8. ASSUME NEW b \in Calls PROVE Fate(b)'
  <2>1. Fate(b) /\ Fate(c) /\ (Taken(b)' <=> Taken(b))
    BY <1>1 DEF FInv, Taken
  <2>2. InTable(b)' => b = c \/ (InTable(b) /\ \E s \in keep : pending[s].call = b)
    BY <1>3, <1>5 DEF InTable
  <2>3. b \in lost' => b \in lost \/ (InTable(b) /\ \E s \in DOMAIN pending \ keep : pending[s].call = b)
    BY <1>3 DEF InTable
  <2>4. ASSUME NEW s \in DOMAIN pending, NEW t \in DOMAIN pending, pending[s].call = pending[t].call
        PROVE  s = t
    BY <2>4 DEF FInv, FateTypes
  <2>5. b \in lost' => ~InTable(b)'
    <3>1. ASSUME b \in lost', InTable(b)' PROVE FALSE
      <4>1. b # c
        BY <1>1, <2>1, <2>3, <3>1 DEF Fate
      <4>2. b \notin lost
        BY <2>1, <2>2, <3>1, <4>1 DEF Fate
      <4> QED
        BY <2>2, <2>3, <2>4, <3>1, <4>1, <4>2
    <3> QED
      BY <3>1
  <2>6. answer'[b] = answer[b] /\ (Unread(stream', "call", b) => Unread(stream, "call", b) /\ b # c)
    BY <1>1
  <2>7. report' = report /\ reported' = reported
    BY <1>1
  <2>8. answer[c] # "unsent" /\ ~Taken(c) /\ c \notin lost /\ ~InTable(c)
    BY <1>1, <2>1 DEF Fate
  <2> QED
    BY <2>1, <2>2, <2>3, <2>5, <2>6, <2>7, <2>8 DEF Fate
<1> QED
  BY <1>1, <1>7, <1>8 DEF FInv

LEMMA IgnoreKeepsFate == ASSUME FInv, Ignore PROVE FInv'
<1>1. Read("call") /\ UNCHANGED <<pending, report, reported, lost>>
  BY DEF Ignore
<1>2. /\ stream' \in Seq(Messages) /\ UNCHANGED <<request, answer, clock, declared>>
      /\ OnceEach(stream', "call")
      /\ \A b \in Calls : Unread(stream', "call", b) => Unread(stream, "call", b)
  BY <1>1, ReadCall
<1>3. FateTypes'
  BY <1>1, <1>2 DEF FInv, FateTypes
<1>4. ASSUME NEW b \in Calls PROVE Fate(b)'
  <2>1. Fate(b) /\ (Taken(b)' <=> Taken(b)) /\ (InTable(b)' <=> InTable(b))
    BY <1>1 DEF FInv, Taken, InTable
  <2> QED
    BY <1>1, <1>2, <2>1 DEF Fate
<1> QED
  BY <1>2, <1>3, <1>4 DEF FInv

\* A reply takes its entry out of the table: to its report, or to nowhere.
LEMMA TakeKeepsFate == ASSUME FInv, Authorised \/ Refused PROVE FInv'
<1> DEFINE k == Serial[Head(stream).call]
<1>1. PICK type : Take(type) /\ UNCHANGED <<reported, lost>>
                  /\ report' \in {None, IF Parked THEN ReportOf(pending[k]) ELSE None}
  BY DEF Authorised, Refused, Take, Read
<1>2. /\ stream' \in Seq(Messages) /\ UNCHANGED <<request, answer, clock, declared>> /\ report = None
      /\ OnceEach(stream', "call")
      /\ \A b \in Calls : Unread(stream', "call", b) => Unread(stream, "call", b)
  BY <1>1, ReadCall DEF Take
<1>3. /\ DOMAIN pending' = DOMAIN pending \ {k}
      /\ \A s \in DOMAIN pending' : pending'[s] = pending[s]
  BY <1>1 DEF Take
<1>4. report' = None \/ (k \in DOMAIN pending /\ report' = ReportOf(pending[k]))
  BY <1>1 DEF Parked
<1> HIDE DEF k
<1>5. report' = None \/ \E c \in Calls : \E left : HasLeft(left) /\ report' = [call |-> c, left |-> left]
  <2> SUFFICES ASSUME k \in DOMAIN pending, report' = ReportOf(pending[k])
               PROVE  \E c \in Calls : \E left : HasLeft(left) /\ report' = [call |-> c, left |-> left]
    BY <1>4
  <2>1. pending[k].call \in Calls
    BY DEF FInv, FateTypes
  <2>2. HasLeft(LibraryCalls(pending[k].intent, pending[k].path, pending[k].path \in Luks))
    BY IntentHasLeft DEF FInv, FateTypes
  <2> QED
    BY <2>1, <2>2 DEF ReportOf
<1>6. Cardinality(DOMAIN pending') <= MaxPending
  <2>1. IsFiniteSet(DOMAIN pending) /\ DOMAIN pending' \subseteq DOMAIN pending
    BY <1>3, TableIsFinite DEF FInv, FateTypes
  <2>2. /\ Cardinality(DOMAIN pending') <= Cardinality(DOMAIN pending)
        /\ IsFiniteSet(DOMAIN pending')
    BY <2>1, FS_Subset
  <2>3. Cardinality(DOMAIN pending') \in Nat /\ Cardinality(DOMAIN pending) \in Nat
    BY <2>1, <2>2, FS_CardinalityType
  <2> QED
    BY <2>2, <2>3, MonitorAssumption DEF FInv, FateTypes
<1>7. FateTypes'
  BY <1>1, <1>2, <1>3, <1>5, <1>6 DEF FInv, FateTypes
<1>8. ASSUME NEW b \in Calls PROVE Fate(b)'
  <2>1. Fate(b)
    BY DEF FInv
  <2>2. InTable(b)' => InTable(b) /\ \E s \in DOMAIN pending \ {k} : pending[s].call = b
    BY <1>3 DEF InTable
  <2>3. report' # None /\ report'.call = b => k \in DOMAIN pending /\ pending[k].call = b
    BY <1>4 DEF ReportOf
  <2>4. report' # None /\ report'.call = b => InTable(b) /\ ~InTable(b)'
    <3>1. ASSUME NEW s \in DOMAIN pending, NEW t \in DOMAIN pending, pending[s].call = pending[t].call
          PROVE  s = t
      BY <3>1 DEF FInv, FateTypes
    <3> QED
      BY <2>2, <2>3, <3>1 DEF InTable
  <2>5. Taken(b)' => Taken(b) \/ (report' # None /\ report'.call = b)
    BY <1>1 DEF Taken
  <2>6. Taken(b) <=> b \in reported
    BY <1>2 DEF Taken
  <2> QED
    BY <1>1, <1>2, <2>1, <2>2, <2>4, <2>5, <2>6 DEF Fate
<1> QED
  BY <1>2, <1>7, <1>8 DEF FInv

\* A report goes on to its second library call, or ends, or fails.
LEMMA ReportingKeepsFate == ASSUME FInv, Declare \/ Fail PROVE FInv'
<1>1. PICK c \in Calls : \E left : HasLeft(left) /\ report = [call |-> c, left |-> left]
  BY DEF FInv, FateTypes, Declare, Fail
<1>2. PICK left : HasLeft(left) /\ report = [call |-> c, left |-> left]
  BY <1>1
<1>3. /\ report # None /\ report.call = c /\ report.left = left
      /\ UNCHANGED <<request, answer, stream, pending, clock>>
      /\ \/ report' = None /\ reported' = reported \cup {c} /\ lost' = lost
         \/ Len(left) # 1 /\ report' = [call |-> c, left |-> Tail(left)]
            /\ UNCHANGED <<reported, lost>>
         \/ report' = None /\ reported' = reported /\ lost' = lost \cup {c}
  BY <1>2 DEF Declare, Fail, udisks
<1>4. Len(left) # 1 => HasLeft(Tail(left))
  BY <1>2, LeftIsList
<1>5. DOMAIN declared' = MountPoints
  BY DEF FInv, FateTypes, Declare, Fail, Applied
<1>6. report' = None \/ \E rest : HasLeft(rest) /\ report' = [call |-> c, left |-> rest]
  BY <1>3, <1>4
<1>7. FateTypes'
  BY <1>3, <1>5, <1>6 DEF FInv, FateTypes
<1>8. ASSUME NEW b \in Calls PROVE Fate(b)'
  <2>1. Fate(b) /\ (InTable(b)' <=> InTable(b)) /\ (Taken(b)' => Taken(b))
    BY <1>3 DEF FInv, InTable, Taken
  <2>2. b \in lost' => b \in lost \/ (b = c /\ ~Taken(b)')
    BY <1>3, <2>1 DEF Taken, Fate
  <2>3. c \notin lost /\ ~InTable(c) /\ ~Unread(stream, "call", c) /\ answer[c] # "unsent"
    BY <1>3 DEF FInv, Fate, Taken
  <2>4. report' # None /\ report'.call = b => b \notin reported'
    BY <1>3, <2>1 DEF Fate
  <2> QED
    BY <1>3, <2>1, <2>2, <2>3, <2>4 DEF Fate
<1> QED
  BY <1>3, <1>7, <1>8 DEF FInv

\* With the stream, the table of parked calls is gone.
LEMMA EndKeepsFate == ASSUME FInv, StreamEnds PROVE FInv'
<1>1. /\ DOMAIN pending' = {} /\ lost' = lost \cup {pending[s].call : s \in DOMAIN pending}
      /\ UNCHANGED <<request, answer, stream, clock, report, declared, reported>>
  BY DEF StreamEnds, udisks
<1>2. Cardinality(DOMAIN pending') = 0
  BY <1>1, FS_EmptySet
<1>3. FateTypes'
  BY <1>1, <1>2, MonitorAssumption DEF FInv, FateTypes
<1>4. ASSUME NEW b \in Calls PROVE Fate(b)'
  <2>1. /\ Fate(b) /\ ~InTable(b)' /\ (Taken(b)' <=> Taken(b))
        /\ (b \in lost' => b \in lost \/ InTable(b))
    BY <1>1 DEF FInv, InTable, Taken
  <2> QED
    BY <1>1, <2>1 DEF Fate
<1> QED
  BY <1>1, <1>3, <1>4 DEF FInv

LEMMA FateNext == FInv /\ [Next]_vars => FInv'
<1> SUFFICES ASSUME FInv, [Next]_vars PROVE FInv'
  OBVIOUS
<1>1. CASE Tick \/ UNCHANGED vars
  <2>1. /\ UNCHANGED <<request, answer, stream, pending, report, declared, reported, lost>>
        /\ clock' = clock \/ (clock < MaxClock /\ clock' = clock + 1)
    BY <1>1 DEF Tick, vars, udisks
  <2>2. clock' \in 0 .. MaxClock /\ \A n \in 0 .. clock : n \in 0 .. clock'
    BY <2>1, MonitorAssumption DEF FInv, FateTypes
  <2>3. FateTypes'
    BY <2>1, <2>2 DEF FInv, FateTypes
  <2>4. ASSUME NEW b \in Calls PROVE Fate(b)'
    BY <2>1 DEF FInv, Fate, InTable, Taken
  <2> QED
    BY <2>1, <2>3, <2>4 DEF FInv
<1>2. ASSUME NEW c \in Calls, NEW r \in Requests, Send(c, r) PROVE FInv'
  <2>1. request' \in [Calls -> Requests \cup {None}]
    BY <1>2 DEF Send, FInv, FateTypes
  <2> QED
    BY <1>2, <2>1, EmitKeepsFate DEF Send
<1>3. ASSUME NEW c \in Calls, Authorise(c) \/ Refuse(c) PROVE FInv'
  <2>1. request' = request /\ request \in [Calls -> Requests \cup {None}]
    BY <1>3 DEF Authorise, Refuse, Reply, FInv, FateTypes
  <2> QED
    BY <1>3, <2>1, EmitKeepsFate DEF Authorise, Refuse, Reply
<1> QED
  BY <1>1, <1>2, <1>3, ParkKeepsFate, IgnoreKeepsFate, TakeKeepsFate, ReportingKeepsFate, EndKeepsFate
  DEF Next, Listen

LEMMA FateInit == Init => FInv
<1> SUFFICES ASSUME Init PROVE FInv
  OBVIOUS
<1>1. Cardinality(DOMAIN pending) = 0 /\ DOMAIN pending = {}
  BY FS_EmptySet DEF Init
<1>2. FateTypes
  BY <1>1, MonitorAssumption DEF Init, FateTypes
<1> QED
  BY <1>1, <1>2 DEF Init, FInv, OnceEach, Fate, Unread, InTable, Taken

\* The table never holds more than MAX_PENDING calls (pending.rs), whatever is sent, and
\* no call is both reported and given up for lost, whatever serials the callers use.
THEOREM TableStaysSmall == Spec => []TypeOK
<1> DEFINE Runs == listening \in BOOLEAN
<1>1. FInv /\ Runs => TypeOK
  <2> SUFFICES ASSUME FInv, listening \in BOOLEAN PROVE TypeOK
    OBVIOUS
  <2>1. \A i \in DOMAIN stream : stream[i].type \in {"call", "return", "error"}
    <3>1. stream \in Seq(Messages)
      BY DEF FInv, FateTypes
    <3>2. ASSUME NEW i \in DOMAIN stream PROVE stream[i] \in Messages
      BY <3>1
    <3> QED
      BY <3>2 DEF Messages
  <2>2. report = None \/ (report.call \in Calls /\ report.left # <<>>)
    BY LeftIsList DEF FInv, FateTypes
  <2>3. \A s \in DOMAIN pending : pending[s].at <= clock
    BY DEF FInv, FateTypes
  <2>4. reported \cap lost = {}
    BY DEF FInv, FateTypes, Fate, Taken
  <2> QED
    BY <2>1, <2>2, <2>3, <2>4 DEF FInv, FateTypes, TypeOK
<1>2. Init => Runs
  BY DEF Init
<1>3. Runs /\ [Next]_vars => Runs'
  <2>1. Next => listening' = listening \/ listening' = FALSE
    BY DEF Next, Listen, Send, Authorise, Refuse, Reply, Read, Park, Ignore, Authorised, Refused, Take,
       Declare, Fail, StreamEnds, Tick
  <2> QED
    BY <2>1 DEF vars
<1> QED
  BY <1>1, <1>2, <1>3, FateInit, FateNext, PTL DEF Spec

\* A parked call is forgotten unanswered only when its prompt is PENDING_TTL old, or when
\* the table is full and nobody in it was parked before (pending.rs), as long as no two
\* calls have one serial: what is parked under it then is in nobody's place.
THEOREM OldestGoes == ASSUME DistinctSerials PROVE Spec => EvictsOldest
<1>1. ASSUME FInv, Park
      PROVE  \A s \in DOMAIN pending \ (DOMAIN pending' \cup {Serial[Head(stream).call]}) :
               \/ Waited(s) >= PendingTtl
               \/ /\ Cardinality(DOMAIN pending') = MaxPending
                  /\ \A u \in DOMAIN pending' : pending'[u].at >= pending[s].at
  <2> DEFINE c == Head(stream).call
  <2> TAKE s \in DOMAIN pending \ (DOMAIN pending' \cup {Serial[c]})
  <2>1. c \in Calls /\ Unread(stream, "call", c)
    <3>1. Read("call")
      BY <1>1 DEF Park
    <3> QED
      BY <1>1, <3>1, ReadCall
  <2>2. PICK keep \in SUBSET DOMAIN pending :
          /\ Keeps(keep)
          /\ DOMAIN pending' = keep \cup {Serial[c]}
          /\ pending'[Serial[c]] =
               [call |-> c, path |-> request[c].path, intent |-> IntentOf(request[c]), at |-> clock]
          /\ \A t \in keep \ {Serial[c]} : pending'[t] = pending[t]
          /\ lost' = lost \cup {pending[t].call : t \in DOMAIN pending \ keep}
    BY <1>1, ParkedTable DEF FInv
  <2> HIDE DEF c
  <2>3. Serial[c] \notin DOMAIN pending
    BY <1>1, <2>1, SMTT(20) DEF FInv, FateTypes, Fate, InTable, DistinctSerials
  <2>4. /\ keep \subseteq Young /\ IsFiniteSet(keep) /\ Cardinality(keep) \in 0 .. MaxPending - 1
        /\ keep # Young =>
             /\ Cardinality(keep) = MaxPending - 1
             /\ \A t \in keep, u \in Young \ keep : pending[t].at >= pending[u].at
    BY <1>1, <2>2, KeepsLeavesRoom DEF FInv
  <2>5. s \notin keep /\ pending[s].at \in 0 .. clock /\ clock \in Nat /\ PendingTtl \in Nat
    BY <1>1, <2>2, MonitorAssumption DEF FInv, FateTypes
  <2>6. CASE s \notin Young
    BY <2>5, <2>6 DEF Young, Waited
  <2>7. CASE s \in Young
    <3>1. /\ Cardinality(keep) = MaxPending - 1
          /\ \A t \in keep : pending[t].at >= pending[s].at
      BY <2>4, <2>5, <2>7
    <3>2. Cardinality(DOMAIN pending') = MaxPending
      <4>1. Cardinality(keep \cup {Serial[c]}) = Cardinality(keep) + 1
        BY <2>2, <2>3, <2>4, FS_AddElement
      <4> QED
        BY <2>2, <3>1, <4>1, MonitorAssumption
    <3>3. ASSUME NEW u \in DOMAIN pending' PROVE pending'[u].at >= pending[s].at
      <4>1. CASE u = Serial[c]
        BY <2>2, <2>5, <4>1
      <4>2. CASE u # Serial[c]
        <5>1. u \in keep /\ pending'[u] = pending[u]
          BY <2>2, <3>3, <4>2
        <5> QED
          BY <3>1, <5>1
      <4> QED
        BY <4>1, <4>2
    <3> QED
      BY <3>2, <3>3
  <2> QED
    BY <2>6, <2>7
<1> QED
  BY <1>1, FateInit, FateNext, PTL DEF Spec, EvictsOldest

--------------------------------------------------------------------------------
(* What a call asks for, and what it makes of /etc/fstab *)

Opts == [name : STRING, padded : BOOLEAN]
Items == [kind : {"fstab"}, dir : MountPoints, opts : Seq(Opts)]

\* What UDisks2 authorises has both details, in as many items as the member takes.
RequestsComplete ==
  \A r \in Requests :
    /\ r.member \in {"AddConfigurationItem", "RemoveConfigurationItem", "UpdateConfigurationItem"}
    /\ r.items \in Seq(Items)
    /\ Len(r.items) = IF r.member = "UpdateConfigurationItem" THEN 2 ELSE 1

\* None is told from what is there.
NoneIsNothing ==
  /\ None \notin MountPoints \cup Seq(Opts)
  /\ \A a, b : None \notin {[mount_point |-> a, options |-> b], Mount(a), Unmount(a), Options(a, b), Move(a, b)}
  /\ \A a, b : None # [call |-> a, left |-> b]
  /\ \A a, b, c : None # [disk |-> a, options |-> b, luks |-> c]

Names(options) == ToSet(OptionList(options))

\* The names of a list of options are those between the commas, without the empty ones.
LEMMA NamesListed ==
  ASSUME NEW a \in Seq(Opts) PROVE Names(a) = {a[i].name : i \in DOMAIN a} \ {Empty}
<1> DEFINE S == {i \in DOMAIN a : a[i].name # Empty}
           at == InOrder(S)
           n == Cardinality(S)
<1>1. S \in SUBSET Nat /\ IsFiniteSet(S)
  <2>1. DOMAIN a = 1 .. Len(a) /\ Len(a) \in Nat
    OBVIOUS
  <2>2. IsFiniteSet(1 .. Len(a))
    BY <2>1, FS_Interval
  <2> QED
    BY <2>1, <2>2, FS_Subset
<1>2. S \subseteq DOMAIN a /\ \A i \in DOMAIN a : i \in S <=> a[i].name # Empty
  OBVIOUS
<1>3. OptionList(a) = [k \in DOMAIN at |-> a[at[k]].name]
  BY DEF OptionList
<1> HIDE DEF S
<1>4. at \in [1 .. n -> S] /\ \A i \in S : \E k \in 1 .. n : at[k] = i
  BY <1>1, InOrderLists
<1> HIDE DEF at, n
<1>5. Names(a) = {a[at[k]].name : k \in 1 .. n}
  BY <1>3, <1>4 DEF Names, ToSet
<1> QED
  BY <1>2, <1>4, <1>5

LEMMA SameOptionsSameNames ==
  ASSUME NEW a \in Seq(Opts), NEW b \in Seq(Opts), SameOptions(a, b) PROVE Names(a) = Names(b)
<1>1. ASSUME NEW u \in Seq(Opts), NEW v \in Seq(Opts), SameOptions(u, v), NEW i \in DOMAIN u, u[i].name # Empty
      PROVE  \E j \in DOMAIN v : v[j].name = u[i].name
  <2>1. u[i] # Blank
    BY <1>1 DEF Blank
  <2>2. u[i] \in ToSet(v)
    BY <1>1, <2>1 DEF SameOptions, ToSet
  <2> QED
    BY <2>2 DEF ToSet
<1>2. SameOptions(b, a)
  BY DEF SameOptions
<1>3. /\ \A i \in DOMAIN a : a[i].name # Empty => \E j \in DOMAIN b : b[j].name = a[i].name
      /\ \A i \in DOMAIN b : b[i].name # Empty => \E j \in DOMAIN a : a[j].name = b[i].name
  BY <1>1, <1>2
<1>4. /\ Names(a) = {a[i].name : i \in DOMAIN a} \ {Empty}
      /\ Names(b) = {b[i].name : i \in DOMAIN b} \ {Empty}
  BY NamesListed
<1> QED
  BY <1>3, <1>4

\* A library call that puts an entry of /etc/fstab into the configuration, or takes one out.
Puts(call, e) ==
  /\ call.op = "add_mount" /\ call.mount_point = e.mount_point
  /\ call.entry # None /\ call.entry.disk = e.path /\ call.entry.options = OptionList(e.options)

Takes(call, e) == call.op = "remove_mount" /\ call.mount_point = e.mount_point

StepsOf(r) == LibraryCalls(IntentOf(r), r.path, r.path \in Luks)

\* What the request takes out of /etc/fstab and puts there, and what is reported of it.
Mounts(r, new) ==
  /\ Removes(r) = {} /\ Inserts(r) = {new}
  /\ IntentOf(r) # None /\ \E a : StepsOf(r) = <<a>> /\ Puts(a, new)

Unmounts(r, old) ==
  /\ Removes(r) = {old} /\ Inserts(r) = {}
  /\ IntentOf(r) # None /\ \E a : StepsOf(r) = <<a>> /\ Takes(a, old)

Updates(r, old, new) == Removes(r) = {old} /\ Inserts(r) = {new} /\ old.path = new.path

Reorders(r, old, new) ==
  /\ Updates(r, old, new) /\ old.mount_point = new.mount_point
  /\ IntentOf(r) = None /\ Names(old.options) = Names(new.options)

Rewrites(r, old, new) ==
  /\ Updates(r, old, new) /\ old.mount_point = new.mount_point
  /\ IntentOf(r) # None /\ \E a : StepsOf(r) = <<a>> /\ Puts(a, new)

Moves(r, old, new) ==
  /\ Updates(r, old, new) /\ old.mount_point # new.mount_point
  /\ IntentOf(r) # None /\ \E a, b : StepsOf(r) = <<a, b>> /\ Takes(a, old) /\ Puts(b, new)

\* An entry whose mount point is known to the configuration.
Placed(e) == e.mount_point \in MountPoints

LEMMA ItemsAreEntries ==
  ASSUME NoneIsNothing, NEW item \in Items
  PROVE  /\ ItemEntry(item) = [mount_point |-> item.dir, options |-> item.opts]
         /\ ItemEntry(item) # None
BY DEF NoneIsNothing, Items, ItemEntry, FstabDetails

LEMMA MountPuts ==
  ASSUME NoneIsNothing, NEW e, NEW path, NEW luks, NEW new,
         e.mount_point = new.mount_point, e.options = new.options, path = new.path
  PROVE  Puts(ReportMount(Info(e, path), luks), new)
BY DEF NoneIsNothing, ReportMount, AddMount, Info, Puts

LEMMA RewritePuts ==
  ASSUME NoneIsNothing, NEW e, NEW path, NEW new, e.mount_point = new.mount_point, path = new.path
  PROVE  Puts(ReportOptionsChanged(Info(e, path), new.options), new)
BY DEF NoneIsNothing, ReportOptionsChanged, AddMount, Info, Puts

LEMMA UnmountTakes ==
  ASSUME NEW e, NEW path, NEW old, e.mount_point = old.mount_point
  PROVE  Takes(RemoveMount(Info(e, path)), old)
BY DEF RemoveMount, Info, Takes

LEMMA IntentCalls ==
  ASSUME NEW a, NEW b, NEW path, NEW luks
  PROVE  /\ LibraryCalls(Mount(a), path, luks) = <<ReportMount(Info(a, path), luks)>>
         /\ LibraryCalls(Unmount(a), path, luks) = <<RemoveMount(Info(a, path))>>
         /\ LibraryCalls(Options(a, b), path, luks) = <<ReportOptionsChanged(Info(a, path), b)>>
         /\ LibraryCalls(Move(a, b), path, luks)
              = <<RemoveMount(Info(a, path)), ReportMount(Info(b, path), luks)>>
BY DEF LibraryCalls, Mount, Unmount, Options, Move

\* The requests there are, by what they do.
LEMMA RequestsDo ==
  ASSUME RequestsComplete, NoneIsNothing, NEW r \in Requests
  PROVE  \E old, new :
           /\ Placed(old) /\ Placed(new)
           /\ Mounts(r, new) \/ Unmounts(r, old) \/ Reorders(r, old, new) \/ Rewrites(r, old, new)
              \/ Moves(r, old, new)
<1> DEFINE first == r.items[1]
           second == r.items[2]
           entry == [i \in DOMAIN r.items |-> ItemEntry(r.items[i])]
           old == Entry(r.path, first)
           new == Entry(r.path, second)
<1>1. /\ r.member \in {"AddConfigurationItem", "RemoveConfigurationItem", "UpdateConfigurationItem"}
      /\ r.items \in Seq(Items) /\ DOMAIN r.items = 1 .. Len(r.items)
      /\ Len(r.items) = IF r.member = "UpdateConfigurationItem" THEN 2 ELSE 1
  BY DEF RequestsComplete
<1>2. /\ first \in Items /\ entry[1] = ItemEntry(first) /\ Len(r.items) \in {1, 2}
      /\ Len(r.items) = 2 => second \in Items /\ entry[2] = ItemEntry(second)
  BY <1>1
<1>3. ToSet(entry) = {ItemEntry(r.items[i]) : i \in 1 .. Len(r.items)}
  BY <1>1 DEF ToSet
<1>4. None \notin ToSet(entry)
  BY <1>1, <1>3, ItemsAreEntries
<1>5. entry[1].mount_point = first.dir /\ entry[1].options = first.opts
  BY <1>2, ItemsAreEntries
<1>6. ASSUME Len(r.items) = 2 PROVE entry[2].mount_point = second.dir /\ entry[2].options = second.opts
  BY <1>2, <1>6, ItemsAreEntries
<1>7. Intent(r.member, r.items) =
        CASE r.member = "AddConfigurationItem" /\ Len(r.items) = 1 /\ None \notin ToSet(entry) -> Mount(entry[1])
          [] r.member = "RemoveConfigurationItem" /\ Len(r.items) = 1 /\ None \notin ToSet(entry) -> Unmount(entry[1])
          [] r.member = "UpdateConfigurationItem" /\ Len(r.items) = 2 /\ None \notin ToSet(entry)
               -> Update(entry[1], entry[2])
          [] OTHER -> None
  BY DEF Intent
<1> HIDE DEF entry
<1>8. IntentOf(r) = CASE r.member = "AddConfigurationItem" -> Mount(entry[1])
                      [] r.member = "RemoveConfigurationItem" -> Unmount(entry[1])
                      [] r.member = "UpdateConfigurationItem" -> Update(entry[1], entry[2])
  BY <1>1, <1>4, <1>7 DEF IntentOf
<1>9. Placed(old) /\ (Len(r.items) = 2 => Placed(new))
  BY <1>2 DEF Placed, Entry, Items
<1> DEFINE luks == r.path \in Luks
<1> HIDE DEF luks
<1>10. /\ first.dir = old.mount_point /\ first.opts = old.options /\ old.path = r.path
       /\ second.dir = new.mount_point /\ second.opts = new.options /\ new.path = r.path
  BY DEF Entry
<1>11. StepsOf(r) = LibraryCalls(IntentOf(r), r.path, luks)
  BY DEF StepsOf, luks
<1>12. /\ Removes(r) = IF r.member = "AddConfigurationItem" THEN {} ELSE {old}
       /\ r.member = "AddConfigurationItem" => Inserts(r) = {old}
       /\ r.member = "RemoveConfigurationItem" => Inserts(r) = {}
       /\ r.member = "UpdateConfigurationItem" => Inserts(r) = {new}
  BY <1>1 DEF Removes, Inserts
<1> HIDE DEF old, new, first, second
<1>13. CASE r.member = "AddConfigurationItem"
  <2>1. IntentOf(r) = Mount(entry[1]) /\ IntentOf(r) # None
    BY <1>8, <1>13 DEF NoneIsNothing
  <2>2. StepsOf(r) = <<ReportMount(Info(entry[1], r.path), luks)>>
    BY <1>11, <2>1, IntentCalls
  <2>3. Puts(ReportMount(Info(entry[1], r.path), luks), old)
    BY <1>5, <1>10, MountPuts
  <2>4. Mounts(r, old)
    BY <1>12, <1>13, <2>1, <2>2, <2>3 DEF Mounts
  <2> QED
    BY <1>9, <2>4
<1>14. CASE r.member = "RemoveConfigurationItem"
  <2>1. IntentOf(r) = Unmount(entry[1]) /\ IntentOf(r) # None
    BY <1>8, <1>14 DEF NoneIsNothing
  <2>2. StepsOf(r) = <<RemoveMount(Info(entry[1], r.path))>>
    BY <1>11, <2>1, IntentCalls
  <2>3. Takes(RemoveMount(Info(entry[1], r.path)), old)
    BY <1>5, <1>10, UnmountTakes
  <2>4. Unmounts(r, old)
    BY <1>12, <1>14, <2>1, <2>2, <2>3 DEF Unmounts
  <2> QED
    BY <1>9, <2>4
<1>15. CASE r.member = "UpdateConfigurationItem"
  <2>1. Updates(r, old, new) /\ Placed(new)
    BY <1>1, <1>9, <1>10, <1>12, <1>15 DEF Updates
  <2>2. IntentOf(r) = Update(entry[1], entry[2])
    BY <1>8, <1>15
  <2>3. /\ entry[1].mount_point = old.mount_point /\ entry[1].options = old.options
        /\ entry[2].mount_point = new.mount_point /\ entry[2].options = new.options
        /\ old.options \in Seq(Opts) /\ new.options \in Seq(Opts)
    BY <1>1, <1>2, <1>5, <1>6, <1>10, <1>15 DEF Items
  <2>4. CASE old.mount_point # new.mount_point
    <3>1. IntentOf(r) = Move(entry[1], entry[2]) /\ IntentOf(r) # None
      BY <2>2, <2>3, <2>4 DEF Update, NoneIsNothing
    <3>2. StepsOf(r) = <<RemoveMount(Info(entry[1], r.path)), ReportMount(Info(entry[2], r.path), luks)>>
      BY <1>11, <3>1, IntentCalls
    <3>3. /\ Takes(RemoveMount(Info(entry[1], r.path)), old)
          /\ Puts(ReportMount(Info(entry[2], r.path), luks), new)
      BY <1>10, <2>3, MountPuts, UnmountTakes
    <3>4. Moves(r, old, new)
      BY <2>1, <2>4, <3>1, <3>2, <3>3 DEF Moves
    <3> QED
      BY <1>9, <2>1, <3>4
  <2>5. CASE old.mount_point = new.mount_point /\ SameOptions(old.options, new.options)
    <3>1. IntentOf(r) = None
      BY <2>2, <2>3, <2>5 DEF Update
    <3>2. Reorders(r, old, new)
      BY <2>1, <2>3, <2>5, <3>1, SameOptionsSameNames DEF Reorders
    <3> QED
      BY <1>9, <2>1, <3>2
  <2>6. CASE old.mount_point = new.mount_point /\ ~SameOptions(old.options, new.options)
    <3>1. IntentOf(r) = Options(entry[1], new.options) /\ IntentOf(r) # None
      BY <2>2, <2>3, <2>6 DEF Update, NoneIsNothing
    <3>2. StepsOf(r) = <<ReportOptionsChanged(Info(entry[1], r.path), new.options)>>
      BY <1>11, <3>1, IntentCalls
    <3>3. Puts(ReportOptionsChanged(Info(entry[1], r.path), new.options), new)
      BY <1>10, <2>3, <2>6, RewritePuts
    <3>4. Rewrites(r, old, new)
      BY <2>1, <2>6, <3>1, <3>2, <3>3 DEF Rewrites
    <3> QED
      BY <1>9, <2>1, <3>4
  <2> QED
    BY <2>4, <2>5, <2>6
<1> QED
  BY <1>1, <1>13, <1>14, <1>15

\* What is declared for a mount point is what /etc/fstab has there.
Agrees(x, m, f) ==
  IF x = None THEN \A e \in f : e.mount_point # m
  ELSE \E e \in f : e.mount_point = m /\ e.path = x.disk /\ SameNames(x.options, e.options)

\* What a library call leaves declared.
Result(call) == IF call.op = "add_mount" THEN call.entry ELSE None

\* Library calls that have to do with a mount point, that leave there what /etc/fstab
\* has, that are each about another one.
Touches(left, m) == \E i \in DOMAIN left : left[i].mount_point = m
LeavesAt(left, m, f) == \A i \in DOMAIN left : left[i].mount_point = m => Agrees(Result(left[i]), m, f)
Apart(left) == \A i, j \in DOMAIN left : left[i].mount_point = left[j].mount_point => i = j

OneEntry(f) == \A d, e \in f : d.mount_point = e.mount_point => d = e

LEMMA OneCall ==
  ASSUME NEW a, NEW m, NEW f
  PROVE  /\ Touches(<<a>>, m) <=> a.mount_point = m
         /\ LeavesAt(<<a>>, m, f) <=> (a.mount_point = m => Agrees(Result(a), m, f))
         /\ Apart(<<a>>)
<1>1. DOMAIN <<a>> = {1} /\ <<a>>[1] = a
  OBVIOUS
<1> QED
  BY <1>1 DEF Touches, LeavesAt, Apart

LEMMA TwoCalls ==
  ASSUME NEW a, NEW b, NEW m, NEW f
  PROVE  /\ Touches(<<a, b>>, m) <=> a.mount_point = m \/ b.mount_point = m
         /\ LeavesAt(<<a, b>>, m, f) <=>
              /\ a.mount_point = m => Agrees(Result(a), m, f)
              /\ b.mount_point = m => Agrees(Result(b), m, f)
         /\ Apart(<<a, b>>) <=> a.mount_point # b.mount_point
<1>1. DOMAIN <<a, b>> = {1, 2} /\ <<a, b>>[1] = a /\ <<a, b>>[2] = b
  OBVIOUS
<1> DEFINE l == <<a, b>>
<1> HIDE DEF l
<1>2. /\ Touches(l, m) <=> a.mount_point = m \/ b.mount_point = m
      /\ LeavesAt(l, m, f) <=>
           /\ a.mount_point = m => Agrees(Result(a), m, f)
           /\ b.mount_point = m => Agrees(Result(b), m, f)
      /\ Apart(l) <=> a.mount_point # b.mount_point
  BY <1>1 DEF Touches, LeavesAt, Apart, l
<1> QED
  BY <1>2 DEF l

LEMMA PutAgrees ==
  ASSUME NEW a, NEW e, NEW f, Puts(a, e), e \in f
  PROVE  Agrees(Result(a), e.mount_point, f)
BY DEF Puts, Agrees, Result, SameNames

LEMMA TakenAgrees ==
  ASSUME NEW a, NEW e, NEW f, Takes(a, e), \A d \in f : d.mount_point # e.mount_point
  PROVE  Agrees(Result(a), e.mount_point, f)
BY DEF Takes, Agrees, Result

\* Nothing but the order of options has changed at a mount point.
LEMMA AgreesStill ==
  ASSUME NEW f, NEW g, NEW m, NEW x, Agrees(x, m, f),
         \A e \in f : e.mount_point = m =>
           \E d \in g : d.mount_point = m /\ d.path = e.path /\ Names(d.options) = Names(e.options),
         \A d \in g : d.mount_point = m => \E e \in f : e.mount_point = m
  PROVE  Agrees(x, m, g)
BY DEF Agrees, SameNames, Names

\* An authorised call: where its library calls lead, and what it leaves as it was.
LEMMA CallsFollowFstab ==
  ASSUME RequestsComplete, NoneIsNothing, NEW r \in Requests, NEW f, OneEntry(f), Removes(r) \subseteq f,
         \A new \in Inserts(r), e \in f \ Removes(r) : e.mount_point # new.mount_point
  PROVE  LET g == (f \ Removes(r)) \cup Inserts(r)
             asks(m) == IntentOf(r) # None /\ Touches(StepsOf(r), m)
         IN  /\ OneEntry(g)
             /\ \A m : asks(m) => LeavesAt(StepsOf(r), m, g)
             /\ \A m : ~asks(m) => \A x : Agrees(x, m, f) => Agrees(x, m, g)
<1> DEFINE g == (f \ Removes(r)) \cup Inserts(r)
           asks(m) == IntentOf(r) # None /\ Touches(StepsOf(r), m)
           Goal == /\ OneEntry(g)
                   /\ \A m : asks(m) => LeavesAt(StepsOf(r), m, g)
                   /\ \A m : ~asks(m) => \A x : Agrees(x, m, f) => Agrees(x, m, g)
<1>1. PICK old, new :
        \/ Mounts(r, new) \/ Unmounts(r, old) \/ Reorders(r, old, new) \/ Rewrites(r, old, new)
        \/ Moves(r, old, new)
  BY RequestsDo
<1>2. OneEntry(g)
  BY <1>1 DEF OneEntry, Mounts, Unmounts, Updates, Reorders, Rewrites, Moves
<1>3. CASE Mounts(r, new)
  <2>1. g = f \cup {new} /\ \A e \in f : e.mount_point # new.mount_point
    BY <1>3 DEF Mounts
  <2>2. PICK a : StepsOf(r) = <<a>> /\ Puts(a, new) /\ IntentOf(r) # None
    BY <1>3 DEF Mounts
  <2> HIDE DEF g
  <2>3. ASSUME NEW m, asks(m) PROVE LeavesAt(StepsOf(r), m, g)
    BY <2>1, <2>2, <2>3, OneCall, PutAgrees, ZenonT(40) DEF Puts
  <2>4. ASSUME NEW m, ~asks(m), NEW x, Agrees(x, m, f) PROVE Agrees(x, m, g)
    <3>1. new.mount_point # m
      BY <2>2, <2>4, OneCall DEF Puts
    <3> QED
      BY <2>1, <2>4, <3>1, AgreesStill
  <2> QED
    BY <1>2, <2>3, <2>4 DEF g
<1>4. CASE Unmounts(r, old)
  <2>1. g = f \ {old} /\ old \in f
    BY <1>4 DEF Unmounts
  <2>2. PICK a : StepsOf(r) = <<a>> /\ Takes(a, old) /\ IntentOf(r) # None
    BY <1>4 DEF Unmounts
  <2> HIDE DEF g
  <2>3. \A d \in g : d.mount_point # old.mount_point
    BY <2>1 DEF OneEntry
  <2>4. ASSUME NEW m, asks(m) PROVE LeavesAt(StepsOf(r), m, g)
    BY <2>2, <2>3, <2>4, OneCall, TakenAgrees DEF Takes
  <2>5. ASSUME NEW m, ~asks(m), NEW x, Agrees(x, m, f) PROVE Agrees(x, m, g)
    <3>1. old.mount_point # m
      BY <2>2, <2>5, OneCall DEF Takes
    <3> QED
      BY <2>1, <2>5, <3>1, AgreesStill
  <2> QED
    BY <1>2, <2>4, <2>5 DEF g
<1>5. CASE Reorders(r, old, new)
  <2>1. /\ g = (f \ {old}) \cup {new} /\ old \in f /\ IntentOf(r) = None
        /\ new.mount_point = old.mount_point /\ new.path = old.path
        /\ Names(new.options) = Names(old.options)
    BY <1>5 DEF Reorders, Updates
  <2> HIDE DEF g
  <2>2. ASSUME NEW m, NEW x, Agrees(x, m, f) PROVE Agrees(x, m, g)
    <3>1. \A e \in f : e.mount_point = m =>
            \E d \in g : d.mount_point = m /\ d.path = e.path /\ Names(d.options) = Names(e.options)
      BY <2>1
    <3>2. \A d \in g : d.mount_point = m => \E e \in f : e.mount_point = m
      BY <2>1
    <3> QED
      BY <2>2, <3>1, <3>2, AgreesStill
  <2> QED
    BY <1>2, <2>1, <2>2 DEF g
<1>6. CASE Rewrites(r, old, new)
  <2>1. g = (f \ {old}) \cup {new} /\ old \in f /\ new.mount_point = old.mount_point
    BY <1>6 DEF Rewrites, Updates
  <2>2. PICK a : StepsOf(r) = <<a>> /\ Puts(a, new) /\ IntentOf(r) # None
    BY <1>6 DEF Rewrites
  <2> HIDE DEF g
  <2>3. ASSUME NEW m, asks(m) PROVE LeavesAt(StepsOf(r), m, g)
    <3>1. Agrees(Result(a), new.mount_point, g)
      BY <2>1, <2>2, PutAgrees
    <3> QED
      BY <2>2, <3>1, OneCall DEF Puts
  <2>4. ASSUME NEW m, ~asks(m), NEW x, Agrees(x, m, f) PROVE Agrees(x, m, g)
    <3>1. new.mount_point # m
      BY <2>2, <2>4, OneCall DEF Puts
    <3> QED
      BY <2>1, <2>4, <3>1, AgreesStill
  <2> QED
    BY <1>2, <2>3, <2>4 DEF g
<1>7. CASE Moves(r, old, new)
  <2>1. g = (f \ {old}) \cup {new} /\ old \in f /\ new.mount_point # old.mount_point
    BY <1>7 DEF Moves, Updates
  <2>2. PICK a, b : StepsOf(r) = <<a, b>> /\ Takes(a, old) /\ Puts(b, new) /\ IntentOf(r) # None
    BY <1>7 DEF Moves
  <2> HIDE DEF g
  <2>3. \A d \in g : d.mount_point # old.mount_point
    BY <2>1 DEF OneEntry
  <2>4. ASSUME NEW m, asks(m) PROVE LeavesAt(StepsOf(r), m, g)
    <3>1. Agrees(Result(a), old.mount_point, g) /\ Agrees(Result(b), new.mount_point, g)
      BY <2>1, <2>2, <2>3, PutAgrees, TakenAgrees
    <3> QED
      BY <2>2, <3>1, TwoCalls DEF Puts, Takes
  <2>5. ASSUME NEW m, ~asks(m), NEW x, Agrees(x, m, f) PROVE Agrees(x, m, g)
    <3>1. old.mount_point # m /\ new.mount_point # m
      BY <2>2, <2>5, TwoCalls DEF Puts, Takes
    <3> QED
      BY <2>1, <2>5, <3>1, AgreesStill
  <2> QED
    BY <1>2, <2>4, <2>5 DEF g
<1>8. Goal
  BY <1>1, <1>3, <1>4, <1>5, <1>6, <1>7
<1> QED
  BY <1>8

\* The library calls of a request are about mount points there are, each about another.
LEMMA CallsApart ==
  ASSUME RequestsComplete, NoneIsNothing, NEW r \in Requests, IntentOf(r) # None
  PROVE  /\ Apart(StepsOf(r))
         /\ \A m : Touches(StepsOf(r), m) => m \in MountPoints
<1>1. PICK old, new :
        /\ Placed(old) /\ Placed(new)
        /\ Mounts(r, new) \/ Unmounts(r, old) \/ Reorders(r, old, new) \/ Rewrites(r, old, new)
           \/ Moves(r, old, new)
  BY RequestsDo
<1>2. ASSUME NEW a, StepsOf(r) = <<a>>, Puts(a, new) \/ Takes(a, old)
      PROVE  Apart(StepsOf(r)) /\ \A m : Touches(StepsOf(r), m) => m \in MountPoints
  BY <1>1, <1>2, OneCall DEF Puts, Takes, Placed
<1>3. ASSUME NEW a, NEW b, StepsOf(r) = <<a, b>>, Takes(a, old), Puts(b, new),
             old.mount_point # new.mount_point
      PROVE  Apart(StepsOf(r)) /\ \A m : Touches(StepsOf(r), m) => m \in MountPoints
  BY <1>1, <1>3, TwoCalls DEF Puts, Takes, Placed
<1> QED
  BY <1>1, <1>2, <1>3 DEF Mounts, Unmounts, Reorders, Rewrites, Moves

--------------------------------------------------------------------------------
(* The replies that are still to be read, of the calls of a set *)

UnreadIn(s, B) == \E c \in B : Unread(s, "return", c)

\* The last of them is of this call.
LastIn(s, B, c) ==
  \E i \in 1 .. Len(s) :
    /\ s[i].type = "return" /\ s[i].call = c /\ c \in B
    /\ \A j \in 1 .. Len(s) : j > i /\ s[j].type = "return" => s[j].call \notin B

\* A call is delivered before its reply.
CallFirst(s, c) ==
  \A i, j \in 1 .. Len(s) :
    s[i].type = "call" /\ s[j].type # "call" /\ s[i].call = c /\ s[j].call = c => i < j

LEMMA LastIsUnread ==
  ASSUME NEW s, NEW B, NEW c, LastIn(s, B, c) PROVE c \in B /\ Unread(s, "return", c)
BY DEF LastIn, Unread

\* Only the calls with a reply there matter.
LEMMA LastOfOthers ==
  ASSUME NEW s, NEW B, NEW D, \A c : Unread(s, "return", c) => (c \in B <=> c \in D)
  PROVE  \A c : LastIn(s, B, c) <=> LastIn(s, D, c)
BY DEF LastIn, Unread

LEMMA LastOfRest ==
  ASSUME NEW s \in Seq(Messages), s # <<>>, NEW B
  PROVE  /\ \A c : LastIn(Tail(s), B, c) => LastIn(s, B, c)
         /\ Head(s).type = "return" /\ Head(s).call \in B /\ ~UnreadIn(Tail(s), B)
              => LastIn(s, B, Head(s).call)
         /\ \A c : CallFirst(s, c) => CallFirst(Tail(s), c)
         /\ CallFirst(s, Head(s).call) /\ Head(s).type # "call" => ~Unread(s, "call", Head(s).call)
<1> DEFINE t == Tail(s)
<1>1. /\ Head(s) = s[1] /\ Len(s) \in Nat \ {0} /\ Len(t) = Len(s) - 1
      /\ \A i \in 1 .. Len(t) : t[i] = s[i + 1]
  OBVIOUS
<1> HIDE DEF t
<1>2. ASSUME NEW i \in 1 .. Len(t) PROVE i \in Nat /\ i + 1 \in 1 .. Len(s) /\ s[i + 1] = t[i]
  BY <1>1
<1>3. ASSUME NEW i \in 1 .. Len(s), i # 1
      PROVE  i \in Nat /\ i - 1 \in 1 .. Len(t) /\ s[i] = t[i - 1]
  <2>1. i \in Nat /\ i - 1 \in 1 .. Len(t) /\ (i - 1) + 1 = i
    BY <1>1, <1>3
  <2> QED
    BY <1>1, <2>1
<1>4. 1 \in 1 .. Len(s)
  BY <1>1
<1>5. ASSUME NEW c, LastIn(t, B, c) PROVE LastIn(s, B, c)
  <2>1. PICK i \in 1 .. Len(t) :
          /\ t[i].type = "return" /\ t[i].call = c /\ c \in B
          /\ \A j \in 1 .. Len(t) : j > i /\ t[j].type = "return" => t[j].call \notin B
    BY <1>5 DEF LastIn
  <2>2. ASSUME NEW j \in 1 .. Len(s), j > i + 1, s[j].type = "return" PROVE s[j].call \notin B
    <3>1. j # 1 /\ i \in Nat /\ j \in Nat
      BY <1>2, <2>2
    <3>2. j - 1 \in 1 .. Len(t) /\ s[j] = t[j - 1]
      BY <1>3, <3>1
    <3>3. j - 1 > i
      BY <2>2, <3>1
    <3> QED
      BY <2>1, <2>2, <3>2, <3>3
  <2>3. i + 1 \in 1 .. Len(s) /\ s[i + 1].type = "return" /\ s[i + 1].call = c
    BY <1>2, <2>1
  <2> QED
    BY <2>1, <2>2, <2>3 DEF LastIn
<1>6. ASSUME Head(s).type = "return", Head(s).call \in B, ~UnreadIn(t, B)
      PROVE  LastIn(s, B, Head(s).call)
  <2>1. ASSUME NEW j \in 1 .. Len(s), j > 1, s[j].type = "return" PROVE s[j].call \notin B
    <3>1. j - 1 \in 1 .. Len(t) /\ s[j] = t[j - 1]
      BY <1>3, <2>1
    <3> QED
      BY <1>6, <2>1, <3>1 DEF UnreadIn, Unread
  <2> QED
    BY <1>1, <1>4, <1>6, <2>1 DEF LastIn
<1>7. ASSUME NEW c, CallFirst(s, c) PROVE CallFirst(t, c)
  <2> SUFFICES ASSUME NEW i \in 1 .. Len(t), NEW j \in 1 .. Len(t), t[i].type = "call",
                      t[j].type # "call", t[i].call = c, t[j].call = c
               PROVE  i < j
    BY DEF CallFirst
  <2>1. i \in Nat /\ j \in Nat /\ i + 1 < j + 1
    BY <1>2, <1>7 DEF CallFirst
  <2> QED
    BY <2>1
<1>8. ASSUME CallFirst(s, Head(s).call), Head(s).type # "call", NEW i \in 1 .. Len(s),
             s[i].type = "call", s[i].call = Head(s).call
      PROVE  FALSE
  <2>1. i < 1
    BY <1>1, <1>4, <1>8 DEF CallFirst
  <2> QED
    BY <2>1
<1> QED
  BY <1>5, <1>6, <1>7, <1>8 DEF t, Unread

LEMMA LastWithMore ==
  ASSUME NEW s \in Seq(Messages), NEW m \in Messages, NEW B
  PROVE  /\ \A c : LastIn(Append(s, m), B, c) =>
              IF m.type = "return" /\ m.call \in B THEN c = m.call ELSE LastIn(s, B, c)
         /\ \A c : CallFirst(s, c) /\ (m.type = "call" /\ m.call = c => \A t : ~Unread(s, t, c))
              => CallFirst(Append(s, m), c)
<1> DEFINE e == Append(s, m)
           n == Len(s)
<1>1. /\ n \in Nat /\ Len(e) = n + 1 /\ e[n + 1] = m
      /\ \A i \in 1 .. n : e[i] = s[i]
  OBVIOUS
<1> HIDE DEF e
<1>2. \A i \in 1 .. Len(e) : i \in 1 .. n \/ i = n + 1
  BY <1>1
<1>3. n + 1 \in 1 .. Len(e) /\ \A i \in 1 .. n : i \in 1 .. Len(e) /\ i < n + 1 /\ ~(n + 1 < i)
  BY <1>1
<1> HIDE DEF n
<1>4. ASSUME NEW c, LastIn(e, B, c)
      PROVE  IF m.type = "return" /\ m.call \in B THEN c = m.call ELSE LastIn(s, B, c)
  <2>1. PICK i \in 1 .. Len(e) :
          /\ e[i].type = "return" /\ e[i].call = c /\ c \in B
          /\ \A j \in 1 .. Len(e) : j > i /\ e[j].type = "return" => e[j].call \notin B
    BY <1>4 DEF LastIn
  <2>2. CASE i = n + 1
    BY <1>1, <2>1, <2>2
  <2>3. CASE i \in 1 .. n
    <3>1. n + 1 > i
      BY <1>1, <2>3 DEF n
    <3>2. ~(m.type = "return" /\ m.call \in B)
      BY <1>1, <1>3, <2>1, <3>1
    <3>3. /\ s[i].type = "return" /\ s[i].call = c /\ c \in B
          /\ \A j \in 1 .. n : j > i /\ s[j].type = "return" => s[j].call \notin B
      BY <1>1, <1>3, <2>1, <2>3
    <3> QED
      BY <2>3, <3>2, <3>3 DEF LastIn, n
  <2> QED
    BY <1>2, <2>2, <2>3
<1>5. ASSUME NEW c, CallFirst(s, c), m.type = "call" /\ m.call = c => \A t : ~Unread(s, t, c)
      PROVE  CallFirst(e, c)
  <2> SUFFICES ASSUME NEW i \in 1 .. Len(e), NEW j \in 1 .. Len(e), e[i].type = "call",
                      e[j].type # "call", e[i].call = c, e[j].call = c
               PROVE  i < j
    BY DEF CallFirst
  <2>1. CASE i \in 1 .. n /\ j \in 1 .. n
    BY <1>1, <1>5, <2>1 DEF CallFirst, n
  <2>2. CASE i \in 1 .. n /\ j = n + 1
    BY <1>3, <2>2
  <2>3. CASE i = n + 1 /\ j \in 1 .. n
    <3>1. Unread(s, s[j].type, c)
      BY <1>1, <2>3 DEF Unread, n
    <3> QED
      BY <1>1, <1>5, <2>3, <3>1
  <2>4. CASE i = n + 1 /\ j = n + 1
    BY <2>4
  <2> QED
    BY <1>2, <2>1, <2>2, <2>3, <2>4
<1> QED
  BY <1>4, <1>5 DEF e

--------------------------------------------------------------------------------
(* The configuration lags behind /etc/fstab by what is still to be read, and by the report *)

Asks(c) == answer[c] # "unsent" /\ IntentOf(request[c]) # None

\* The calls that ask for something at a mount point.
Touching(m) == {c \in Calls : Asks(c) /\ Touches(StepsOf(request[c]), m)}

RequestedOfThese == \A c \in Calls : answer[c] # "unsent" => request[c] \in Requests
ErrorsAreTrue == \A c \in Calls : Unread(stream, "error", c) => answer[c] = "refused"
CallsFirst == \A c \in Calls : CallFirst(stream, c)

ParkedAsAsked ==
  \A s \in DOMAIN pending :
    LET r == request[pending[s].call] IN pending[s].path = r.path /\ pending[s].intent = IntentOf(r)

ReportApart ==
  report # None => Apart(report.left) /\ \A m : Touches(report.left, m) => m \in MountPoints

\* What a call asked for is found in the table when its success is read, or it is lost.
Traced ==
  \A c \in Calls :
    Asks(c) /\ (answer[c] = "awaited" \/ Unread(stream, "return", c)) =>
      Unread(stream, "call", c) \/ InTable(c) \/ c \in lost

\* The last success to be read at a mount point leads to what /etc/fstab has there.
LastReturnTells ==
  \A m \in MountPoints, c \in Calls :
    LastIn(stream, Touching(m), c) => LeavesAt(StepsOf(request[c]), m, fstab)

\* Where there is none to be read, the report leads there, or it has been there already.
BehindAt(m) ==
  ~UnreadIn(stream, Touching(m)) =>
    IF report # None /\ Touches(report.left, m) THEN LeavesAt(report.left, m, fstab)
    ELSE Agrees(declared[m], m, fstab)

BehindByReport == Missed = {} => \A m \in MountPoints : BehindAt(m)

GInv ==
  /\ RequestedOfThese /\ OneEntry(fstab) /\ ErrorsAreTrue /\ CallsFirst
  /\ ParkedAsAsked /\ ReportApart
  /\ Traced /\ LastReturnTells /\ BehindByReport

DInv == MInv /\ FInv /\ GInv

LEMMA UnsentIsNowhere ==
  ASSUME DInv, NEW c \in Calls, answer[c] = "unsent"
  PROVE  /\ \A t : ~Unread(stream, t, c)
         /\ ~InTable(c) /\ c \notin lost
<1>1. stream \in Seq(Messages) /\ Fate(c)
  BY DEF DInv, FInv, FateTypes
<1>2. ASSUME NEW i \in 1 .. Len(stream) PROVE stream[i].type \in {"call", "return", "error"}
  <2>1. stream[i] \in Messages
    BY <1>1
  <2> QED
    BY <2>1 DEF Messages
<1>3. ~Unread(stream, "call", c) /\ ~InTable(c) /\ c \notin lost
  BY <1>1 DEF Fate
<1>4. ~Unread(stream, "return", c)
  BY DEF DInv, MInv, RepliesAreTrue, UnreadReturn, Unread
<1>5. ~Unread(stream, "error", c)
  BY DEF DInv, GInv, ErrorsAreTrue
<1> QED
  BY <1>2, <1>3, <1>4, <1>5 DEF Unread

LEMMA SendFollows == ASSUME DInv, NEW c \in Calls, NEW r \in Requests, Send(c, r) PROVE GInv'
<1> DEFINE msg == [type |-> "call", call |-> c]
<1>1. /\ answer[c] = "unsent" /\ request' = [request EXCEPT ![c] = r]
      /\ answer' = [answer EXCEPT ![c] = "awaited"] /\ stream' = Append(stream, msg)
      /\ UNCHANGED <<fstab, pending, clock, report, declared, reported, lost>>
  BY DEF Send
<1>2. msg \in Messages /\ msg.type = "call" /\ msg.call = c /\ stream \in Seq(Messages)
  BY DEF Messages, DInv, FInv, FateTypes
<1> HIDE DEF msg
<1>3. /\ request'[c] = r /\ answer'[c] = "awaited"
      /\ \A b \in Calls \ {c} : request'[b] = request[b] /\ answer'[b] = answer[b]
  BY <1>1 DEF DInv, FInv, FateTypes
<1>4. /\ \A t, b : Unread(stream', t, b) <=> Unread(stream, t, b) \/ (t = "call" /\ b = c)
      /\ \A B, b : LastIn(stream', B, b) => LastIn(stream, B, b)
      /\ \A b : CallFirst(stream, b) /\ (b = c => \A t : ~Unread(stream, t, b)) => CallFirst(stream', b)
  BY <1>1, <1>2, AppendedMessages, LastWithMore
<1>5. (\A t : ~Unread(stream, t, c)) /\ ~InTable(c) /\ c \notin lost
  BY <1>1, UnsentIsNowhere
<1>6. \A b \in Calls \ {c} : Asks(b)' <=> Asks(b)
  BY <1>3 DEF Asks
<1>7. \A m : \A b \in Calls \ {c} : b \in Touching(m)' <=> b \in Touching(m)
  BY <1>3, <1>6 DEF Touching
<1>8. RequestedOfThese' /\ OneEntry(fstab)' /\ ErrorsAreTrue' /\ CallsFirst'
  BY <1>1, <1>3, <1>4, <1>5 DEF DInv, GInv, RequestedOfThese, ErrorsAreTrue, CallsFirst
<1>9. ParkedAsAsked'
  <2>1. \A s \in DOMAIN pending : pending[s].call \in Calls \ {c}
    BY <1>5 DEF InTable, DInv, FInv, FateTypes
  <2> QED
    BY <1>1, <1>3, <2>1 DEF DInv, GInv, ParkedAsAsked
<1>10. ReportApart'
  BY <1>1 DEF DInv, GInv, ReportApart
<1>11. Traced'
  <2>1. \A b \in Calls : InTable(b)' <=> InTable(b)
    BY <1>1 DEF InTable
  <2> QED
    BY <1>1, <1>3, <1>4, <1>5, <1>6, <2>1 DEF DInv, GInv, Traced
<1>12. LastReturnTells'
  <2> SUFFICES ASSUME NEW m \in MountPoints, NEW b \in Calls, LastIn(stream', Touching(m)', b)
               PROVE  LeavesAt(StepsOf(request'[b]), m, fstab')
    BY DEF LastReturnTells
  <2>1. LastIn(stream, Touching(m)', b)
    BY <1>4
  <2>2. \A a : Unread(stream, "return", a) => (a \in Touching(m)' <=> a \in Touching(m))
    BY <1>5, <1>7 DEF Touching
  <2>3. LastIn(stream, Touching(m), b)
    BY <2>1, <2>2, LastOfOthers
  <2>4. b # c
    BY <1>5, <2>1, LastIsUnread
  <2> QED
    BY <1>1, <1>3, <2>3, <2>4 DEF DInv, GInv, LastReturnTells
<1>13. BehindByReport'
  <2>1. ASSUME Missed' = {} PROVE Missed = {}
    BY <1>1, <1>3, <2>1 DEF Missed
  <2>2. ASSUME NEW m \in MountPoints, BehindAt(m) PROVE BehindAt(m)'
    <3>1. UnreadIn(stream, Touching(m)) => UnreadIn(stream', Touching(m)')
      <4>1. \A b \in Touching(m) : Unread(stream, "return", b) => b \in Calls \ {c}
        BY <1>5 DEF Touching
      <4> QED
        BY <1>4, <1>7, <4>1 DEF UnreadIn
    <3> QED
      BY <1>1, <2>2, <3>1 DEF BehindAt
  <2> QED
    BY <2>1, <2>2 DEF BehindByReport, DInv, GInv
<1> QED
  BY <1>8, <1>9, <1>10, <1>11, <1>12, <1>13 DEF GInv

\* A reply goes out, and what UDisks2 has made of the call is known.
LEMMA ReplyFollows ==
  ASSUME RequestsComplete, NoneIsNothing, DInv, NEW c \in Calls, Authorise(c) \/ Refuse(c)
  PROVE  GInv'
<1> DEFINE r == request[c]
<1>1. PICK msg \in Messages :
        /\ msg.call = c /\ stream' = Append(stream, msg)
        /\ \/ msg.type = "return" /\ answer' = [answer EXCEPT ![c] = "authorised"] /\ Authorise(c)
           \/ msg.type = "error" /\ answer' = [answer EXCEPT ![c] = "refused"] /\ UNCHANGED fstab
  <2>1. \A type \in {"return", "error"} : [type |-> type, call |-> c] \in Messages
    BY DEF Messages
  <2> QED
    BY <2>1 DEF Authorise, Refuse, Reply
<1>2. /\ answer[c] = "awaited" /\ UNCHANGED <<request, pending, clock, report, declared, reported, lost>>
      /\ stream \in Seq(Messages) /\ r \in Requests
  BY DEF Authorise, Refuse, Reply, DInv, FInv, FateTypes, GInv, RequestedOfThese
<1>3. /\ answer'[c] = IF msg.type = "return" THEN "authorised" ELSE "refused"
      /\ \A b \in Calls \ {c} : answer'[b] = answer[b]
  BY <1>1 DEF DInv, FInv, FateTypes
<1>4. /\ \A t, b : Unread(stream', t, b) <=> Unread(stream, t, b) \/ (t = msg.type /\ b = c)
      /\ \A B, b : LastIn(stream', B, b) =>
           IF msg.type = "return" /\ c \in B THEN b = c ELSE LastIn(stream, B, b)
      /\ \A b : CallFirst(stream, b) => CallFirst(stream', b)
  BY <1>1, <1>2, AppendedMessages, LastWithMore
<1>5. /\ \A b \in Calls : Asks(b)' <=> Asks(b)
      /\ \A m : Touching(m)' = Touching(m)
  BY <1>2, <1>3 DEF Asks, Touching
<1>6. /\ OneEntry(fstab')
      /\ \A m : c \in Touching(m) /\ msg.type = "return" => LeavesAt(StepsOf(r), m, fstab')
      /\ \A m : c \notin Touching(m) \/ msg.type # "return" => \A x : Agrees(x, m, fstab) => Agrees(x, m, fstab')
  <2>1. CASE msg.type = "error"
    BY <1>1, <2>1 DEF DInv, GInv
  <2>2. CASE msg.type = "return"
    <3> DEFINE asks(m) == IntentOf(r) # None /\ Touches(StepsOf(r), m)
    <3>1. /\ fstab' = (fstab \ Removes(r)) \cup Inserts(r) /\ Removes(r) \subseteq fstab
          /\ \A new \in Inserts(r), e \in fstab \ Removes(r) : e.mount_point # new.mount_point
      BY <1>1, <2>2 DEF Authorise, Applicable
    <3>2. OneEntry(fstab)
      BY DEF DInv, GInv
    <3> HIDE DEF r
    <3>3. /\ OneEntry(fstab')
          /\ \A m : asks(m) => LeavesAt(StepsOf(r), m, fstab')
          /\ \A m : ~asks(m) => \A x : Agrees(x, m, fstab) => Agrees(x, m, fstab')
      BY <1>2, <3>1, <3>2, CallsFollowFstab
    <3>4. \A m : c \in Touching(m) <=> asks(m)
      BY <1>2 DEF Touching, Asks, r
    <3> QED
      BY <2>2, <3>3, <3>4
  <2> QED
    BY <1>1, <2>1, <2>2
<1>7. RequestedOfThese' /\ ErrorsAreTrue' /\ CallsFirst' /\ ParkedAsAsked' /\ ReportApart'
  <2>1. RequestedOfThese' /\ CallsFirst' /\ ParkedAsAsked' /\ ReportApart'
    BY <1>2, <1>3, <1>4 DEF DInv, GInv, RequestedOfThese, CallsFirst, ParkedAsAsked, ReportApart
  <2>2. ErrorsAreTrue'
    BY <1>1, <1>2, <1>3, <1>4 DEF DInv, GInv, ErrorsAreTrue
  <2> QED
    BY <2>1, <2>2
<1>8. Traced'
  <2> SUFFICES ASSUME NEW b \in Calls, Asks(b)', (answer[b] = "awaited")' \/ Unread(stream', "return", b)
               PROVE  Unread(stream', "call", b) \/ InTable(b)' \/ b \in lost'
    BY DEF Traced
  <2>1. Unread(stream, "call", b) \/ InTable(b) \/ b \in lost
    BY <1>1, <1>2, <1>3, <1>4, <1>5 DEF DInv, GInv, Traced
  <2> QED
    BY <1>2, <1>4, <2>1 DEF InTable
<1>9. LastReturnTells'
  <2> SUFFICES ASSUME NEW m \in MountPoints, NEW b \in Calls, LastIn(stream', Touching(m)', b)
               PROVE  LeavesAt(StepsOf(request'[b]), m, fstab')
    BY DEF LastReturnTells
  <2>1. CASE msg.type = "return" /\ c \in Touching(m)
    BY <1>2, <1>4, <1>5, <1>6, <2>1
  <2>2. CASE ~(msg.type = "return" /\ c \in Touching(m))
    <3>1. LastIn(stream, Touching(m), b)
      BY <1>4, <1>5, <2>2
    <3>2. LeavesAt(StepsOf(request[b]), m, fstab)
      BY <3>1 DEF DInv, GInv, LastReturnTells
    <3> QED
      BY <1>2, <1>6, <2>2, <3>2 DEF LeavesAt
  <2> QED
    BY <2>1, <2>2
<1>10. BehindByReport'
  <2>1. ASSUME Missed' = {} PROVE Missed = {}
    BY <1>2, <1>3, <2>1 DEF Missed, DInv, FInv, FateTypes
  <2>2. ASSUME NEW m \in MountPoints, BehindAt(m) PROVE BehindAt(m)'
    <3>1. CASE msg.type = "return" /\ c \in Touching(m)
      BY <1>4, <1>5, <3>1 DEF BehindAt, UnreadIn
    <3>2. CASE ~(msg.type = "return" /\ c \in Touching(m))
      <4>1. UnreadIn(stream, Touching(m)) => UnreadIn(stream', Touching(m)')
        BY <1>4, <1>5 DEF UnreadIn
      <4>2. \A x : Agrees(x, m, fstab) => Agrees(x, m, fstab')
        BY <1>6, <3>2
      <4>3. \A left : LeavesAt(left, m, fstab) => LeavesAt(left, m, fstab')
        BY <4>2 DEF LeavesAt
      <4> QED
        BY <1>2, <2>2, <4>1, <4>2, <4>3 DEF BehindAt
    <3> QED
      BY <3>1, <3>2
  <2> QED
    BY <2>1, <2>2 DEF BehindByReport, DInv, GInv
<1> QED
  BY <1>6, <1>7, <1>8, <1>9, <1>10 DEF GInv

\* A message is read: what does not depend on what becomes of it.
LEMMA ReadFollows ==
  ASSUME DInv, NEW type, Read(type)
  PROVE  /\ stream \in Seq(Messages) /\ stream # <<>> /\ Head(stream).type = type
         /\ Head(stream).call \in Calls /\ report = None
         /\ UNCHANGED <<request, answer, fstab, declared>>
         /\ \A t, c : Unread(stream, t, c) <=> Unread(stream', t, c) \/ (type = t /\ Head(stream).call = c)
         /\ \A m : Touching(m)' = Touching(m)
         /\ RequestedOfThese' /\ OneEntry(fstab)' /\ ErrorsAreTrue' /\ CallsFirst' /\ LastReturnTells'
<1>1. /\ stream \in Seq(Messages) /\ stream # <<>> /\ stream' = Tail(stream) /\ Head(stream).type = type
      /\ report = None /\ UNCHANGED <<request, answer, fstab, declared>>
  BY DEF DInv, FInv, FateTypes, Read, udisks
<1>2. /\ Head(stream) \in Messages
      /\ \A t, c : Unread(stream, t, c) <=> Unread(stream', t, c) \/ (Head(stream).type = t /\ Head(stream).call = c)
      /\ \A B, c : LastIn(stream', B, c) => LastIn(stream, B, c)
      /\ \A c : CallFirst(stream, c) => CallFirst(stream', c)
  BY <1>1, TailMessages, LastOfRest
<1>3. Head(stream).call \in Calls
  BY <1>2 DEF Messages
<1>4. \A m : Touching(m)' = Touching(m)
  BY <1>1 DEF Touching, Asks
<1>5. RequestedOfThese' /\ OneEntry(fstab)' /\ ErrorsAreTrue' /\ CallsFirst'
  BY <1>1, <1>2 DEF DInv, GInv, RequestedOfThese, ErrorsAreTrue, CallsFirst
<1>6. LastReturnTells'
  BY <1>1, <1>2, <1>4 DEF DInv, GInv, LastReturnTells
<1> QED
  BY <1>1, <1>2, <1>3, <1>4, <1>5, <1>6

\* A message that is no success is read: the configuration is as far behind as before.
LEMMA StillBehind ==
  ASSUME DInv, NEW type, Read(type), type # "return", report' = None, lost \subseteq lost'
  PROVE  BehindByReport'
<1>1. /\ report = None /\ UNCHANGED <<answer, fstab, declared>>
      /\ \A c : Unread(stream, "return", c) <=> Unread(stream', "return", c)
      /\ \A m : Touching(m)' = Touching(m)
  BY ReadFollows
<1>2. ASSUME Missed' = {} PROVE Missed = {}
  BY <1>1, <1>2 DEF Missed
<1>3. ASSUME NEW m \in MountPoints, BehindAt(m) PROVE BehindAt(m)'
  BY <1>1, <1>3 DEF BehindAt, UnreadIn
<1> QED
  BY <1>2, <1>3 DEF BehindByReport, DInv, GInv

LEMMA ParkFollows == ASSUME DistinctSerials, DInv, Park PROVE GInv'
<1> DEFINE c == Head(stream).call
<1>1. PICK keep \in SUBSET DOMAIN pending :
        /\ DOMAIN pending' = keep \cup {Serial[c]}
        /\ pending'[Serial[c]] =
             [call |-> c, path |-> request[c].path, intent |-> IntentOf(request[c]), at |-> clock]
        /\ \A s \in keep \ {Serial[c]} : pending'[s] = pending[s]
        /\ lost' = lost \cup {pending[s].call : s \in DOMAIN pending \ keep}
  BY ParkedTable DEF DInv, FInv
<1>2. Read("call") /\ report' = report
  BY DEF Park
<1>3. /\ c \in Calls /\ report = None /\ UNCHANGED <<request, answer>>
      /\ \A t, b : Unread(stream, t, b) <=> Unread(stream', t, b) \/ (t = "call" /\ c = b)
      /\ RequestedOfThese' /\ OneEntry(fstab)' /\ ErrorsAreTrue' /\ CallsFirst' /\ LastReturnTells'
  BY <1>2, ReadFollows
<1> HIDE DEF c
<1>4. /\ pending'[Serial[c]].call = c /\ pending'[Serial[c]].path = request[c].path
      /\ pending'[Serial[c]].intent = IntentOf(request[c])
  BY <1>1
<1>5. ParkedAsAsked'
  BY <1>1, <1>3, <1>4 DEF ParkedAsAsked, DInv, GInv
<1>6. Traced'
  <2>1. PICK b \in Calls : b = c
    BY <1>3
  <2>2. InTable(b)'
    BY <1>1, <1>4, <2>1 DEF InTable
  <2>3. ASSUME NEW a \in Calls \ {b}, InTable(a) PROVE InTable(a)' \/ a \in lost'
    <3>1. PICK s \in DOMAIN pending : pending[s].call = a
      BY <2>3 DEF InTable
    <3>2. s # Serial[c]
      BY <1>3, <2>1, <3>1 DEF DistinctSerials, DInv, MInv, ParkedBySerial
    <3>3. CASE s \in keep
      BY <1>1, <3>1, <3>2, <3>3 DEF InTable
    <3>4. CASE s \notin keep
      BY <1>1, <3>1, <3>4
    <3> QED
      BY <3>3, <3>4
  <2>4. \A a \in Calls : Asks(a)' => Asks(a)
    BY <1>3 DEF Asks
  <2>5. lost \subseteq lost'
    BY <1>1
  <2> QED
    BY <1>3, <2>1, <2>2, <2>3, <2>4, <2>5 DEF Traced, DInv, GInv
<1>7. ReportApart'
  BY <1>2, <1>3 DEF ReportApart
<1>8. BehindByReport'
  BY <1>1, <1>2, <1>3, StillBehind
<1> QED
  BY <1>3, <1>5, <1>6, <1>7, <1>8 DEF GInv

LEMMA IgnoreFollows == ASSUME DInv, Ignore PROVE GInv'
<1> DEFINE c == Head(stream).call
<1>1. Read("call") /\ IntentOf(request[c]) = None /\ UNCHANGED <<pending, report, lost>>
  BY DEF Ignore
<1>2. /\ report = None /\ UNCHANGED <<request, answer>>
      /\ \A t, b : Unread(stream, t, b) <=> Unread(stream', t, b) \/ (t = "call" /\ c = b)
      /\ RequestedOfThese' /\ OneEntry(fstab)' /\ ErrorsAreTrue' /\ CallsFirst' /\ LastReturnTells'
  BY <1>1, ReadFollows
<1> HIDE DEF c
<1>3. ParkedAsAsked' /\ ReportApart'
  BY <1>1, <1>2 DEF ParkedAsAsked, ReportApart, DInv, GInv
<1>4. Traced'
  <2>1. \A b \in Calls : (Asks(b)' => Asks(b) /\ b # c) /\ (InTable(b)' <=> InTable(b))
    BY <1>1, <1>2 DEF Asks, InTable
  <2> QED
    BY <1>1, <1>2, <2>1 DEF Traced, DInv, GInv
<1>5. BehindByReport'
  BY <1>1, <1>2, StillBehind
<1> QED
  BY <1>2, <1>3, <1>4, <1>5 DEF GInv

\* A reply is read: what is parked stays, but for the call it answers.
LEMMA TakeFollows ==
  ASSUME DistinctSerials, DInv, NEW type \in {"return", "error"}, Take(type), lost' = lost
  PROVE  ParkedAsAsked' /\ Traced'
<1> DEFINE c == Head(stream).call
           k == Serial[c]
<1>1. /\ Read(type) /\ DOMAIN pending' = DOMAIN pending \ {k}
      /\ \A s \in DOMAIN pending \ {k} : pending'[s] = pending[s]
  BY DEF Take
<1>2. /\ c \in Calls /\ UNCHANGED <<request, answer>>
      /\ \A t, b : Unread(stream, t, b) <=> Unread(stream', t, b) \/ (type = t /\ c = b)
      /\ stream \in Seq(Messages) /\ stream # <<>> /\ Head(stream).type = type /\ stream' = Tail(stream)
  BY <1>1, ReadFollows DEF Read
<1> HIDE DEF c
<1>3. ParkedAsAsked'
  BY <1>1, <1>2 DEF ParkedAsAsked, DInv, GInv
<1>4. ~Unread(stream', "return", c) /\ answer[c] # "awaited"
  <2>1. answer[c] = IF type = "return" THEN "authorised" ELSE "refused"
    <3>1. Unread(stream, type, c)
      BY <1>2
    <3> QED
      BY <1>2, <3>1 DEF DInv, MInv, RepliesAreTrue, UnreadReturn, Unread, GInv, ErrorsAreTrue
  <2>2. type = "return" => ~Unread(stream', "return", c)
    <3>1. OnceEach(stream, "return")
      BY DEF DInv, MInv, RepliesAreTrue, OnceEach
    <3> QED
      BY <1>2, <3>1, TailMessages DEF c
  <2>3. type = "error" => ~Unread(stream, "return", c)
    BY <1>2, <2>1 DEF DInv, MInv, RepliesAreTrue, UnreadReturn, Unread
  <2> QED
    BY <1>2, <2>1, <2>2, <2>3
<1>5. ASSUME NEW b \in Calls \ {c}, InTable(b) PROVE InTable(b)'
  <2>1. PICK s \in DOMAIN pending : pending[s].call = b
    BY <1>5 DEF InTable
  <2>2. s # k
    BY <1>2, <2>1 DEF DistinctSerials, DInv, MInv, ParkedBySerial
  <2> QED
    BY <1>1, <2>1, <2>2 DEF InTable
<1>6. Traced'
  <2>1. \A b \in Calls : Asks(b)' => Asks(b)
    BY <1>2 DEF Asks
  <2> QED
    BY <1>2, <1>4, <1>5, <2>1 DEF Traced, DInv, GInv
<1> QED
  BY <1>3, <1>6

LEMMA RefusedFollows == ASSUME DistinctSerials, DInv, Refused PROVE GInv'
<1>1. Take("error") /\ Read("error") /\ UNCHANGED <<report, lost>>
  BY DEF Refused, Take
<1>2. /\ report = None
      /\ RequestedOfThese' /\ OneEntry(fstab)' /\ ErrorsAreTrue' /\ CallsFirst' /\ LastReturnTells'
  BY <1>1, ReadFollows
<1>3. ParkedAsAsked' /\ Traced'
  BY <1>1, TakeFollows
<1>4. BehindByReport'
  BY <1>1, <1>2, StillBehind
<1>5. ReportApart'
  BY <1>1, <1>2 DEF ReportApart
<1> QED
  BY <1>2, <1>3, <1>4, <1>5 DEF GInv

\* A success is read: the report of the call starts, or there was nothing to report.
LEMMA AuthorisedFollows ==
  ASSUME DistinctSerials, RequestsComplete, NoneIsNothing, DInv, Authorised PROVE GInv'
<1> DEFINE h == Head(stream).call
           parked == pending[Serial[h]]
<1>1. /\ Take("return") /\ Read("return") /\ lost' = lost
      /\ report' = IF Parked THEN ReportOf(parked) ELSE None
  BY DEF Authorised, Take
<1>2. PICK c \in Calls : c = h
  BY <1>1, ReadFollows
<1>3. /\ report = None /\ UNCHANGED <<request, answer, fstab, declared>>
      /\ \A t, b : Unread(stream, t, b) <=> Unread(stream', t, b) \/ (t = "return" /\ c = b)
      /\ \A m : Touching(m)' = Touching(m)
      /\ RequestedOfThese' /\ OneEntry(fstab)' /\ ErrorsAreTrue' /\ CallsFirst' /\ LastReturnTells'
  BY <1>1, <1>2, ReadFollows
<1>4. /\ stream \in Seq(Messages) /\ stream # <<>> /\ Head(stream).type = "return"
      /\ Head(stream).call = c /\ stream' = Tail(stream)
  BY <1>1, <1>2, ReadFollows DEF Read
<1>5. ParkedAsAsked' /\ Traced'
  BY <1>1, TakeFollows
<1>6. answer[c] = "authorised" /\ request[c] \in Requests
  <2>1. Unread(stream, "return", c)
    BY <1>3
  <2>2. answer[c] = "authorised"
    BY <2>1 DEF DInv, MInv, RepliesAreTrue, UnreadReturn, Unread
  <2> QED
    BY <2>2 DEF DInv, GInv, RequestedOfThese
<1>7. Parked => report' # None /\ report'.left = StepsOf(request[c]) /\ IntentOf(request[c]) # None
  <2> SUFFICES ASSUME Parked
               PROVE  report' # None /\ report'.left = StepsOf(request[c]) /\ IntentOf(request[c]) # None
    OBVIOUS
  <2>1. Serial[c] \in DOMAIN pending /\ parked = pending[Serial[c]]
    BY <1>2 DEF Parked
  <2>2. parked.call = c
    BY <1>2, <2>1 DEF DistinctSerials, DInv, MInv, ParkedBySerial
  <2>3. parked.path = request[c].path /\ parked.intent = IntentOf(request[c]) /\ parked.intent # None
    BY <2>1, <2>2 DEF DInv, GInv, ParkedAsAsked, FInv, FateTypes
  <2>4. ReportOf(parked) = [call |-> c, left |-> StepsOf(request[c])]
    BY <2>2, <2>3 DEF ReportOf, StepsOf
  <2> QED
    BY <1>1, <2>3, <2>4 DEF NoneIsNothing
<1> HIDE DEF parked
<1>8. Missed = {} /\ Asks(c) => Parked
  <2> SUFFICES ASSUME Missed = {}, Asks(c) PROVE Parked
    OBVIOUS
  <2>1. Unread(stream, "return", c) /\ c \notin lost
    BY <1>3, <1>6 DEF Missed
  <2>2. ~Unread(stream, "call", c)
    BY <1>4, LastOfRest DEF DInv, GInv, CallsFirst
  <2>3. InTable(c)
    BY <2>1, <2>2 DEF DInv, GInv, Traced
  <2> QED
    BY <1>2, <2>3 DEF InTable, Parked, DInv, MInv, ParkedBySerial
<1>9. ReportApart'
  BY <1>1, <1>6, <1>7, CallsApart DEF ReportApart
<1>10. BehindByReport'
  <2>1. ASSUME Missed' = {} PROVE Missed = {}
    BY <1>1, <1>3, <2>1 DEF Missed
  <2>2. ASSUME NEW m \in MountPoints, BehindAt(m), Missed = {} PROVE BehindAt(m)'
    <3> SUFFICES ASSUME ~UnreadIn(stream', Touching(m)')
                 PROVE  IF report' # None /\ Touches(report'.left, m) THEN LeavesAt(report'.left, m, fstab')
                        ELSE Agrees(declared'[m], m, fstab')
      BY DEF BehindAt
    <3>1. CASE c \in Touching(m)
      <4>1. LastIn(stream, Touching(m), c)
        BY <1>3, <1>4, <3>1, LastOfRest
      <4>2. LeavesAt(StepsOf(request[c]), m, fstab)
        BY <4>1 DEF DInv, GInv, LastReturnTells
      <4>3. Parked /\ Touches(StepsOf(request[c]), m)
        BY <1>8, <2>2, <3>1 DEF Touching
      <4> QED
        BY <1>3, <1>7, <4>2, <4>3
    <3>2. CASE c \notin Touching(m)
      <4>1. ~UnreadIn(stream, Touching(m))
        BY <1>3, <3>2 DEF UnreadIn
      <4>2. Agrees(declared[m], m, fstab)
        BY <1>3, <2>2, <4>1 DEF BehindAt
      <4>3. Parked => ~Touches(StepsOf(request[c]), m)
        BY <1>6, <1>7, <3>2 DEF Touching, Asks
      <4> QED
        BY <1>1, <1>3, <1>7, <4>2, <4>3
    <3> QED
      BY <3>1, <3>2
  <2> QED
    BY <2>1, <2>2 DEF BehindByReport, DInv, GInv
<1> QED
  BY <1>3, <1>5, <1>9, <1>10 DEF GInv

\* A library call of the report commits: the report is shorter, or it is over.
LEMMA DeclareFollows == ASSUME NoneIsNothing, DInv, Declare PROVE GInv'
<1> DEFINE call == Head(report.left)
           x == call.mount_point
<1>1. /\ report # None /\ declared' = Applied(declared, call)
      /\ UNCHANGED <<request, answer, fstab, stream, pending, lost>>
      /\ IF Len(report.left) = 1 THEN report' = None
         ELSE report' = [report EXCEPT !.left = Tail(report.left)]
  BY DEF Declare, udisks
<1>2. PICK c \in Calls : \E l : HasLeft(l) /\ report = [call |-> c, left |-> l]
  BY <1>1 DEF DInv, FInv, FateTypes
<1>3. PICK l : HasLeft(l) /\ report = [call |-> c, left |-> l]
  BY <1>2
<1>4. report.left = l
  BY <1>3
<1>5. Apart(l) /\ \A m : Touches(l, m) => m \in MountPoints
  BY <1>1, <1>4 DEF DInv, GInv, ReportApart
<1>6. \/ l = <<call>> /\ report' = None
      \/ \E b : /\ l = <<call, b>> /\ b.mount_point # x
                /\ report' # None /\ report'.left = <<b>>
  <2>1. ASSUME NEW a, l = <<a>> PROVE l = <<call>> /\ report' = None
    <3>1. Head(l) = a /\ Len(l) = 1
      BY <2>1
    <3> QED
      BY <1>1, <1>4, <2>1, <3>1
  <2>2. ASSUME NEW a, NEW b, l = <<a, b>>
        PROVE  l = <<call, b>> /\ b.mount_point # x /\ report' # None /\ report'.left = <<b>>
    <3>1. Head(l) = a /\ Len(l) = 2 /\ Tail(l) = <<b>>
      BY <2>2
    <3>2. b.mount_point # x
      BY <1>4, <1>5, <2>2, <3>1, TwoCalls
    <3>3. report' = [call |-> c, left |-> <<b>>]
      <4>1. Len(report.left) # 1 /\ Tail(report.left) = <<b>>
        BY <1>4, <3>1
      <4>2. report' = [report EXCEPT !.left = <<b>>]
        BY <1>1, <4>1
      <4> QED
        BY <1>3, <4>2
    <3> QED
      BY <1>4, <2>2, <3>1, <3>2, <3>3 DEF NoneIsNothing
  <2> QED
    BY <1>3, <2>1, <2>2 DEF HasLeft
<1> HIDE DEF call
<1>7. /\ Touches(l, x) /\ \A m : m # x => (Touches(l, m) <=> report' # None /\ Touches(report'.left, m))
      /\ ~(report' # None /\ Touches(report'.left, x))
      /\ \A m, f : LeavesAt(l, m, f) => (m = x => Agrees(Result(call), m, f))
      /\ \A m, f : LeavesAt(l, m, f) /\ m # x /\ report' # None => LeavesAt(report'.left, m, f)
      /\ report' # None => Apart(report'.left) /\ \A m : Touches(report'.left, m) => Touches(l, m)
  <2>1. CASE l = <<call>> /\ report' = None
    BY <2>1, OneCall
  <2>2. CASE \E b : l = <<call, b>> /\ b.mount_point # x /\ report' # None /\ report'.left = <<b>>
    <3>1. PICK b : l = <<call, b>> /\ b.mount_point # x /\ report' # None /\ report'.left = <<b>>
      BY <2>2
    <3> QED
      BY <3>1, OneCall, TwoCalls
  <2> QED
    BY <1>6, <2>1, <2>2
<1>8. x \in MountPoints
  BY <1>5, <1>7
<1>9. /\ declared'[x] = Result(call)
      /\ \A m \in MountPoints : m # x => declared'[m] = declared[m]
  <2>1. DOMAIN declared = MountPoints
    BY DEF DInv, FInv, FateTypes
  <2> QED
    BY <1>1, <1>8, <2>1 DEF Applied, Result
<1>10. \A m : Touching(m)' = Touching(m)
  BY <1>1 DEF Touching, Asks
<1>11. /\ RequestedOfThese' /\ OneEntry(fstab)' /\ ErrorsAreTrue' /\ CallsFirst' /\ ParkedAsAsked'
       /\ Traced' /\ LastReturnTells'
  BY <1>1, <1>10 DEF DInv, GInv, RequestedOfThese, ErrorsAreTrue, CallsFirst, ParkedAsAsked, Traced,
     LastReturnTells, Asks, InTable
<1>12. ReportApart'
  BY <1>5, <1>7 DEF ReportApart
<1>13. BehindByReport'
  <2>1. Missed' = Missed
    BY <1>1 DEF Missed
  <2>2. ASSUME NEW m \in MountPoints, BehindAt(m) PROVE BehindAt(m)'
    <3>1. ~UnreadIn(stream, Touching(m)) =>
            IF Touches(l, m) THEN LeavesAt(l, m, fstab) ELSE Agrees(declared[m], m, fstab)
      BY <1>1, <1>4, <2>2 DEF BehindAt
    <3>2. CASE m = x
      BY <1>1, <1>7, <1>9, <1>10, <3>1, <3>2 DEF BehindAt
    <3>3. CASE m # x
      BY <1>1, <1>7, <1>9, <1>10, <3>1, <3>3 DEF BehindAt
    <3> QED
      BY <3>2, <3>3
  <2> QED
    BY <2>1, <2>2 DEF BehindByReport, DInv, GInv
<1> QED
  BY <1>11, <1>12, <1>13 DEF GInv

\* A report that fails is a success that is missed.
LEMMA FailFollows == ASSUME DInv, Fail PROVE GInv'
<1>1. /\ report # None /\ report' = None /\ lost' = lost \cup {report.call}
      /\ UNCHANGED <<request, answer, fstab, stream, pending>>
  BY DEF Fail, udisks
<1>2. answer[report.call] = "authorised"
  BY <1>1 DEF DInv, MInv, OnlyAuthorisedIsReported
<1>3. Missed' # {}
  BY <1>1, <1>2 DEF Missed
<1>4. \A m : Touching(m)' = Touching(m)
  BY <1>1 DEF Touching, Asks
<1>5. /\ RequestedOfThese' /\ OneEntry(fstab)' /\ ErrorsAreTrue' /\ CallsFirst' /\ ParkedAsAsked'
      /\ Traced' /\ LastReturnTells'
  BY <1>1, <1>4 DEF DInv, GInv, RequestedOfThese, ErrorsAreTrue, CallsFirst, ParkedAsAsked, Traced,
     LastReturnTells, Asks, InTable
<1> QED
  BY <1>1, <1>3, <1>5 DEF GInv, ReportApart, BehindByReport

\* The calls that were parked when the stream ends are missed if they are authorised.
LEMMA EndFollows == ASSUME DInv, StreamEnds PROVE GInv'
<1>1. /\ DOMAIN pending' = {} /\ lost' = lost \cup {pending[s].call : s \in DOMAIN pending}
      /\ UNCHANGED <<request, answer, fstab, stream, report, declared>>
  BY DEF StreamEnds, udisks
<1>2. \A m : Touching(m)' = Touching(m)
  BY <1>1 DEF Touching, Asks
<1>3. \A m \in MountPoints : BehindAt(m)' <=> BehindAt(m)
  BY <1>1, <1>2 DEF BehindAt
<1>4. Missed' = {} => Missed = {}
  BY <1>1 DEF Missed
<1>5. Traced'
  BY <1>1 DEF DInv, GInv, Traced, Asks, InTable
<1> QED
  BY <1>1, <1>2, <1>3, <1>4, <1>5 DEF DInv, GInv, RequestedOfThese, ErrorsAreTrue, CallsFirst,
     ParkedAsAsked, ReportApart, LastReturnTells, BehindByReport

LEMMA DInvInductive ==
  ASSUME DistinctSerials, RequestsComplete, NoneIsNothing PROVE DInv /\ [Next]_vars => DInv'
<1> SUFFICES ASSUME DInv, [Next]_vars PROVE GInv'
  BY MInvInductive, FateNext DEF DInv
<1>1. CASE Tick \/ UNCHANGED vars
  <2>1. UNCHANGED <<request, answer, fstab, stream, pending, report, declared, lost>>
    BY <1>1 DEF Tick, vars, udisks
  <2>2. \A m : Touching(m)' = Touching(m)
    BY <2>1 DEF Touching, Asks
  <2>3. \A m \in MountPoints : BehindAt(m)' <=> BehindAt(m)
    BY <2>1, <2>2 DEF BehindAt
  <2>4. Missed' = Missed
    BY <2>1 DEF Missed
  <2> QED
    BY <2>1, <2>2, <2>3, <2>4 DEF DInv, GInv, RequestedOfThese, ErrorsAreTrue, CallsFirst,
       ParkedAsAsked, ReportApart, Traced, LastReturnTells, BehindByReport, Asks, InTable
<1>2. ASSUME NEW c \in Calls, NEW r \in Requests, Send(c, r) PROVE GInv'
  BY <1>2, SendFollows
<1>3. ASSUME NEW c \in Calls, Authorise(c) \/ Refuse(c) PROVE GInv'
  BY <1>3, ReplyFollows
<1> QED
  BY <1>1, <1>2, <1>3, ParkFollows, IgnoreFollows, AuthorisedFollows, RefusedFollows, DeclareFollows,
     FailFollows, EndFollows DEF Next, Listen

LEMMA DInvInitially == Init => DInv
<1> SUFFICES ASSUME Init PROVE GInv
  BY InitMInv, FateInit DEF DInv
<1>1. /\ \A c \in Calls : answer[c] = "unsent"
      /\ fstab = {} /\ stream = <<>> /\ pending = <<>> /\ report = None
      /\ \A m \in MountPoints : declared[m] = None
  BY DEF Init
<1>2. /\ \A B, c : ~LastIn(stream, B, c)
      /\ \A t, c : ~Unread(stream, t, c)
      /\ \A c : CallFirst(stream, c)
  BY <1>1 DEF LastIn, Unread, CallFirst
<1>3. \A m \in MountPoints : BehindAt(m)
  BY <1>1 DEF BehindAt, Agrees
<1>4. ParkedAsAsked /\ ReportApart
  BY <1>1 DEF ParkedAsAsked, ReportApart
<1>5. Traced /\ LastReturnTells
  BY <1>1, <1>2 DEF Traced, LastReturnTells, Asks
<1> QED
  BY <1>1, <1>2, <1>3, <1>4, <1>5 DEF GInv, RequestedOfThese, OneEntry, ErrorsAreTrue, CallsFirst, BehindByReport

\* What the monitor declares is what the authorised calls made of /etc/fstab (monitor.rs),
\* once every message is read and if no authorised call was missed: for any requests of
\* complete items, however calls, answers and reports interleave.
THEOREM DeclaredIsMounted ==
  ASSUME DistinctSerials, RequestsComplete, NoneIsNothing PROVE Spec => []DeclarationsFollowFstab
<1>1. ASSUME DInv PROVE DeclarationsFollowFstab
  <2> SUFFICES ASSUME stream = <<>>, report = None, Missed = {}, NEW m \in MountPoints
               PROVE  Agrees(declared[m], m, fstab)
    BY DEF DeclarationsFollowFstab, Agrees
  <2>1. ~UnreadIn(stream, Touching(m))
    BY DEF UnreadIn, Unread
  <2>2. BehindAt(m)
    BY <1>1 DEF DInv, GInv, BehindByReport
  <2> QED
    BY <2>1, <2>2 DEF BehindAt
<1> QED
  BY <1>1, DInvInitially, DInvInductive, PTL DEF Spec

================================================================================
