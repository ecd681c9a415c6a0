---------------------------- MODULE SerialProofs ----------------------------
(***************************************************************************)
(* Proofs about the serial console: its invariants hold for any number of  *)
(* ports, queues of any length and clients that print and read anything.   *)
(***************************************************************************)
EXTENDS Serial, SequenceTheorems, TLAPS

-----------------------------------------------------------------------------
(***************************************************************************)
(* Sequences.                                                              *)
(***************************************************************************)

(* Moving the first element of the second sequence to the end of the first *)
(* changes nothing of the two together.                                    *)
LEMMA MoveHead ==
  ASSUME NEW s \in Queues, NEW t \in Queues, t # <<>>
  PROVE  /\ Append(s, Head(t)) \in Queues /\ Tail(t) \in Queues /\ Head(t) \in Bytes
         /\ Append(s, Head(t)) \o Tail(t) = s \o t
<1>1. Head(t) \in Bytes /\ Tail(t) \in Queues /\ Append(s, Head(t)) \in Queues
  BY HeadTailProperties, AppendProperties DEF Queues
<1>2. Append(s, Head(t)) = s \o <<Head(t)>> /\ <<Head(t)>> \in Queues
  BY <1>1, AppendIsConcat DEF Queues
<1>3. <<Head(t)>> \o Tail(t) = t
  BY <1>1, HeadTailProperties, ConcatProperties, LenProperties, SeqEqual DEF Queues
<1>4. (s \o <<Head(t)>>) \o Tail(t) = s \o (<<Head(t)>> \o Tail(t))
  BY <1>1, <1>2, ConcatAssociative DEF Queues
<1> QED
  BY <1>1, <1>2, <1>3, <1>4

LEMMA AppendLast ==
  ASSUME NEW s \in Queues, NEW t \in Queues, NEW b \in Bytes
  PROVE  s \o Append(t, b) = Append(s \o t, b)
<1>1. /\ s \o t \in Queues /\ Append(t, b) = t \o <<b>> /\ <<b>> \in Queues
  BY ConcatProperties, AppendIsConcat DEF Queues
<1>2. Append(s \o t, b) = (s \o t) \o <<b>>
  BY <1>1, AppendIsConcat DEF Queues
<1> QED
  BY <1>1, <1>2, ConcatAssociative DEF Queues

(* What is printed is made of Bytes. *)
LEMMA TextType == \A s \in Text : s \in Queues
<1>1. ASSUME NEW s \in Text
      PROVE  s \in Queues
  <2>1. s \in Seq(Range(s)) /\ Range(s) \subseteq Bytes
    BY SerialAssumption DEF Bytes
  <2> QED
    BY <2>1, SeqMonotonic DEF Queues
<1> QED
  BY <1>1

LEMMA BytesHas == Byte \subseteq Bytes /\ TEST \in Bytes /\ FLOATING \in Bytes /\ NUL \in Bytes
BY DEF Bytes

LEMMA EnqueueType ==
  ASSUME NEW q \in Queues, NEW b \in Bytes
  PROVE  Enqueue(q, b) \in Queues
BY AppendProperties DEF Enqueue, Queues

-----------------------------------------------------------------------------
(***************************************************************************)
(* What InOrder survives.                                                  *)
(***************************************************************************)

LEMMA NothingInOrder ==
  ASSUME NEW t
  PROVE  InOrder(<<>>, 0, t)
<1>1. [k \in {} |-> k] \in [DOMAIN <<>> \ {0} -> DOMAIN t]
  OBVIOUS
<1> QED
  BY <1>1 DEF InOrder

(* A byte that a full queue lost. *)
LEMMA InOrderLost ==
  ASSUME NEW s \in Queues, NEW x, NEW t \in Queues, NEW b \in Bytes, InOrder(s, x, t)
  PROVE  InOrder(s, x, Append(t, b))
<1>1. PICK f \in [DOMAIN s \ {x} -> DOMAIN t] :
        /\ \A k \in DOMAIN s \ {x} : s[k] = t[f[k]]
        /\ \A j, k \in DOMAIN s \ {x} : j < k => f[j] < f[k]
  BY DEF InOrder
<1>2. /\ \A k \in DOMAIN t : Append(t, b)[k] = t[k]
      /\ DOMAIN t \subseteq DOMAIN Append(t, b)
  BY AppendProperties, LenProperties DEF Queues
<1> QED
  BY <1>1, <1>2 DEF InOrder

(* A byte that it took in. *)
LEMMA InOrderArrived ==
  ASSUME NEW s \in Queues, NEW x \in 0 .. Len(s), NEW t \in Queues, NEW b \in Bytes,
         InOrder(s, x, t)
  PROVE  InOrder(Append(s, b), x, Append(t, b))
<1>1. PICK f \in [DOMAIN s \ {x} -> DOMAIN t] :
        /\ \A k \in DOMAIN s \ {x} : s[k] = t[f[k]]
        /\ \A j, k \in DOMAIN s \ {x} : j < k => f[j] < f[k]
  BY DEF InOrder
<1> DEFINE S == Append(s, b)
           T == Append(t, b)
<1>2. /\ DOMAIN s = 1 .. Len(s) /\ DOMAIN t = 1 .. Len(t) /\ Len(s) \in Nat /\ Len(t) \in Nat
      /\ DOMAIN S = 1 .. Len(s) + 1 /\ DOMAIN T = 1 .. Len(t) + 1
      /\ \A k \in 1 .. Len(s) : S[k] = s[k]
      /\ \A k \in 1 .. Len(t) : T[k] = t[k]
      /\ S[Len(s) + 1] = b /\ T[Len(t) + 1] = b
  BY AppendProperties, LenProperties DEF Queues
<1> HIDE DEF S, T
<1> DEFINE g == [k \in DOMAIN S \ {x} |-> IF k = Len(s) + 1 THEN Len(t) + 1 ELSE f[k]]
<1>3. \A k \in DOMAIN S \ {x} : k # Len(s) + 1 => k \in DOMAIN s \ {x} /\ f[k] \in 1 .. Len(t)
  BY <1>1, <1>2
<1>4. g \in [DOMAIN S \ {x} -> DOMAIN T]
  BY <1>2, <1>3
<1>5. \A k \in DOMAIN S \ {x} : S[k] = T[g[k]]
  BY <1>1, <1>2, <1>3
<1>6. ASSUME NEW j \in DOMAIN S \ {x}, NEW k \in DOMAIN S \ {x}, j < k
      PROVE  g[j] < g[k]
  <2>1. j # Len(s) + 1 /\ g[j] = f[j] /\ f[j] \in 1 .. Len(t) /\ j \in DOMAIN s \ {x}
    BY <1>2, <1>3, <1>6
  <2>2. CASE k = Len(s) + 1
    BY <1>2, <2>1, <2>2
  <2>3. CASE k # Len(s) + 1
    BY <1>1, <1>3, <1>6, <2>1, <2>3
  <2> QED
    BY <2>2, <2>3
<1> HIDE DEF g
<1>7. InOrder(S, x, T)
  BY <1>4, <1>5, <1>6 DEF InOrder
<1> QED
  BY <1>7 DEF S, T

(* A byte that came from nowhere, at the end. *)
LEMMA InOrderExtra ==
  ASSUME NEW s \in Queues, NEW t \in Queues, NEW b \in Bytes, InOrder(s, 0, t)
  PROVE  InOrder(Append(s, b), Len(s) + 1, t)
<1>1. /\ DOMAIN Append(s, b) \ {Len(s) + 1} = DOMAIN s \ {0}
      /\ \A k \in DOMAIN s : Append(s, b)[k] = s[k]
  BY AppendProperties, LenProperties DEF Queues
<1>2. \A k \in DOMAIN s \ {0} : k \in DOMAIN s
  OBVIOUS
<1> QED
  BY <1>1, <1>2 DEF InOrder

(* The first byte is gone. *)
LEMMA InOrderTail ==
  ASSUME NEW s \in Queues, s # <<>>, NEW x \in 0 .. Len(s), NEW t, InOrder(s, x, t)
  PROVE  InOrder(Tail(s), IF x <= 1 THEN 0 ELSE x - 1, t)
<1>1. PICK f \in [DOMAIN s \ {x} -> DOMAIN t] :
        /\ \A k \in DOMAIN s \ {x} : s[k] = t[f[k]]
        /\ \A j, k \in DOMAIN s \ {x} : j < k => f[j] < f[k]
  BY DEF InOrder
<1> DEFINE S == Tail(s)
           y == IF x <= 1 THEN 0 ELSE x - 1
<1>2. /\ DOMAIN s = 1 .. Len(s) /\ Len(s) \in Nat \ {0} /\ DOMAIN S = 1 .. Len(s) - 1
      /\ \A k \in DOMAIN S : S[k] = s[k + 1]
  BY HeadTailProperties, LenProperties, EmptySeq DEF Queues
<1> HIDE DEF S
<1>3. \A k \in DOMAIN S \ {y} : k + 1 \in DOMAIN s \ {x} /\ k \in DOMAIN S
  BY <1>2
<1> DEFINE g == [k \in DOMAIN S \ {y} |-> f[k + 1]]
<1>4. g \in [DOMAIN S \ {y} -> DOMAIN t]
  BY <1>1, <1>3
<1>5. \A k \in DOMAIN S \ {y} : S[k] = t[g[k]]
  BY <1>1, <1>2, <1>3
<1>6. ASSUME NEW j \in DOMAIN S \ {y}, NEW k \in DOMAIN S \ {y}, j < k
      PROVE  g[j] < g[k]
  <2>1. j + 1 \in DOMAIN s \ {x} /\ k + 1 \in DOMAIN s \ {x} /\ j + 1 < k + 1
    BY <1>2, <1>3, <1>6
  <2> QED
    BY <1>1, <2>1
<1> HIDE DEF g, y
<1>7. InOrder(S, y, t)
  BY <1>4, <1>5, <1>6 DEF InOrder
<1> QED
  BY <1>7 DEF S, y

(* The last ones are not there yet. *)
LEMMA InOrderPrefix ==
  ASSUME NEW s \in Queues, NEW r \in Queues, NEW x \in 0 .. Len(s \o r), NEW t,
         InOrder(s \o r, x, t)
  PROVE  InOrder(s, IF x <= Len(s) THEN x ELSE 0, t)
<1> DEFINE S == s \o r
           y == IF x <= Len(s) THEN x ELSE 0
<1>1. PICK f \in [DOMAIN S \ {x} -> DOMAIN t] :
        /\ \A k \in DOMAIN S \ {x} : S[k] = t[f[k]]
        /\ \A j, k \in DOMAIN S \ {x} : j < k => f[j] < f[k]
  BY DEF InOrder
<1>2. /\ DOMAIN s = 1 .. Len(s) /\ Len(s) \in Nat /\ Len(r) \in Nat
      /\ DOMAIN S = 1 .. Len(s) + Len(r)
      /\ \A k \in DOMAIN s : S[k] = s[k]
  BY ConcatProperties, LenProperties DEF Queues
<1> HIDE DEF S
<1>3. \A k \in DOMAIN s \ {y} : k \in DOMAIN S \ {x} /\ k \in DOMAIN s
  BY <1>2
<1> DEFINE g == [k \in DOMAIN s \ {y} |-> f[k]]
<1>4. g \in [DOMAIN s \ {y} -> DOMAIN t]
  BY <1>1, <1>3
<1>5. /\ \A k \in DOMAIN s \ {y} : s[k] = t[g[k]]
      /\ \A j, k \in DOMAIN s \ {y} : j < k => g[j] < g[k]
  BY <1>1, <1>2, <1>3
<1> HIDE DEF g, y
<1>6. InOrder(s, y, t)
  BY <1>4, <1>5 DEF InOrder
<1> QED
  BY <1>6 DEF y

(* The same for Received. *)
LEMMA ReceivedSame ==
  ASSUME NEW s, NEW t, InOrder(s, 0, t)
  PROVE  Received(s, t)
BY DEF Received

LEMMA ReceivedSkips ==
  ASSUME NEW s \in Queues, NEW t, Received(s, t)
  PROVE  \E x \in 0 .. Len(s) : InOrder(s, x, t) /\ (x # 0 => x \in DOMAIN s /\ s[x] = TEST)
BY LenProperties DEF Received, Queues

LEMMA ReceivedLost ==
  ASSUME NEW s \in Queues, NEW t \in Queues, NEW b \in Bytes, Received(s, t)
  PROVE  Received(s, Append(t, b))
BY InOrderLost DEF Received

LEMMA ReceivedArrived ==
  ASSUME NEW s \in Queues, NEW t \in Queues, NEW b \in Bytes, Received(s, t)
  PROVE  Received(Append(s, b), Append(t, b))
<1>1. PICK x \in 0 .. Len(s) : InOrder(s, x, t) /\ (x # 0 => x \in DOMAIN s /\ s[x] = TEST)
  BY ReceivedSkips
<1>2. x # 0 => x \in DOMAIN Append(s, b) /\ Append(s, b)[x] = TEST
  BY <1>1, AppendProperties, LenProperties DEF Queues
<1>3. InOrder(Append(s, b), x, Append(t, b))
  BY <1>1, InOrderArrived
<1> QED
  BY <1>2, <1>3 DEF Received

LEMMA ReceivedExtra ==
  ASSUME NEW s \in Queues, NEW t \in Queues, InOrder(s, 0, t)
  PROVE  Received(Append(s, TEST), t)
<1>1. /\ Len(s) + 1 \in DOMAIN Append(s, TEST) /\ Append(s, TEST)[Len(s) + 1] = TEST
  BY BytesHas, AppendProperties, LenProperties DEF Queues
<1>2. InOrder(Append(s, TEST), Len(s) + 1, t)
  BY BytesHas, InOrderExtra
<1> QED
  BY <1>1, <1>2 DEF Received

LEMMA ReceivedTail ==
  ASSUME NEW s \in Queues, s # <<>>, NEW t, Received(s, t)
  PROVE  Received(Tail(s), t)
<1>1. PICK x \in 0 .. Len(s) : InOrder(s, x, t) /\ (x # 0 => x \in DOMAIN s /\ s[x] = TEST)
  BY ReceivedSkips
<1> DEFINE y == IF x <= 1 THEN 0 ELSE x - 1
<1>2. InOrder(Tail(s), y, t)
  BY <1>1, InOrderTail
<1>3. y # 0 => y \in DOMAIN Tail(s) /\ Tail(s)[y] = TEST
  BY <1>1, HeadTailProperties, LenProperties DEF Queues
<1> HIDE DEF y
<1> QED
  BY <1>2, <1>3 DEF Received

LEMMA ReceivedPrefix ==
  ASSUME NEW s \in Queues, NEW r \in Queues, NEW t, Received(s \o r, t)
  PROVE  Received(s, t)
<1>0. s \o r \in Queues
  BY ConcatProperties DEF Queues
<1>1. PICK x \in 0 .. Len(s \o r) :
        InOrder(s \o r, x, t) /\ (x # 0 => x \in DOMAIN (s \o r) /\ (s \o r)[x] = TEST)
  BY <1>0, ReceivedSkips
<1> DEFINE y == IF x <= Len(s) THEN x ELSE 0
<1>2. InOrder(s, y, t)
  BY <1>1, InOrderPrefix
<1>3. y # 0 => y \in DOMAIN s /\ s[y] = TEST
  BY <1>1, ConcatProperties, LenProperties DEF Queues
<1> HIDE DEF y
<1> QED
  BY <1>2, <1>3 DEF Received

-----------------------------------------------------------------------------
(***************************************************************************)
(* The registers: what each of them does to a UART.                        *)
(***************************************************************************)

Uart == [attached : BOOLEAN, loopback : BOOLEAN, tx : Queues, rx : Queues]

LEMMA WrittenIs ==
  ASSUME NEW u \in Uart, NEW b \in Bytes
  PROVE  /\ Written(u, b) \in Uart
         /\ Written(u, b).attached = u.attached /\ Written(u, b).loopback = u.loopback
         /\ Written(u, b).rx = u.rx
         /\ Written(u, b).tx = IF u.attached THEN Enqueue(u.tx, b) ELSE u.tx
<1>1. Enqueue(u.tx, b) \in Queues
  BY EnqueueType DEF Uart
<1> QED
  BY <1>1 DEF Uart, Written

LEMMA TakenIs ==
  ASSUME NEW u \in Uart
  PROVE  /\ Taken(u) \in Uart
         /\ Taken(u).attached = u.attached /\ Taken(u).loopback = u.loopback
         /\ Taken(u).tx = u.tx
         /\ Taken(u).rx = IF u.rx = <<>> THEN <<>> ELSE Tail(u.rx)
<1>1. u.rx # <<>> => Tail(u.rx) \in Queues
  BY HeadTailProperties DEF Uart, Queues
<1> QED
  BY <1>1 DEF Uart, Taken

LEMMA InLoopbackIs ==
  ASSUME NEW u \in Uart
  PROVE  /\ InLoopback(u, TRUE) \in Uart /\ InLoopback(u, FALSE) \in Uart
         /\ InLoopback(u, TRUE).loopback = u.attached
         /\ InLoopback(u, FALSE).loopback = FALSE
         /\ \A on \in BOOLEAN :
              /\ InLoopback(u, on).attached = u.attached
              /\ InLoopback(u, on).tx = u.tx /\ InLoopback(u, on).rx = u.rx
BY DEF Uart, InLoopback

(* The write of 0xc7. *)
LEMMA ClearedIs ==
  ASSUME NEW u \in Uart
  PROVE  LET v == InLoopback([u EXCEPT !.tx = <<>>, !.rx = <<>>], FALSE)
         IN  v \in Uart /\ v.attached = u.attached /\ ~ v.loopback /\ v.tx = <<>> /\ v.rx = <<>>
<1> DEFINE w == [u EXCEPT !.tx = <<>>, !.rx = <<>>]
<1>1. <<>> \in Queues
  BY EmptySeq DEF Queues
<1>2. w \in Uart /\ w.attached = u.attached /\ w.tx = <<>> /\ w.rx = <<>>
  BY <1>1 DEF Uart
<1> HIDE DEF w
<1>3. LET v == InLoopback(w, FALSE)
      IN  v \in Uart /\ v.attached = u.attached /\ ~ v.loopback /\ v.tx = <<>> /\ v.rx = <<>>
  BY <1>2, InLoopbackIs
<1> QED
  BY <1>3 DEF w

LEMMA DataReadIn ==
  ASSUME NEW u \in Uart
  PROVE  DataRead(u) \subseteq Bytes
<1>1. u.rx # <<>> => Head(u.rx) \in Bytes
  BY HeadTailProperties DEF Uart, Queues
<1> QED
  BY <1>1, BytesHas DEF DataRead

-----------------------------------------------------------------------------
(***************************************************************************)
(* The invariant.  SerialTypeOK and the three properties do not keep       *)
(* themselves: why they hold depends on how far serial_init is, and on     *)
(* what the test byte of each port has become.                             *)
(***************************************************************************)

Testing == at \in {"setup", "test", "check", "loopback_off"}

(* The port that serial_init is at; once it is over, the index is past the *)
(* last one.  It prints nothing before there is a console.                 *)
Place ==
  /\ Testing => thread.i \in Port
  /\ at \in {"idle", "print", "read", "stopped"} => thread.i = COM_PORT_COUNT + 1
  /\ at = "report" => primary_com_port # NULL

(* The ports before that one have been tested, the ones after it have not. *)
Tried ==
  /\ \A p \in Port : /\ p > thread.i => status[p] = "BUSY"
                     /\ p < thread.i => status[p] # "BUSY"
  /\ at \in {"setup", "test", "check"} => status[thread.i] = "BUSY"
  /\ at \in {"loopback_off", "report"} /\ thread.i \in Port => status[thread.i] = "READY"

(* The console is not the port under test. *)
Console ==
  /\ ConsoleConnected
  /\ primary_com_port <= thread.i
  /\ Testing => primary_com_port < thread.i
  /\ primary_com_port = NULL => \A p \in Port : p < thread.i => status[p] = "BROKEN"

Tested(p) == thread.i = p /\ at \in {"check", "loopback_off"}

(* The test byte is all that a port was ever given before it is READY, and *)
(* a port that is not either has nothing to send or sends it to itself.    *)
Output(p) ==
  LET u == uart[p]
  IN  /\ status[p] # "READY" =>
           /\ sent[p] = <<>> /\ line[p].out = <<>>
           /\ u.tx = <<>> \/ u.loopback
      /\ status[p] = "READY" =>
           /\ u.attached
           /\ line[p].out \o u.tx \in {sent[p], <<TEST>> \o sent[p]}
           /\ u.loopback => Tested(p)
      /\ ~ u.attached => u.tx = <<>> /\ ~ u.loopback
      /\ thread.i = p /\ at = "test" => u.tx = <<>> /\ ~ u.loopback
      /\ Tested(p) => /\ u.loopback = u.attached
                      /\ sent[p] = <<>> /\ line[p].out = <<>>
                      /\ u.tx \in {<<>>, <<TEST>>}

(* What com_read has returned, and will return of what is already in the   *)
(* queue, came from the line; until the transmitter has looped it back,    *)
(* without the test byte.                                                  *)
Input(p) ==
  LET s == got[p] \o uart[p].rx
  IN  /\ status[p] = "BUSY" => got[p] = <<>>
      /\ status[p] = "READY" \/ Tested(p) => Received(s, line[p].in)
      /\ (thread.i = p /\ at = "test") \/ (Tested(p) /\ uart[p].tx # <<>>) =>
           InOrder(s, 0, line[p].in)

SerialInv ==
  /\ SerialTypeOK
  /\ Place
  /\ Tried
  /\ Console
  /\ \A p \in Port : Output(p) /\ Input(p)

-----------------------------------------------------------------------------
(***************************************************************************)
(* One lemma per action.                                                   *)
(***************************************************************************)

LEMMA PortFacts == COM_PORT_COUNT \in Nat \ {0} /\ Port \subseteq Nat /\ NULL \notin Port
BY SerialAssumption DEF Port, NULL

Positions == {"setup", "test", "check", "loopback_off", "report", "print", "read",
              "idle", "halted", "stopped"}

LEMMA TypeFacts ==
  ASSUME SerialTypeOK
  PROVE  /\ status \in [Port -> {"READY", "BROKEN", "BUSY"}]
         /\ uart \in [Port -> Uart]
         /\ \A p \in Port : /\ uart[p] \in Uart
                            /\ uart[p].tx \in Queues /\ uart[p].rx \in Queues
                            /\ line[p].in \in Queues /\ line[p].out \in Queues
                            /\ sent[p] \in Queues /\ got[p] \in Queues
         /\ at \in Positions /\ thread.i \in 1 .. COM_PORT_COUNT + 1 /\ thread.i \in Nat
         /\ io \in Port \cup {NULL} /\ thread.text \in Queues
         /\ primary_com_port \in Nat
BY PortFacts DEF SerialTypeOK, Uart, Positions, at, io, NULL

(* A byte more on a line, of those that arrived or of those sent. *)
Line == [in : Queues, out : Queues]

LEMMA LineIn ==
  ASSUME NEW L \in [Port -> Line], NEW p \in Port, NEW b, Append(L[p].in, b) \in Queues
  PROVE  LET M == [L EXCEPT ![p].in = Append(@, b)]
         IN  /\ M \in [Port -> Line]
             /\ M[p].in = Append(L[p].in, b) /\ M[p].out = L[p].out
             /\ \A q \in Port : q # p => M[q] = L[q]
<1> DEFINE w == [L[p] EXCEPT !.in = Append(@, b)]
<1>1. L[p] \in Line
  OBVIOUS
<1>2. w \in Line /\ w.in = Append(L[p].in, b) /\ w.out = L[p].out
  BY <1>1 DEF Line
<1>3. [L EXCEPT ![p].in = Append(@, b)] = [L EXCEPT ![p] = w]
  OBVIOUS
<1> HIDE DEF w
<1> QED
  BY <1>2, <1>3

LEMMA LineOut ==
  ASSUME NEW L \in [Port -> Line], NEW p \in Port, NEW b, Append(L[p].out, b) \in Queues
  PROVE  LET M == [L EXCEPT ![p].out = Append(@, b)]
         IN  /\ M \in [Port -> Line]
             /\ M[p].out = Append(L[p].out, b) /\ M[p].in = L[p].in
             /\ \A q \in Port : q # p => M[q] = L[q]
<1> DEFINE w == [L[p] EXCEPT !.out = Append(@, b)]
<1>1. L[p] \in Line
  OBVIOUS
<1>2. w \in Line /\ w.out = Append(L[p].out, b) /\ w.in = L[p].in
  BY <1>1 DEF Line
<1>3. [L EXCEPT ![p].out = Append(@, b)] = [L EXCEPT ![p] = w]
  OBVIOUS
<1> HIDE DEF w
<1> QED
  BY <1>2, <1>3

(* A port to which nothing happened. *)
LEMMA PortSame ==
  ASSUME NEW p \in Port, Output(p), Input(p),
         status'[p] = status[p], uart'[p] = uart[p], line'[p] = line[p],
         sent'[p] = sent[p], got'[p] = got[p],
         Tested(p)' <=> Tested(p),
         thread'.i = p /\ at' = "test" => thread.i = p /\ at = "test"
  PROVE  Output(p)' /\ Input(p)'
<1>1. Output(p)'
  BY DEF Output
<1>2. Input(p)'
  BY DEF Input
<1> QED
  BY <1>1, <1>2

LEMMA ProgramStep ==
  ASSUME SerialInv, Program
  PROVE  SerialInv'
<1> DEFINE i == thread.i
           v == InLoopback([uart[i] EXCEPT !.tx = <<>>, !.rx = <<>>], FALSE)
<1>1. /\ at = "setup" /\ thread' = [thread EXCEPT !.at = "test"]
      /\ uart' = [uart EXCEPT ![i] = v]
      /\ status' = status /\ primary_com_port' = primary_com_port /\ line' = line
      /\ sent' = sent /\ got' = got /\ failure' = failure
  BY DEF Program, ports, history
<1>2. i \in Port /\ SerialTypeOK
  BY <1>1 DEF SerialInv, Place, Testing
<1>3. at' = "test" /\ thread'.i = i
  BY <1>1, <1>2 DEF at, SerialTypeOK
<1>4. v \in Uart /\ v.attached = uart[i].attached /\ ~ v.loopback /\ v.tx = <<>> /\ v.rx = <<>>
  BY <1>2, TypeFacts, ClearedIs
<1>5. /\ uart' \in [Port -> Uart] /\ uart'[i] = v
      /\ \A p \in Port : p # i => uart'[p] = uart[p]
  BY <1>1, <1>2, <1>4, TypeFacts
<1> HIDE DEF v
<1>6. SerialTypeOK'
  BY <1>1, <1>2, <1>5 DEF SerialTypeOK, Uart
<1>7. Place' /\ Tried'
  BY <1>1, <1>2, <1>3 DEF SerialInv, Place, Tried, Testing
<1>8. Console'
  BY <1>1, <1>2, <1>3, <1>5, PortFacts DEF SerialInv, Console, ConsoleConnected, Testing, SerialTypeOK
<1>9. ASSUME NEW p \in Port
      PROVE  Output(p)' /\ Input(p)'
  <2>1. CASE p # i
    BY <1>1, <1>3, <1>5, <2>1, PortSame DEF SerialInv, Tested
  <2>2. CASE p = i
    <3>1. status[p] = "BUSY" /\ got[p] = <<>>
      BY <1>1, <2>2 DEF SerialInv, Tried, Input
    <3>2. Output(p)'
      BY <1>1, <1>3, <1>4, <1>5, <2>2, <3>1 DEF SerialInv, Output, Tested
    <3>3. got'[p] \o uart'[p].rx = <<>>
      BY <1>1, <1>4, <1>5, <2>2, <3>1, ConcatEmptySeq, EmptySeq
    <3>4. InOrder(got'[p] \o uart'[p].rx, 0, line'[p].in)
      BY <3>3, NothingInOrder
    <3> QED
      BY <1>1, <1>3, <3>1, <3>2, <3>4 DEF Input, Tested
  <2> QED
    BY <2>1, <2>2
<1> QED
  BY <1>6, <1>7, <1>8, <1>9 DEF SerialInv

LEMMA SendTestStep ==
  ASSUME SerialInv, SendTest
  PROVE  SerialInv'
<1> DEFINE i == thread.i
           u == InLoopback(uart[i], TRUE)
           v == Written(u, TEST)
<1>1. /\ at = "test" /\ thread' = [thread EXCEPT !.at = "check"]
      /\ uart' = [uart EXCEPT ![i] = v]
      /\ status' = status /\ primary_com_port' = primary_com_port /\ line' = line
      /\ sent' = sent /\ got' = got /\ failure' = failure
  BY DEF SendTest, ports, history
<1>2. i \in Port /\ SerialTypeOK
  BY <1>1 DEF SerialInv, Place, Testing
<1>3. at' = "check" /\ thread'.i = i
  BY <1>1, <1>2 DEF at, SerialTypeOK
<1>4. /\ u \in Uart /\ u.attached = uart[i].attached /\ u.loopback = u.attached
      /\ u.tx = uart[i].tx /\ u.rx = uart[i].rx /\ uart[i].tx = <<>>
  <2>1. uart[i] \in Uart /\ uart[i].tx = <<>>
    BY <1>1, <1>2, TypeFacts DEF SerialInv, Output
  <2> QED
    BY <2>1, InLoopbackIs
<1> HIDE DEF u
<1>5. /\ v \in Uart /\ v.attached = uart[i].attached /\ v.loopback = v.attached
      /\ v.rx = uart[i].rx /\ v.tx = IF u.attached THEN <<TEST>> ELSE <<>>
  <2>1. Enqueue(<<>>, TEST) = <<TEST>>
    BY SerialAssumption, EmptySeq DEF Enqueue
  <2>2. /\ v \in Uart /\ v.attached = u.attached /\ v.loopback = u.loopback /\ v.rx = u.rx
        /\ v.tx = IF u.attached THEN Enqueue(u.tx, TEST) ELSE u.tx
    BY <1>4, WrittenIs, BytesHas
  <2>3. u.tx = <<>>
    BY <1>4
  <2> HIDE DEF v
  <2> QED
    BY <1>4, <2>1, <2>2, <2>3
<1>6. /\ uart' \in [Port -> Uart] /\ uart'[i] = v
      /\ \A p \in Port : p # i => uart'[p] = uart[p]
  BY <1>1, <1>2, <1>5, TypeFacts
<1> HIDE DEF v
<1>7. SerialTypeOK'
  BY <1>1, <1>2, <1>6 DEF SerialTypeOK, Uart
<1>8. Place' /\ Tried'
  BY <1>1, <1>2, <1>3 DEF SerialInv, Place, Tried, Testing
<1>9. Console'
  BY <1>1, <1>2, <1>3, <1>6, PortFacts DEF SerialInv, Console, ConsoleConnected, Testing, SerialTypeOK
<1>10. ASSUME NEW p \in Port
       PROVE  Output(p)' /\ Input(p)'
  <2>1. CASE p # i
    BY <1>1, <1>3, <1>6, <2>1, PortSame DEF SerialInv, Tested
  <2>2. CASE p = i
    <3>1. status[p] = "BUSY" /\ got[p] = <<>> /\ InOrder(got[p] \o uart[p].rx, 0, line[p].in)
      BY <1>1, <2>2 DEF SerialInv, Tried, Input
    <3>2. Output(p)'
      BY <1>1, <1>3, <1>4, <1>5, <1>6, <2>2, <3>1 DEF SerialInv, Output, Tested
    <3>3. InOrder(got'[p] \o uart'[p].rx, 0, line'[p].in)
      BY <1>1, <1>5, <1>6, <2>2, <3>1
    <3> QED
      BY <1>1, <1>3, <3>1, <3>2, <3>3, ReceivedSame DEF Input, Tested
  <2> QED
    BY <2>1, <2>2
<1> QED
  BY <1>7, <1>8, <1>9, <1>10 DEF SerialInv

(* serial_init goes on to the next port, or ends. *)
LEMMA NextPortIs ==
  ASSUME SerialTypeOK, thread.i \in Port, NextPort
  PROVE  /\ thread'.i = thread.i + 1
         /\ at' = IF thread.i < COM_PORT_COUNT THEN "setup"
                  ELSE IF primary_com_port = NULL THEN "halted" ELSE "report"
         /\ thread' \in [at : Positions, i : 1 .. COM_PORT_COUNT + 1, io : Port \cup {NULL},
                         text : Queues, delim : Delimiter \cup {NUL}]
<1>1. <<>> \in Queues /\ Initialised \in Queues
  BY EmptySeq, TextType DEF Queues, Text
<1>2. thread.i + 1 \in 1 .. COM_PORT_COUNT + 1
  BY PortFacts DEF Port
<1> QED
  BY <1>1, <1>2 DEF NextPort, SerialTypeOK, Positions, at

LEMMA TestFailsStep ==
  ASSUME SerialInv, TestFails
  PROVE  SerialInv'
<1> DEFINE i == thread.i
<1>1. /\ at = "check" /\ NextPort
      /\ uart' = [uart EXCEPT ![i] = Taken(@)]
      /\ status' = [status EXCEPT ![i] = "BROKEN"]
      /\ primary_com_port' = primary_com_port /\ line' = line
      /\ sent' = sent /\ got' = got /\ failure' = failure
  BY DEF TestFails, history
<1>2. i \in Port /\ SerialTypeOK
  BY <1>1 DEF SerialInv, Place, Testing
<1>3. /\ thread'.i = i + 1
      /\ at' = IF i < COM_PORT_COUNT THEN "setup"
               ELSE IF primary_com_port = NULL THEN "halted" ELSE "report"
      /\ thread' \in [at : Positions, i : 1 .. COM_PORT_COUNT + 1, io : Port \cup {NULL},
                      text : Queues, delim : Delimiter \cup {NUL}]
  BY <1>1, <1>2, NextPortIs
<1>4. /\ uart' \in [Port -> Uart] /\ uart'[i] = Taken(uart[i])
      /\ \A p \in Port : p # i => uart'[p] = uart[p]
  BY <1>1, <1>2, TypeFacts, TakenIs
<1>5. /\ status' \in [Port -> {"READY", "BROKEN", "BUSY"}] /\ status'[i] = "BROKEN"
      /\ \A p \in Port : p # i => status'[p] = status[p]
  BY <1>1, <1>2, TypeFacts
<1>6. SerialTypeOK'
  BY <1>1, <1>2, <1>3, <1>4, <1>5 DEF SerialTypeOK, Uart, Positions
<1>7. Place'
  BY <1>1, <1>2, <1>3, PortFacts DEF Place, Testing, Port
<1>8. Tried'
  BY <1>1, <1>2, <1>3, <1>5, PortFacts DEF SerialInv, Tried, Port
<1>9. Console'
  BY <1>1, <1>2, <1>3, <1>4, <1>5, PortFacts, TypeFacts
     DEF SerialInv, Console, ConsoleConnected, Testing, SerialTypeOK, Port
<1>10. ASSUME NEW p \in Port
       PROVE  Output(p)' /\ Input(p)'
  <2>1. CASE p # i
    BY <1>1, <1>3, <1>4, <1>5, <2>1, PortSame DEF SerialInv, Tested
  <2>2. CASE p = i
    <3>1. /\ Taken(uart[p]).attached = uart[p].attached
          /\ Taken(uart[p]).loopback = uart[p].loopback /\ Taken(uart[p]).tx = uart[p].tx
      BY <1>2, TypeFacts, TakenIs
    <3>2. Output(p)'
      BY <1>1, <1>3, <1>4, <1>5, <2>2, <3>1 DEF SerialInv, Output, Tested
    <3> QED
      BY <1>3, <1>5, <2>2, <3>2 DEF Input, Tested
  <2> QED
    BY <2>1, <2>2
<1> QED
  BY <1>6, <1>7, <1>8, <1>9, <1>10 DEF SerialInv

LEMMA TestPassesStep ==
  ASSUME SerialInv, TestPasses
  PROVE  SerialInv'
<1> DEFINE i == thread.i
<1>1. /\ at = "check" /\ TEST \in DataRead(uart[i])
      /\ thread' = [thread EXCEPT !.at = "loopback_off"]
      /\ uart' = [uart EXCEPT ![i] = Taken(@)]
      /\ status' = [status EXCEPT ![i] = "READY"]
      /\ primary_com_port' = primary_com_port /\ line' = line
      /\ sent' = sent /\ got' = got /\ failure' = failure
  BY DEF TestPasses, history
<1>2. i \in Port /\ SerialTypeOK
  BY <1>1 DEF SerialInv, Place, Testing
<1>3. at' = "loopback_off" /\ thread'.i = i
  BY <1>1, <1>2 DEF at, SerialTypeOK
<1>4. /\ uart' \in [Port -> Uart] /\ uart'[i] = Taken(uart[i])
      /\ \A p \in Port : p # i => uart'[p] = uart[p]
  BY <1>1, <1>2, TypeFacts, TakenIs
<1>5. /\ status' \in [Port -> {"READY", "BROKEN", "BUSY"}] /\ status'[i] = "READY"
      /\ \A p \in Port : p # i => status'[p] = status[p]
  BY <1>1, <1>2, TypeFacts
<1>6. SerialTypeOK'
  BY <1>1, <1>2, <1>4, <1>5 DEF SerialTypeOK, Uart
<1>7. Place' /\ Tried'
  BY <1>1, <1>2, <1>3, <1>5, PortFacts DEF SerialInv, Place, Tried, Testing, Port
<1>8. Console'
  BY <1>1, <1>2, <1>3, <1>4, <1>5, PortFacts, TypeFacts
     DEF SerialInv, Console, ConsoleConnected, Testing, SerialTypeOK, Port
<1>9. ASSUME NEW p \in Port
      PROVE  Output(p)' /\ Input(p)'
  <2>1. CASE p # i
    BY <1>1, <1>3, <1>4, <1>5, <2>1, PortSame DEF SerialInv, Tested
  <2>2. CASE p = i
    <3> DEFINE u == uart[p]
               v == Taken(u)
    <3>1. /\ v.attached = u.attached /\ v.loopback = u.loopback /\ v.tx = u.tx
          /\ v.rx = IF u.rx = <<>> THEN <<>> ELSE Tail(u.rx)
          /\ u.rx \in Queues /\ u.tx \in Queues /\ uart'[p] = v
      BY <1>2, <1>4, <2>2, TypeFacts, TakenIs
    <3>2. /\ status[p] = "BUSY" /\ got[p] = <<>> /\ sent[p] = <<>> /\ line[p].out = <<>>
          /\ u.tx \in {<<>>, <<TEST>>} /\ u.loopback = u.attached
          /\ Received(got[p] \o u.rx, line[p].in)
          /\ u.tx # <<>> => InOrder(got[p] \o u.rx, 0, line[p].in)
      BY <1>1, <2>2 DEF SerialInv, Tried, Input, Output, Tested
    <3>3. u.attached
      BY <1>1, <2>2, SerialAssumption DEF DataRead
    <3>4. got[p] \o u.rx = u.rx /\ got[p] \o v.rx = v.rx
      BY <3>1, <3>2, ConcatEmptySeq, EmptySeq, HeadTailProperties DEF Queues
    <3>5. line[p].out \o u.tx \in {sent[p], <<TEST>> \o sent[p]}
      <4>1. <<TEST>> \in Queues /\ <<>> \in Queues
        BY BytesHas DEF Queues
      <4> QED
        BY <3>1, <3>2, <4>1, ConcatEmptySeq DEF Queues
    <3>6. Output(p)'
      <4>1. /\ status'[p] = "READY" /\ uart'[p] = v /\ v.attached /\ v.loopback = u.loopback
            /\ v.tx = u.tx /\ line' = line /\ sent' = sent
        BY <1>1, <1>5, <2>2, <3>1, <3>3
      <4>2. at' = "loopback_off" /\ Tested(p)'
        BY <1>3, <2>2 DEF Tested
      <4>3. /\ u.loopback /\ sent[p] = <<>> /\ line[p].out = <<>> /\ u.tx \in {<<>>, <<TEST>>}
        BY <3>2, <3>3
      <4> HIDE DEF u, v
      <4> QED
        BY <3>5, <4>1, <4>2, <4>3 DEF Output
    <3>7. Received(v.rx, line[p].in)
      BY <3>1, <3>2, <3>4, ReceivedTail
    <3>8. u.tx # <<>> => InOrder(v.rx, 0, line[p].in)
      <4>1. u.rx # <<>> => 0 \in 0 .. Len(u.rx)
        BY <3>1, EmptySeq DEF Queues
      <4> QED
        BY <3>1, <3>2, <3>4, <4>1, InOrderTail
    <3>9. Input(p)'
      <4>1. /\ status'[p] = "READY" /\ uart'[p] = v /\ v.tx = u.tx
            /\ line' = line /\ got' = got /\ at' # "test"
        BY <1>1, <1>3, <1>5, <2>2, <3>1
      <4>2. got'[p] \o uart'[p].rx = v.rx
        BY <3>4, <4>1
      <4> HIDE DEF u, v
      <4> QED
        BY <3>7, <3>8, <4>1, <4>2 DEF Input
    <3> QED
      BY <3>6, <3>9
  <2> QED
    BY <2>1, <2>2
<1> QED
  BY <1>6, <1>7, <1>8, <1>9 DEF SerialInv

LEMMA LoopbackOffStep ==
  ASSUME SerialInv, LoopbackOff
  PROVE  SerialInv'
<1> DEFINE i == thread.i
           v == InLoopback(uart[i], FALSE)
<1>1. /\ at = "loopback_off"
      /\ uart' = [uart EXCEPT ![i] = v]
      /\ primary_com_port' = IF primary_com_port = NULL THEN i ELSE primary_com_port
      /\ thread' = [thread EXCEPT !.at = "report", !.text = Detected(i), !.io = primary_com_port']
      /\ status' = status /\ line' = line
      /\ sent' = sent /\ got' = got /\ failure' = failure
  BY DEF LoopbackOff, PortWorks, history
<1>2. i \in Port /\ SerialTypeOK
  BY <1>1 DEF SerialInv, Place, Testing
<1>3. at' = "report" /\ thread'.i = i
  BY <1>1, <1>2 DEF at, SerialTypeOK
<1>4. /\ v \in Uart /\ v.attached = uart[i].attached /\ ~ v.loopback
      /\ v.tx = uart[i].tx /\ v.rx = uart[i].rx
  BY <1>2, TypeFacts, InLoopbackIs
<1>5. /\ uart' \in [Port -> Uart] /\ uart'[i] = v
      /\ \A p \in Port : p # i => uart'[p] = uart[p]
  BY <1>1, <1>2, <1>4, TypeFacts
<1> HIDE DEF v
<1>6. status[i] = "READY" /\ primary_com_port < i
  BY <1>1, <1>2 DEF SerialInv, Tried, Console, Testing
<1>7. primary_com_port' \in Port
  BY <1>1, <1>2 DEF SerialTypeOK
<1>8. SerialTypeOK'
  <2>1. Detected(i) \in Queues
    BY <1>2, TextType DEF Text
  <2> QED
    BY <1>1, <1>2, <1>5, <1>7, <2>1 DEF SerialTypeOK, Uart
<1>9. Place' /\ Tried'
  BY <1>1, <1>2, <1>3, <1>6, <1>7, PortFacts DEF SerialInv, Place, Tried, Testing
<1>10. Console'
  BY <1>1, <1>2, <1>3, <1>4, <1>5, <1>6, PortFacts
     DEF SerialInv, Console, ConsoleConnected, Testing, SerialTypeOK
<1>11. ASSUME NEW p \in Port
       PROVE  Output(p)' /\ Input(p)'
  <2>1. CASE p # i
    BY <1>1, <1>3, <1>5, <2>1, PortSame DEF SerialInv, Tested
  <2>2. CASE p = i
    <3>1. Output(p)'
      BY <1>1, <1>3, <1>4, <1>5, <1>6, <2>2 DEF SerialInv, Output, Tested
    <3> QED
      BY <1>1, <1>3, <1>4, <1>5, <1>6, <2>2, <3>1 DEF SerialInv, Input, Tested
  <2> QED
    BY <2>1, <2>2
<1> QED
  BY <1>8, <1>9, <1>10, <1>11 DEF SerialInv

ThreadType ==
  [at : Positions, i : 1 .. COM_PORT_COUNT + 1, io : Port \cup {NULL},
   text : Queues, delim : Delimiter \cup {NUL}]

(* After the tests, only the thread and what it has failed of change. *)
LEMMA ThreadMoves ==
  ASSUME SerialInv,
         status' = status, primary_com_port' = primary_com_port, uart' = uart, line' = line,
         sent' = sent, got' = got,
         thread' \in ThreadType, failure' \in {"none", "error", "nmi"},
         thread'.i = thread.i, thread.i = COM_PORT_COUNT + 1,
         at \in {"report", "print", "read", "idle", "stopped"},
         at' \in {"print", "read", "idle", "stopped"}
  PROVE  SerialInv'
<1>1. SerialTypeOK'
  BY DEF SerialInv, SerialTypeOK, ThreadType, Positions
<1>2. Place' /\ Tried' /\ Console'
  BY DEF SerialInv, Place, Tried, Console, ConsoleConnected, Testing
<1>3. ASSUME NEW p \in Port
      PROVE  Output(p)' /\ Input(p)'
  BY PortSame DEF SerialInv, Tested
<1> QED
  BY <1>1, <1>2, <1>3 DEF SerialInv

LEMMA ReportedStep ==
  ASSUME SerialInv, Reported
  PROVE  SerialInv'
<1>1. /\ at = "report" /\ failure' = failure /\ thread.i \in 1 .. COM_PORT_COUNT + 1
      /\ status' = status /\ primary_com_port' = primary_com_port /\ uart' = uart /\ line' = line
      /\ sent' = sent /\ got' = got /\ SerialTypeOK /\ primary_com_port # NULL
  BY DEF Reported, ports, history, SerialInv, SerialTypeOK, Place
<1>2. CASE thread.i <= COM_PORT_COUNT
  <2>1. NextPort /\ thread.i \in Port
    BY <1>1, <1>2, PortFacts DEF Reported, Port
  <2>2. /\ thread'.i = thread.i + 1
        /\ at' = IF thread.i < COM_PORT_COUNT THEN "setup" ELSE "report"
        /\ thread' \in ThreadType
    BY <1>1, <2>1, NextPortIs DEF ThreadType
  <2>3. SerialTypeOK'
    BY <1>1, <2>2 DEF SerialTypeOK, ThreadType, Positions
  <2>4. status[thread.i] = "READY"
    BY <1>1, <2>1 DEF SerialInv, Tried
  <2>5. Place' /\ Tried'
    BY <1>1, <2>1, <2>2, <2>4, PortFacts DEF SerialInv, Place, Tried, Testing, Port
  <2>6. Console'
    BY <1>1, <2>1, <2>2, PortFacts, TypeFacts
       DEF SerialInv, Console, ConsoleConnected, Testing, Port
  <2>7. ASSUME NEW p \in Port
        PROVE  Output(p)' /\ Input(p)'
    BY <1>1, <2>2, PortSame DEF SerialInv, Tested
  <2> QED
    BY <2>3, <2>5, <2>6, <2>7 DEF SerialInv
<1>3. CASE ~ (thread.i <= COM_PORT_COUNT)
  <2>1. thread.i = COM_PORT_COUNT + 1
    BY <1>1, <1>3, PortFacts
  <2>2. thread' = Returned("idle")
    BY <1>3 DEF Reported
  <2>3. thread' \in ThreadType /\ thread'.i = thread.i /\ at' = "idle"
    BY <1>1, <2>2, EmptySeq
       DEF Returned, ThreadType, SerialTypeOK, Positions, at, Queues
  <2> QED
    BY <1>1, <2>1, <2>3, ThreadMoves DEF SerialTypeOK
<1> QED
  BY <1>2, <1>3

LEMMA SendDoneStep ==
  ASSUME SerialInv, SendDone
  PROVE  SerialInv'
<1>1. /\ at = "print" /\ failure' = failure /\ thread.i = COM_PORT_COUNT + 1
      /\ status' = status /\ primary_com_port' = primary_com_port /\ uart' = uart /\ line' = line
      /\ sent' = sent /\ got' = got /\ SerialTypeOK
      /\ thread' = Returned(IF failure = "none" THEN "idle" ELSE "stopped")
  BY DEF SendDone, ports, history, SerialInv, Place
<1>2. thread' \in ThreadType /\ thread'.i = thread.i /\ at' \in {"idle", "stopped"}
  BY <1>1, EmptySeq DEF Returned, ThreadType, SerialTypeOK, Positions, at, Queues
<1> QED
  BY <1>1, <1>2, ThreadMoves DEF SerialTypeOK

LEMMA ClientStep ==
  ASSUME SerialInv, Client
  PROVE  SerialInv'
<1>1. /\ at = "idle" /\ failure' = failure /\ thread.i = COM_PORT_COUNT + 1
      /\ status' = status /\ primary_com_port' = primary_com_port /\ uart' = uart /\ line' = line
      /\ sent' = sent /\ got' = got /\ SerialTypeOK
  BY DEF Client, com_sends, com_reads, ClientCall, ports, SerialInv, Place
<1>2. thread' \in ThreadType /\ thread'.i = thread.i /\ at' \in {"print", "read"}
  <2>1. CASE \E p \in Port, s \in Message : com_sends(p, s)
    BY <1>1, <2>1, TextType
       DEF com_sends, ThreadType, SerialTypeOK, Positions, at, Text
  <2>2. CASE \E p \in Port, d \in Delimiter : com_reads(p, d)
    BY <1>1, <2>2 DEF com_reads, ThreadType, SerialTypeOK, Positions, at
  <2> QED
    BY <2>1, <2>2 DEF Client
<1> QED
  BY <1>1, <1>2, ThreadMoves DEF SerialTypeOK

LEMMA TraceStep ==
  ASSUME SerialInv, Error \/ NonMaskable
  PROVE  SerialInv'
<1>1. PICK kind \in {"error", "nmi"} : Trace(kind)
  BY DEF Error, NonMaskable
<1>2. /\ at \in {"idle", "print", "read", "stopped"} /\ thread.i = COM_PORT_COUNT + 1
      /\ SerialTypeOK
  BY DEF Error, NonMaskable, SerialInv, Place
<1>3. /\ failure' = kind
      /\ status' = status /\ primary_com_port' = primary_com_port /\ uart' = uart /\ line' = line
      /\ sent' = sent /\ got' = got
  BY <1>1 DEF Trace, ports, history
<1>4. Report(kind) \in Queues
  BY TextType DEF Text
<1>5. thread' \in ThreadType /\ thread'.i = thread.i /\ at' = "print"
  BY <1>1, <1>2, <1>4 DEF Trace, ThreadType, SerialTypeOK, Positions, at
<1> QED
  BY <1>2, <1>3, <1>5, ThreadMoves

LEMMA SendCharStep ==
  ASSUME SerialInv, SendChar
  PROVE  SerialInv'
<1> DEFINE c == Head(thread.text)
<1>1. /\ at \in {"report", "print"} /\ thread.text # <<>> /\ ComSend(io, c)
      /\ thread' = [thread EXCEPT !.text = Tail(@)]
      /\ status' = status /\ primary_com_port' = primary_com_port /\ line' = line
      /\ got' = got /\ failure' = failure /\ SerialTypeOK
  BY DEF SendChar, ports, SerialInv
<1>2. c \in Bytes /\ Tail(thread.text) \in Queues
  BY <1>1, HeadTailProperties DEF SerialTypeOK, Queues
<1>3. at' = at /\ thread'.i = thread.i /\ thread' \in ThreadType
  BY <1>1, <1>2 DEF at, SerialTypeOK, ThreadType, Positions
<1> HIDE DEF c
<1>4. CASE ~ (io \in Port /\ status[io] = "READY")
  <2>1. uart' = uart /\ sent' = sent
    BY <1>1, <1>4 DEF ComSend, SerialTypeOK
  <2>2. SerialTypeOK'
    BY <1>1, <1>3, <2>1 DEF SerialTypeOK, ThreadType, Positions
  <2>3. Place' /\ Tried' /\ Console'
    BY <1>1, <1>3, <2>1 DEF SerialInv, Place, Tried, Console, ConsoleConnected, Testing
  <2>4. ASSUME NEW p \in Port
        PROVE  Output(p)' /\ Input(p)'
    BY <1>1, <1>3, <2>1, PortSame DEF SerialInv, Tested
  <2> QED
    BY <2>2, <2>3, <2>4 DEF SerialInv
<1>5. CASE io \in Port /\ status[io] = "READY"
  <2> DEFINE v == Written(uart[io], c)
  <2>1. /\ uart' = [uart EXCEPT ![io] = v]
        /\ sent' = [sent EXCEPT ![io] = Append(@, c)]
        /\ uart[io].tx = <<>>
    BY <1>1, <1>5 DEF ComSend, can_send
  <2>2. uart[io] \in Uart /\ uart[io].attached
    BY <1>1, <1>5, TypeFacts DEF SerialInv, Output
  <2>3. /\ v \in Uart /\ v.attached = uart[io].attached /\ v.loopback = uart[io].loopback
        /\ v.rx = uart[io].rx /\ v.tx = <<c>>
    <3>1. Enqueue(<<>>, c) = <<c>>
      BY SerialAssumption, EmptySeq DEF Enqueue
    <3>2. PICK u \in Uart : u = uart[io]
      BY <2>2
    <3>3. u.attached /\ u.tx = <<>>
      BY <2>1, <2>2, <3>2
    <3>4. /\ Written(u, c) \in Uart /\ Written(u, c).attached = u.attached
          /\ Written(u, c).loopback = u.loopback /\ Written(u, c).rx = u.rx
          /\ Written(u, c).tx = IF u.attached THEN Enqueue(u.tx, c) ELSE u.tx
      BY <1>2, WrittenIs
    <3>5. Written(u, c).tx = <<c>>
      BY <3>1, <3>3, <3>4
    <3> QED
      BY <3>2, <3>4, <3>5
  <2>4. /\ uart' \in [Port -> Uart] /\ uart'[io] = v
        /\ \A p \in Port : p # io => uart'[p] = uart[p]
    BY <1>1, <1>5, <2>1, <2>3, TypeFacts
  <2> HIDE DEF v
  <2>5. /\ sent' \in [Port -> Queues] /\ sent'[io] = Append(sent[io], c)
        /\ \A p \in Port : p # io => sent'[p] = sent[p]
    <3>1. Append(sent[io], c) \in Queues
      BY <1>1, <1>2, <1>5, TypeFacts, AppendProperties DEF Queues
    <3> QED
      BY <1>1, <1>5, <2>1, <3>1 DEF SerialTypeOK
  <2>6. SerialTypeOK'
    BY <1>1, <1>3, <2>4, <2>5 DEF SerialTypeOK, ThreadType, Positions, Uart
  <2>7. Place' /\ Tried'
    BY <1>1, <1>3 DEF SerialInv, Place, Tried, Testing
  <2>8. Console'
    BY <1>1, <1>3, <2>3, <2>4, PortFacts
       DEF SerialInv, Console, ConsoleConnected, Testing, SerialTypeOK
  <2>9. ASSUME NEW p \in Port
        PROVE  Output(p)' /\ Input(p)'
    <3>1. CASE p # io
      BY <1>1, <1>3, <2>4, <2>5, <3>1, PortSame DEF SerialInv, Tested
    <3>2. CASE p = io
      <4>1. line[p].out \o uart[p].tx \in {sent[p], <<TEST>> \o sent[p]}
        BY <1>5, <3>2 DEF SerialInv, Output
      <4>2. /\ line[p].out \in Queues /\ sent[p] \in Queues /\ <<TEST>> \in Queues
        BY <1>1, TypeFacts, BytesHas DEF Queues
      <4>3. line[p].out \o uart[p].tx = line[p].out
        BY <2>1, <3>2, <4>2, ConcatEmptySeq DEF Queues
      <4>4. line[p].out \o <<c>> = Append(line[p].out, c)
        BY <1>2, <4>2, AppendIsConcat DEF Queues
      <4>5. <<TEST>> \o Append(sent[p], c) = Append(<<TEST>> \o sent[p], c)
        BY <1>2, <4>2, AppendLast
      <4>6. line'[p].out \o uart'[p].tx \in {sent'[p], <<TEST>> \o sent'[p]}
        <5>1. line'[p].out \o uart'[p].tx = Append(line[p].out, c)
          BY <1>1, <2>3, <2>4, <3>2, <4>4
        <5>2. sent'[p] = Append(sent[p], c)
          BY <2>5, <3>2
        <5>3. line[p].out = sent[p] \/ line[p].out = <<TEST>> \o sent[p]
          BY <4>1, <4>3
        <5> QED
          BY <4>5, <5>1, <5>2, <5>3
      <4>7. Output(p)'
        BY <1>1, <1>3, <1>5, <2>2, <2>3, <2>4, <3>2, <4>6 DEF SerialInv, Output, Tested
      <4>8. Input(p)'
        BY <1>1, <1>3, <1>5, <2>3, <2>4, <3>2 DEF SerialInv, Input, Tested
      <4> QED
        BY <4>7, <4>8
    <3> QED
      BY <3>1, <3>2
  <2> QED
    BY <2>6, <2>7, <2>8, <2>9 DEF SerialInv
<1> QED
  BY <1>4, <1>5

(* com_read has returned: what Take does to the thread. *)
LEMMA TakeThread ==
  ASSUME SerialInv, at = "read", NEW c, Take(c)
  PROVE  /\ thread' \in ThreadType /\ thread'.i = thread.i /\ at' \in {"read", "idle"}
         /\ thread.i = COM_PORT_COUNT + 1
         /\ status' = status /\ primary_com_port' = primary_com_port /\ line' = line
         /\ sent' = sent /\ failure' = failure
         /\ got' = [got EXCEPT ![io] = Append(@, c)]
<1>1. /\ thread' = IF c = thread.delim THEN Returned("idle") ELSE thread
      /\ status' = status /\ primary_com_port' = primary_com_port /\ line' = line
      /\ sent' = sent /\ failure' = failure
      /\ got' = [got EXCEPT ![io] = Append(@, c)]
  BY DEF Take, ports
<1>2. SerialTypeOK /\ thread.i = COM_PORT_COUNT + 1
  BY DEF SerialInv, Place
<1>3. thread \in ThreadType /\ <<>> \in Queues
  BY <1>2, EmptySeq DEF SerialTypeOK, ThreadType, Positions, Queues
<1>4. thread' \in ThreadType /\ thread'.i = thread.i /\ at' \in {"read", "idle"}
  BY <1>1, <1>3 DEF Returned, ThreadType, Positions, at
<1> QED
  BY <1>1, <1>2, <1>4

LEMMA ReadCharStep ==
  ASSUME SerialInv, ReadChar
  PROVE  SerialInv'
<1>1. PICK c \in DataRead(uart[io]) : Take(c)
  BY DEF ReadChar
<1>2. /\ at = "read" /\ status[io] = "READY" /\ uart[io].rx # <<>>
      /\ uart' = [uart EXCEPT ![io] = Taken(@)] /\ SerialTypeOK
  BY DEF ReadChar, can_read, SerialInv
<1>3. /\ thread' \in ThreadType /\ thread'.i = thread.i /\ at' \in {"read", "idle"}
      /\ thread.i = COM_PORT_COUNT + 1
      /\ status' = status /\ primary_com_port' = primary_com_port /\ line' = line
      /\ sent' = sent /\ failure' = failure
      /\ got' = [got EXCEPT ![io] = Append(@, c)]
  BY <1>1, <1>2, TakeThread
<1>4. CASE io \notin Port
  <2>1. uart' = uart /\ got' = got
    BY <1>2, <1>3, <1>4 DEF SerialTypeOK
  <2> QED
    BY <1>2, <1>3, <2>1, ThreadMoves DEF SerialTypeOK
<1>5. CASE io \in Port
  <2>1. /\ uart[io] \in Uart /\ uart[io].attached /\ got[io] \in Queues /\ uart[io].rx \in Queues
    BY <1>2, <1>5, TypeFacts DEF SerialInv, Output
  <2>2. c = Head(uart[io].rx)
    BY <1>1, <1>2, <2>1 DEF DataRead
  <2>3. /\ Append(got[io], c) \in Queues /\ Tail(uart[io].rx) \in Queues
        /\ Append(got[io], c) \o Tail(uart[io].rx) = got[io] \o uart[io].rx
    BY <1>2, <2>1, <2>2, MoveHead
  <2>4. /\ uart' \in [Port -> Uart] /\ uart'[io] = Taken(uart[io])
        /\ \A p \in Port : p # io => uart'[p] = uart[p]
    BY <1>2, <1>5, <2>1, TypeFacts, TakenIs
  <2>5. /\ got' \in [Port -> Queues] /\ got'[io] = Append(got[io], c)
        /\ \A p \in Port : p # io => got'[p] = got[p]
    BY <1>2, <1>3, <1>5, <2>3 DEF SerialTypeOK
  <2>6. /\ Taken(uart[io]).attached = uart[io].attached
        /\ Taken(uart[io]).loopback = uart[io].loopback /\ Taken(uart[io]).tx = uart[io].tx
        /\ Taken(uart[io]).rx = Tail(uart[io].rx)
    BY <1>2, <2>1, TakenIs
  <2>7. SerialTypeOK'
    BY <1>2, <1>3, <2>4, <2>5 DEF SerialTypeOK, ThreadType, Positions, Uart
  <2>8. Place' /\ Tried'
    BY <1>2, <1>3 DEF SerialInv, Place, Tried, Testing
  <2>9. Console'
    BY <1>2, <1>3, <2>4, <2>6, PortFacts
       DEF SerialInv, Console, ConsoleConnected, Testing, SerialTypeOK
  <2>10. ASSUME NEW p \in Port
         PROVE  Output(p)' /\ Input(p)'
    <3>1. CASE p # io
      BY <1>2, <1>3, <2>4, <2>5, <3>1, PortSame DEF SerialInv, Tested
    <3>2. CASE p = io
      <4>1. Output(p)'
        BY <1>2, <1>3, <2>4, <2>6, <3>2 DEF SerialInv, Output, Tested
      <4>2. got'[p] \o uart'[p].rx = got[p] \o uart[p].rx
        BY <2>3, <2>4, <2>5, <2>6, <3>2
      <4>3. Input(p)'
        BY <1>2, <1>3, <3>2, <4>2 DEF SerialInv, Input, Tested
      <4> QED
        BY <4>1, <4>3
    <3> QED
      BY <3>1, <3>2
  <2> QED
    BY <2>7, <2>8, <2>9, <2>10 DEF SerialInv
<1> QED
  BY <1>4, <1>5

LEMMA ReadNothingStep ==
  ASSUME SerialInv, ReadNothing
  PROVE  SerialInv'
<1>1. at = "read" /\ status[io] # "READY" /\ Take(NUL) /\ uart' = uart /\ SerialTypeOK
  BY DEF ReadNothing, SerialInv
<1>2. /\ thread' \in ThreadType /\ thread'.i = thread.i /\ at' \in {"read", "idle"}
      /\ thread.i = COM_PORT_COUNT + 1
      /\ status' = status /\ primary_com_port' = primary_com_port /\ line' = line
      /\ sent' = sent /\ failure' = failure
      /\ got' = [got EXCEPT ![io] = Append(@, NUL)]
  BY <1>1, TakeThread
<1>3. /\ got' \in [Port -> Queues]
      /\ \A p \in Port : p # io => got'[p] = got[p]
  <2>1. io \in Port => Append(got[io], NUL) \in Queues
    BY <1>1, TypeFacts, BytesHas, AppendProperties DEF Queues
  <2> QED
    BY <1>1, <1>2, <2>1 DEF SerialTypeOK
<1>4. SerialTypeOK'
  BY <1>1, <1>2, <1>3 DEF SerialTypeOK, ThreadType, Positions
<1>5. Place' /\ Tried' /\ Console'
  BY <1>1, <1>2 DEF SerialInv, Place, Tried, Console, ConsoleConnected, Testing
<1>6. ASSUME NEW p \in Port
      PROVE  Output(p)' /\ Input(p)'
  <2>1. CASE p # io
    BY <1>1, <1>2, <1>3, <2>1, PortSame DEF SerialInv, Tested
  <2>2. CASE p = io
    <3>1. Output(p)'
      BY <1>1, <1>2 DEF SerialInv, Output, Tested
    <3>2. status[p] # "BUSY"
      BY <1>2, PortFacts DEF SerialInv, Tried, Port
    <3> QED
      BY <1>1, <1>2, <2>2, <3>1, <3>2 DEF Input, Tested
  <2> QED
    BY <2>1, <2>2
<1> QED
  BY <1>4, <1>5, <1>6 DEF SerialInv

LEMMA TransmitStep ==
  ASSUME SerialInv, NEW p \in Port, Transmit(p)
  PROVE  SerialInv'
<1> DEFINE u == uart[p]
           b == Head(u.tx)
<1>1. /\ u.tx # <<>> /\ thread' = thread /\ failure' = failure
      /\ status' = status /\ primary_com_port' = primary_com_port
      /\ sent' = sent /\ got' = got /\ SerialTypeOK
  BY DEF Transmit, ports, history, SerialInv
<1>2. /\ u \in Uart /\ u.tx \in Queues /\ u.rx \in Queues /\ line[p].in \in Queues
      /\ line[p].out \in Queues /\ b \in Bytes /\ Tail(u.tx) \in Queues
      /\ Enqueue(u.rx, b) \in Queues /\ Append(line[p].out, b) \in Queues
      /\ Append(line[p].out, b) \o Tail(u.tx) = line[p].out \o u.tx
  BY <1>1, TypeFacts, MoveHead, EnqueueType
<1>3. at' = at
  BY <1>1 DEF at
<1>4. Place' /\ Tried'
  BY <1>1, <1>3 DEF SerialInv, Place, Tried, Testing
<1>5. CASE u.loopback
  <2> DEFINE v == [u EXCEPT !.tx = Tail(@), !.rx = Enqueue(@, b)]
  <2>1. line' = line /\ uart' = [uart EXCEPT ![p] = v]
    BY <1>1, <1>5 DEF Transmit, SerialTypeOK
  <2>2. /\ v \in Uart /\ v.attached = u.attached /\ v.loopback = u.loopback
        /\ v.tx = Tail(u.tx) /\ v.rx = Enqueue(u.rx, b)
    BY <1>2 DEF Uart
  <2>3. /\ uart' \in [Port -> Uart] /\ uart'[p] = v
        /\ \A q \in Port : q # p => uart'[q] = uart[q]
    BY <1>1, <2>1, <2>2, TypeFacts
  <2> HIDE DEF v
  <2>4. SerialTypeOK'
    BY <1>1, <2>1, <2>3 DEF SerialTypeOK, Uart
  <2>5. Console'
    BY <1>1, <1>3, <2>2, <2>3, PortFacts
       DEF SerialInv, Console, ConsoleConnected, Testing, SerialTypeOK
  <2>6. ASSUME NEW q \in Port, q # p
        PROVE  Output(q)' /\ Input(q)'
    BY <1>1, <1>3, <2>1, <2>3, <2>6, PortSame DEF SerialInv, Tested
  <2>7. ASSUME Tested(p)
        PROVE  /\ v.tx = <<>> /\ sent[p] = <<>> /\ line[p].out = <<>>
               /\ line[p].out \o v.tx = sent[p]
               /\ Received(got[p] \o v.rx, line[p].in)
    <3>1. /\ u.tx = <<TEST>> /\ sent[p] = <<>> /\ line[p].out = <<>>
          /\ InOrder(got[p] \o u.rx, 0, line[p].in)
      BY <1>1, <2>7 DEF SerialInv, Output, Input
    <3>2. v.tx = <<>> /\ b = TEST /\ line[p].out \o v.tx = <<>>
      BY <2>2, <3>1, EmptySeq, ConcatEmptySeq
    <3>3. v.rx = u.rx \/ v.rx = Append(u.rx, TEST)
      BY <2>2, <3>2 DEF Enqueue
    <3>4. /\ got[p] \in Queues /\ got[p] \o u.rx \in Queues
          /\ got[p] \o Append(u.rx, TEST) = Append(got[p] \o u.rx, TEST)
      <4>1. got[p] \in Queues /\ u.rx \in Queues
        BY <1>1, <1>2, TypeFacts
      <4>2. got[p] \o u.rx \in Queues
        BY <4>1, ConcatProperties DEF Queues
      <4> QED
        BY <4>1, <4>2, AppendLast, BytesHas
    <3>5. Received(got[p] \o v.rx, line[p].in)
      BY <1>2, <3>1, <3>3, <3>4, ReceivedSame, ReceivedExtra
    <3> QED
      BY <3>1, <3>2, <3>5
  <2>8. Output(p)'
    BY <1>1, <1>3, <1>5, <2>1, <2>2, <2>3, <2>7 DEF SerialInv, Output, Tested
  <2>9. Input(p)'
    BY <1>1, <1>3, <1>5, <2>1, <2>2, <2>3, <2>7 DEF SerialInv, Output, Input, Tested
  <2> QED
    BY <1>4, <2>4, <2>5, <2>6, <2>8, <2>9 DEF SerialInv
<1>6. CASE ~ u.loopback
  <2> DEFINE v == [u EXCEPT !.tx = Tail(@)]
  <2>1. /\ line' = [line EXCEPT ![p].out = Append(@, b)]
        /\ uart' = [uart EXCEPT ![p] = v]
    BY <1>1, <1>6 DEF Transmit, SerialTypeOK
  <2>2. /\ v \in Uart /\ v.attached = u.attached /\ v.loopback = u.loopback
        /\ v.tx = Tail(u.tx) /\ v.rx = u.rx
    BY <1>2 DEF Uart
  <2>3. /\ uart' \in [Port -> Uart] /\ uart'[p] = v
        /\ \A q \in Port : q # p => uart'[q] = uart[q]
    BY <1>1, <2>1, <2>2, TypeFacts
  <2> HIDE DEF v
  <2>4. /\ line' \in [Port -> [in : Queues, out : Queues]]
        /\ line'[p].out = Append(line[p].out, b) /\ line'[p].in = line[p].in
        /\ \A q \in Port : q # p => line'[q] = line[q]
    <3>1. line \in [Port -> Line]
      BY <1>1 DEF SerialTypeOK, Line
    <3> QED
      <4> HIDE DEF b
      <4>1. Append(line[p].out, b) \in Queues
        BY <1>2
      <4>2. LET M == [line EXCEPT ![p].out = Append(@, b)]
            IN  /\ M \in [Port -> Line]
                /\ M[p].out = Append(line[p].out, b) /\ M[p].in = line[p].in
                /\ \A q \in Port : q # p => M[q] = line[q]
        BY <3>1, <4>1, LineOut
      <4> QED
        BY <2>1, <4>2 DEF Line
  <2>5. SerialTypeOK'
    BY <1>1, <2>3, <2>4 DEF SerialTypeOK, Uart
  <2>6. Console'
    BY <1>1, <1>3, <2>2, <2>3, PortFacts
       DEF SerialInv, Console, ConsoleConnected, Testing, SerialTypeOK
  <2>7. ASSUME NEW q \in Port, q # p
        PROVE  Output(q)' /\ Input(q)'
    BY <1>1, <1>3, <2>3, <2>4, <2>7, PortSame DEF SerialInv, Tested
  <2>8. status[p] = "READY" /\ ~ Tested(p)
    BY <1>1, <1>6 DEF SerialInv, Output
  <2>9. line'[p].out \o v.tx = line[p].out \o u.tx
    BY <1>2, <2>2, <2>4
  <2>10. Output(p)'
    BY <1>1, <1>3, <1>6, <2>2, <2>3, <2>8, <2>9 DEF SerialInv, Output, Tested
  <2>11. Input(p)'
    BY <1>1, <1>3, <1>6, <2>2, <2>3, <2>4, <2>8 DEF SerialInv, Output, Input, Tested
  <2> QED
    BY <1>4, <2>5, <2>6, <2>7, <2>10, <2>11 DEF SerialInv
<1> QED
  BY <1>5, <1>6

LEMMA ArriveStep ==
  ASSUME SerialInv, NEW p \in Port, NEW b \in Byte, Arrive(p, b)
  PROVE  SerialInv'
<1> DEFINE u == uart[p]
           v == [u EXCEPT !.rx = Enqueue(@, b)]
<1>1. /\ u.attached /\ ~ u.loopback
      /\ line' = [line EXCEPT ![p].in = Append(@, b)]
      /\ uart' = [uart EXCEPT ![p] = v]
      /\ thread' = thread /\ failure' = failure
      /\ status' = status /\ primary_com_port' = primary_com_port
      /\ sent' = sent /\ got' = got /\ SerialTypeOK
  BY DEF Arrive, ports, history, SerialInv, SerialTypeOK
<1>2. /\ u \in Uart /\ u.tx \in Queues /\ u.rx \in Queues /\ line[p].in \in Queues
      /\ got[p] \in Queues /\ b \in Bytes
      /\ Enqueue(u.rx, b) \in Queues /\ Append(line[p].in, b) \in Queues
  BY <1>1, TypeFacts, BytesHas, EnqueueType, AppendProperties DEF Queues
<1>3. at' = at
  BY <1>1 DEF at
<1>4. /\ v \in Uart /\ v.attached = u.attached /\ v.loopback = u.loopback
      /\ v.tx = u.tx /\ v.rx = Enqueue(u.rx, b)
  BY <1>2 DEF Uart
<1>5. /\ uart' \in [Port -> Uart] /\ uart'[p] = v
      /\ \A q \in Port : q # p => uart'[q] = uart[q]
  BY <1>1, <1>4, TypeFacts
<1> HIDE DEF v
<1>6. /\ line' \in [Port -> [in : Queues, out : Queues]]
      /\ line'[p].in = Append(line[p].in, b) /\ line'[p].out = line[p].out
      /\ \A q \in Port : q # p => line'[q] = line[q]
  <2>1. line \in [Port -> Line]
    BY <1>1 DEF SerialTypeOK, Line
  <2> QED
    <3>1. Append(line[p].in, b) \in Queues
      BY <1>2
    <3>2. LET M == [line EXCEPT ![p].in = Append(@, b)]
          IN  /\ M \in [Port -> Line]
              /\ M[p].in = Append(line[p].in, b) /\ M[p].out = line[p].out
              /\ \A q \in Port : q # p => M[q] = line[q]
      BY <2>1, <3>1, LineIn
    <3> QED
      BY <1>1, <3>2 DEF Line
<1>7. SerialTypeOK'
  BY <1>1, <1>5, <1>6 DEF SerialTypeOK, Uart
<1>8. Place' /\ Tried'
  BY <1>1, <1>3 DEF SerialInv, Place, Tried, Testing
<1>9. Console'
  BY <1>1, <1>3, <1>4, <1>5, PortFacts
     DEF SerialInv, Console, ConsoleConnected, Testing, SerialTypeOK
<1>10. ASSUME NEW q \in Port, q # p
       PROVE  Output(q)' /\ Input(q)'
  BY <1>1, <1>3, <1>5, <1>6, <1>10, PortSame DEF SerialInv, Tested
<1>11. Output(p)'
  BY <1>1, <1>3, <1>4, <1>5, <1>6 DEF SerialInv, Output, Tested
<1>12. Input(p)'
  <2> DEFINE s == got[p] \o u.rx
             t == line[p].in
  <2>1. ~ Tested(p)
    BY <1>1 DEF SerialInv, Output
  <2>2. s \in Queues /\ got[p] \o Append(u.rx, b) = Append(s, b) /\ 0 \in 0 .. Len(s)
    <3>1. s \in Queues
      BY <1>2, ConcatProperties DEF Queues
    <3>2. \A q \in Queues : 0 \in 0 .. Len(q)
      BY LenProperties DEF Queues
    <3>3. got[p] \o Append(u.rx, b) = Append(s, b)
      BY <1>2, AppendLast
    <3> QED
      BY <3>1, <3>2, <3>3
  <2> HIDE DEF s
  <2>3. got[p] \o v.rx = s \/ got[p] \o v.rx = Append(s, b)
    BY <1>4, <2>2 DEF s, Enqueue
  <2>4. Received(s, t) => Received(got[p] \o v.rx, Append(t, b))
    BY <1>2, <2>2, <2>3, ReceivedLost, ReceivedArrived
  <2>5. InOrder(s, 0, t) => InOrder(got[p] \o v.rx, 0, Append(t, b))
    BY <1>2, <2>2, <2>3, InOrderLost, InOrderArrived
  <2> QED
    BY <1>1, <1>3, <1>5, <1>6, <2>1, <2>4, <2>5 DEF SerialInv, Input, Tested, s
<1> QED
  BY <1>7, <1>8, <1>9, <1>10, <1>11, <1>12 DEF SerialInv

LEMMA SerialStutter ==
  ASSUME SerialInv, UNCHANGED serialVars
  PROVE  SerialInv'
<1>1. /\ thread' = thread /\ at' = at /\ failure' = failure
      /\ status' = status /\ primary_com_port' = primary_com_port
      /\ uart' = uart /\ line' = line /\ sent' = sent /\ got' = got
  BY DEF serialVars, ports, history, at
<1>2. SerialTypeOK'
  BY <1>1 DEF SerialInv, SerialTypeOK
<1>3. Place' /\ Tried' /\ Console'
  BY <1>1 DEF SerialInv, Place, Tried, Console, ConsoleConnected, Testing
<1>4. ASSUME NEW p \in Port
      PROVE  Output(p)' /\ Input(p)'
  BY <1>1, PortSame DEF SerialInv, Tested
<1> QED
  BY <1>2, <1>3, <1>4 DEF SerialInv

LEMMA SerialStartInv == SerialStart => SerialInv
<1> SUFFICES ASSUME SerialStart PROVE SerialInv
  OBVIOUS
<1>1. <<>> \in Queues
  BY EmptySeq DEF Queues
<1>2. at = "setup" /\ thread.i = 1 /\ primary_com_port = NULL /\ NULL = 0
  BY DEF SerialStart, at, NULL
<1>3. \A p \in Port : /\ uart[p] \in [attached : BOOLEAN, loopback : {FALSE}, tx : {<<>>}, rx : {<<>>}]
                      /\ status[p] = "BUSY" /\ line[p].out = <<>>
                      /\ sent[p] = <<>> /\ got[p] = <<>>
  BY DEF SerialStart
<1>4. SerialTypeOK
  <2>1. uart \in [Port -> [attached : BOOLEAN, loopback : BOOLEAN, tx : Queues, rx : Queues]]
    BY <1>1 DEF SerialStart
  <2>2. 1 \in 1 .. COM_PORT_COUNT + 1
    BY PortFacts
  <2>3. thread \in ThreadType
    BY <1>1, <2>2 DEF SerialStart, ThreadType, Positions
  <2> QED
    BY <1>1, <2>1, <2>3 DEF SerialStart, SerialTypeOK, ThreadType, Positions
<1>5. 1 \in Port /\ \A p \in Port : ~ p < 1
  BY PortFacts DEF Port
<1>6. Place /\ Tried /\ Console
  <2>1. Place
    BY <1>2, <1>5 DEF Place
  <2>2. Tried
    BY <1>2, <1>3, <1>5 DEF Tried
  <2>3. Console
    BY <1>2, <1>5 DEF Console, ConsoleConnected
  <2> QED
    BY <2>1, <2>2, <2>3
<1>7. ASSUME NEW p \in Port
      PROVE  Output(p) /\ Input(p)
  BY <1>2, <1>3 DEF Output, Input, Tested
<1> QED
  BY <1>4, <1>6, <1>7 DEF SerialInv

LEMMA SerialStepInv == SerialInv /\ [SerialNext]_serialVars => SerialInv'
<1> SUFFICES ASSUME SerialInv, [SerialNext]_serialVars PROVE SerialInv'
  OBVIOUS
<1>1. CASE Driver
  BY <1>1, ProgramStep, SendTestStep, TestFailsStep, TestPassesStep, LoopbackOffStep,
     ReportedStep, SendCharStep, SendDoneStep, ReadCharStep, ReadNothingStep DEF Driver
<1>2. CASE Client
  BY <1>2, ClientStep
<1>3. CASE Error \/ NonMaskable
  BY <1>3, TraceStep
<1>4. CASE \E p \in Port : Transmit(p)
  BY <1>4, TransmitStep
<1>5. CASE \E p \in Port, b \in Byte : Arrive(p, b)
  BY <1>5, ArriveStep
<1>6. CASE UNCHANGED serialVars
  BY <1>6, SerialStutter
<1> QED
  BY <1>1, <1>2, <1>3, <1>4, <1>5, <1>6 DEF SerialNext

-----------------------------------------------------------------------------
(***************************************************************************)
(* The theorems.                                                           *)
(***************************************************************************)

(* However many ports there are, with or without a UART, and whatever      *)
(* arrives on their lines while they are tested, the parts of SerialInv    *)
(* hold of serial_init and of all that comes after it.                     *)
THEOREM SerialInvariance == SerialSpec => []SerialInv
BY SerialStartInv, SerialStepInv, PTL DEF SerialSpec

(* The driver's variables and the UARTs keep their types: the index of     *)
(* serial_init never gets further past the last port than one.             *)
THEOREM SerialTypeCorrect == SerialSpec => []SerialTypeOK
<1>1. SerialInv => SerialTypeOK
  BY DEF SerialInv
<1> QED
  BY <1>1, SerialInvariance, PTL

(* printk, ASSERT and ERROR never talk to a port that did not pass its     *)
(* test, or that is in loopback mode, and the console is the first that    *)
(* did pass.                                                               *)
THEOREM ConsoleCorrect == SerialSpec => []ConsoleConnected
<1>1. SerialInv => ConsoleConnected
  BY DEF SerialInv, Console
<1> QED
  BY <1>1, SerialInvariance, PTL

(* com_send loses no character of a READY port and repeats none, although  *)
(* an NMI or an ASSERT may break a message off anywhere.                   *)
THEOREM OutputCorrect == SerialSpec => []OutputComplete
<1>1. SerialInv => OutputComplete
  BY DEF SerialInv, Output, OutputComplete
<1> QED
  BY <1>1, SerialInvariance, PTL

(* com_read returns what arrived on the line of a READY port, in order,    *)
(* whatever the length of its queue, with one test byte at most in it.     *)
THEOREM InputCorrect == SerialSpec => []InputInOrder
<1>1. SerialInv => InputInOrder
  <2>1. ASSUME SerialInv, NEW p \in Port, status[p] = "READY"
        PROVE  Received(got[p], line[p].in)
    <3>1. Received(got[p] \o uart[p].rx, line[p].in)
      BY <2>1 DEF SerialInv, Input
    <3>2. got[p] \in Queues /\ uart[p].rx \in Queues
      BY <2>1, TypeFacts DEF SerialInv
    <3> QED
      BY <3>1, <3>2, ReceivedPrefix
  <2> QED
    BY <2>1 DEF InputInOrder
<1> QED
  BY <1>1, SerialInvariance, PTL

-----------------------------------------------------------------------------
(***************************************************************************)
(* The report of a failure.                                                *)
(***************************************************************************)

LEMMA SuffixIs ==
  ASSUME NEW s \in Queues, NEW t \in Queues
  PROVE  IsSuffix(t, s \o t)
<1> DEFINE u == s \o t
<1>1. /\ Len(s) \in Nat /\ Len(t) \in Nat /\ Len(u) = Len(s) + Len(t)
      /\ \A k \in 1 .. Len(t) : u[Len(s) + k] = t[k]
  BY ConcatProperties, LenProperties DEF Queues
<1> HIDE DEF u
<1>2. /\ Len(Reverse(t)) = Len(t) /\ Len(Reverse(u)) = Len(u)
      /\ \A k \in 1 .. Len(t) : Reverse(t)[k] = t[(Len(t) - k) + 1]
      /\ \A k \in 1 .. Len(u) : Reverse(u)[k] = u[(Len(u) - k) + 1]
  BY <1>1 DEF Reverse
<1>3. ASSUME NEW k \in 1 .. Len(t)
      PROVE  Reverse(t)[k] = Reverse(u)[k]
  <2>1. /\ k \in 1 .. Len(u) /\ (Len(t) - k) + 1 \in 1 .. Len(t)
        /\ (Len(u) - k) + 1 = Len(s) + ((Len(t) - k) + 1)
    BY <1>1
  <2> QED
    BY <1>1, <1>2, <2>1
<1>4. SubSeq(Reverse(t), 1, Len(t)) = SubSeq(Reverse(u), 1, Len(t))
  BY <1>1, <1>2, <1>3
<1>5. IsSuffix(t, u)
  BY <1>1, <1>2, <1>4 DEF IsSuffix, IsPrefix
<1> QED
  BY <1>5 DEF u

(* Until the failure there is a console wherever one can happen; after it  *)
(* the report is printed there.                                            *)
ReportInv ==
  /\ at \in {"report", "idle", "print", "read", "stopped"} => primary_com_port # NULL
  /\ failure # "none" /\ at = "print" => io = primary_com_port
  /\ ReportLast

(* A step that fails nothing, and changes nothing of a report.             *)
LEMMA ReportSame ==
  ASSUME ReportInv, SerialTypeOK, failure' = failure,
         primary_com_port # NULL => primary_com_port' = primary_com_port,
         at' \in {"report", "idle", "print", "read", "stopped"} => primary_com_port' # NULL,
         failure # "none" =>
           /\ at' \in {"print", "stopped"}
           /\ at' = "print" => io' = primary_com_port
           /\ Ahead(primary_com_port)' = Ahead(primary_com_port)
  PROVE  ReportInv'
<1>1. CASE failure = "none"
  BY <1>1 DEF ReportInv, ReportLast
<1>2. CASE failure # "none"
  <2>1. primary_com_port' = primary_com_port /\ primary_com_port # NULL
    BY <1>2 DEF ReportInv, ReportLast
  <2>2. IsSuffix(Report(failure), Ahead(primary_com_port))
    BY <1>2 DEF ReportInv, ReportLast
  <2> QED
    BY <1>2, <2>1, <2>2 DEF ReportInv, ReportLast
<1> QED
  BY <1>1, <1>2

(* serial_init, and what is done where nothing has failed.                 *)
LEMMA EarlyReport ==
  ASSUME ReportInv, SerialInv,
         \/ Program \/ SendTest \/ TestFails \/ TestPasses \/ LoopbackOff \/ Reported
         \/ ReadChar \/ ReadNothing \/ Client
  PROVE  ReportInv'
<1>1. SerialTypeOK /\ primary_com_port \in Port \cup {NULL} /\ thread.i \in 1 .. COM_PORT_COUNT + 1
  BY DEF SerialInv, SerialTypeOK
<1>2. at \notin {"print", "stopped"} => failure = "none"
  BY DEF ReportInv, ReportLast
<1>3. CASE Program \/ SendTest \/ TestPasses
  <2>1. /\ at \in {"setup", "test", "check"} /\ at' \in {"test", "check", "loopback_off"}
        /\ primary_com_port' = primary_com_port /\ failure' = failure
    BY <1>1, <1>3 DEF Program, SendTest, TestPasses, ports, at, SerialTypeOK
  <2> QED
    BY <1>1, <1>2, <2>1, ReportSame
<1>4. CASE TestFails
  <2>1. /\ at = "check" /\ NextPort
        /\ primary_com_port' = primary_com_port /\ failure' = failure
    BY <1>4 DEF TestFails
  <2>2. at' \in {"setup", "halted", "report"} /\ (at' = "report" => primary_com_port # NULL)
    BY <1>1, <2>1 DEF NextPort, at, SerialTypeOK
  <2> QED
    BY <1>1, <1>2, <2>1, <2>2, ReportSame
<1>5. CASE LoopbackOff
  <2>1. /\ at = "loopback_off" /\ at' = "report" /\ failure' = failure
        /\ primary_com_port' = IF primary_com_port = NULL THEN thread.i ELSE primary_com_port
    BY <1>1, <1>5 DEF LoopbackOff, PortWorks, at, SerialTypeOK
  <2>2. primary_com_port' # NULL
    BY <1>1, <2>1, PortFacts DEF NULL
  <2> QED
    BY <1>1, <1>2, <2>1, <2>2, ReportSame
<1>6. CASE Reported
  <2>1. /\ at = "report" /\ failure' = failure /\ primary_com_port' = primary_com_port
    BY <1>6 DEF Reported, ports
  <2>2. primary_com_port # NULL
    BY <2>1 DEF ReportInv
  <2> QED
    BY <1>1, <1>2, <2>1, <2>2, ReportSame
<1>7. CASE ReadChar \/ ReadNothing
  <2>1. /\ at = "read" /\ failure' = failure /\ primary_com_port' = primary_com_port
    BY <1>7 DEF ReadChar, ReadNothing, Take, ports
  <2>2. primary_com_port # NULL
    BY <2>1 DEF ReportInv
  <2> QED
    BY <1>1, <1>2, <2>1, <2>2, ReportSame
<1>8. CASE Client
  <2>1. /\ at = "idle" /\ failure' = failure /\ primary_com_port' = primary_com_port
    BY <1>8 DEF Client, com_sends, com_reads, ClientCall, ports
  <2>2. primary_com_port # NULL
    BY <2>1 DEF ReportInv
  <2> QED
    BY <1>1, <1>2, <2>1, <2>2, ReportSame
<1> QED
  BY <1>3, <1>4, <1>5, <1>6, <1>7, <1>8

LEMMA SendDoneReport ==
  ASSUME ReportInv, SerialInv, SendDone
  PROVE  ReportInv'
<1>1. /\ at = "print" /\ thread.text = <<>> /\ failure' = failure
      /\ primary_com_port' = primary_com_port /\ uart' = uart /\ line' = line
      /\ SerialTypeOK /\ primary_com_port # NULL
      /\ thread' = Returned(IF failure = "none" THEN "idle" ELSE "stopped")
  BY DEF SendDone, ports, SerialInv, ReportInv
<1>2. at' = IF failure = "none" THEN "idle" ELSE "stopped"
  BY <1>1 DEF Returned, SerialTypeOK, at
<1>3. failure # "none" => Ahead(primary_com_port)' = Ahead(primary_com_port)
  BY <1>1, <1>2 DEF Ahead
<1> QED
  BY <1>1, <1>2, <1>3, ReportSame

(* A character of the report goes from the text to the UART.               *)
LEMMA SendCharReport ==
  ASSUME ReportInv, SerialInv, SendChar
  PROVE  ReportInv'
<1> DEFINE c == Head(thread.text)
<1>1. /\ at \in {"report", "print"} /\ thread.text # <<>> /\ ComSend(io, c)
      /\ thread' = [thread EXCEPT !.text = Tail(@)] /\ failure' = failure
      /\ primary_com_port' = primary_com_port /\ line' = line
      /\ SerialTypeOK /\ primary_com_port # NULL
  BY DEF SendChar, ports, SerialInv, ReportInv
<1>2. c \in Bytes /\ Tail(thread.text) \in Queues
  BY <1>1, HeadTailProperties DEF SerialTypeOK, Queues
<1>3. at' = at /\ io' = io /\ thread'.text = Tail(thread.text)
  BY <1>1 DEF SerialTypeOK, at, io
<1>4. ASSUME failure # "none"
      PROVE  Ahead(primary_com_port)' = Ahead(primary_com_port)
  <2> DEFINE p == primary_com_port
  <2>1. at = "print" /\ io = p /\ p \in Port
    BY <1>1, <1>4 DEF ReportInv, ReportLast, SerialTypeOK
  <2>2. status[p] = "READY" /\ uart[p] \in Uart /\ uart[p].attached /\ line[p].out \in Queues
    BY <1>1, <2>1, TypeFacts DEF SerialInv, Console, ConsoleConnected, Output
  <2> HIDE DEF c
  <2>3. uart[p].tx = <<>> /\ uart' = [uart EXCEPT ![p] = Written(@, c)]
    BY <1>1, <2>1, <2>2 DEF ComSend, can_send
  <2>4. uart'[p].tx = <<c>>
    <3>1. Enqueue(<<>>, c) = <<c>>
      BY SerialAssumption, EmptySeq DEF Enqueue
    <3>2. Written(uart[p], c).tx = Enqueue(<<>>, c)
      BY <1>2, <2>2, <2>3, WrittenIs
    <3>3. uart'[p] = Written(uart[p], c)
      BY <1>1, <2>1, <2>3, TypeFacts
    <3> QED
      BY <3>1, <3>2, <3>3
  <2> DEFINE q == line[p].out
  <2>5. (q \o <<c>>) \o Tail(thread.text) = (q \o <<>>) \o thread.text
    <3>1. thread.text \in Queues
      BY <1>1, TypeFacts
    <3>2. Append(q, c) \o Tail(thread.text) = q \o thread.text
      BY <1>1, <2>2, <3>1, MoveHead DEF c
    <3>3. q \o <<c>> = Append(q, c)
      BY <1>2, <2>2, AppendIsConcat DEF Queues
    <3>4. q \o <<>> = q
      BY <2>2, ConcatEmptySeq DEF Queues
    <3> QED
      BY <3>2, <3>3, <3>4
  <2>6. Ahead(p) = (q \o <<>>) \o thread.text
    BY <2>1, <2>3 DEF Ahead
  <2>7. Ahead(p)' = (q \o <<c>>) \o Tail(thread.text)
    BY <1>1, <1>3, <2>1, <2>4 DEF Ahead
  <2> HIDE DEF q
  <2> QED
    BY <2>5, <2>6, <2>7
<1>5. failure # "none" => at' \in {"print", "stopped"} /\ (at' = "print" => io' = primary_com_port)
  BY <1>3 DEF ReportInv, ReportLast
<1> HIDE DEF c
<1> QED
  BY <1>1, <1>4, <1>5, ReportSame

(* The UART passes on a byte.                                              *)
LEMMA TransmitReport ==
  ASSUME ReportInv, SerialInv, NEW p \in Port, Transmit(p)
  PROVE  ReportInv'
<1>1. /\ thread' = thread /\ at' = at /\ io' = io /\ failure' = failure
      /\ primary_com_port' = primary_com_port /\ SerialTypeOK /\ uart[p].tx # <<>>
  BY DEF Transmit, ports, SerialInv, at, io
<1>2. /\ \A q \in Port : q # p => uart'[q] = uart[q] /\ line'[q] = line[q]
      /\ ~ uart[p].loopback => /\ uart'[p].tx = Tail(uart[p].tx)
                               /\ line'[p].out = Append(line[p].out, Head(uart[p].tx))
  <2> DEFINE b == Head(uart[p].tx)
             v == [uart[p] EXCEPT !.tx = Tail(@)]
  <2>1. uart \in [Port -> Uart] /\ uart[p] \in Uart /\ line \in [Port -> Line]
    BY <1>1, TypeFacts DEF SerialTypeOK, Line
  <2>2. v.tx = Tail(uart[p].tx)
    BY <2>1 DEF Uart
  <2>3. CASE uart[p].loopback
    <3>1. line' = line /\ \A q \in Port : q # p => uart'[q] = uart[q]
      BY <2>1, <2>3 DEF Transmit
    <3> QED
      BY <2>3, <3>1
  <2>4. CASE ~ uart[p].loopback
    <3>1. uart' = [uart EXCEPT ![p] = v] /\ line' = [line EXCEPT ![p].out = Append(@, b)]
      BY <2>4 DEF Transmit
    <3>2. Append(line[p].out, b) \in Queues
      BY <1>1, TypeFacts, MoveHead
    <3> HIDE DEF v, b
    <3>3. uart'[p] = v /\ \A q \in Port : q # p => uart'[q] = uart[q]
      BY <2>1, <3>1
    <3>4. line'[p].out = Append(line[p].out, b) /\ \A q \in Port : q # p => line'[q] = line[q]
      BY <2>1, <3>1, <3>2, LineOut
    <3> QED
      BY <2>2, <3>3, <3>4 DEF b
  <2> QED
    BY <2>3, <2>4
<1>3. ASSUME failure # "none"
      PROVE  Ahead(primary_com_port)' = Ahead(primary_com_port)
  <2> DEFINE q == primary_com_port
  <2>1. q \in Port /\ ~ uart[q].loopback
    BY <1>1, <1>3 DEF ReportInv, ReportLast, SerialTypeOK, SerialInv, Console, ConsoleConnected
  <2>2. line'[q].out \o uart'[q].tx = line[q].out \o uart[q].tx
    <3>1. CASE q # p
      BY <1>2, <2>1, <3>1
    <3>2. CASE q = p
      <4>1. /\ line'[p].out = Append(line[p].out, Head(uart[p].tx))
            /\ uart'[p].tx = Tail(uart[p].tx)
        BY <1>2, <2>1, <3>2
      <4>2. line[p].out \in Queues /\ uart[p].tx \in Queues
        BY <1>1, TypeFacts
      <4>3. Append(line[p].out, Head(uart[p].tx)) \o Tail(uart[p].tx) = line[p].out \o uart[p].tx
        BY <1>1, <4>2, MoveHead
      <4> QED
        BY <3>2, <4>1, <4>3
    <3> QED
      BY <3>1, <3>2
  <2> QED
    BY <1>1, <2>2 DEF Ahead
<1>4. failure # "none" => at' \in {"print", "stopped"} /\ (at' = "print" => io' = primary_com_port)
  BY <1>1 DEF ReportInv, ReportLast
<1> QED
  BY <1>1, <1>3, <1>4, ReportSame DEF ReportInv

(* A byte arrives: that is nothing to the transmitter.                     *)
LEMMA ArriveReport ==
  ASSUME ReportInv, SerialInv, NEW p \in Port, NEW b \in Byte, Arrive(p, b)
  PROVE  ReportInv'
<1>1. /\ thread' = thread /\ at' = at /\ io' = io /\ failure' = failure
      /\ primary_com_port' = primary_com_port /\ SerialTypeOK
  BY DEF Arrive, ports, SerialInv, at, io
<1>2. ASSUME NEW q \in Port
      PROVE  uart'[q].tx = uart[q].tx /\ line'[q].out = line[q].out
  <2>1. uart \in [Port -> Uart] /\ line \in [Port -> Line]
    BY <1>1, TypeFacts DEF SerialTypeOK, Line
  <2>2. uart' = [uart EXCEPT ![p].rx = Enqueue(@, b)]
        /\ line' = [line EXCEPT ![p].in = Append(@, b)]
    BY DEF Arrive
  <2>3. uart'[q].tx = uart[q].tx
    BY <2>1, <2>2 DEF Uart
  <2>4. line'[q].out = line[q].out
    BY <2>1, <2>2 DEF Line
  <2> QED
    BY <2>3, <2>4
<1>3. ASSUME failure # "none"
      PROVE  Ahead(primary_com_port)' = Ahead(primary_com_port)
  <2>1. primary_com_port \in Port
    BY <1>1, <1>3 DEF ReportInv, ReportLast, SerialTypeOK
  <2> QED
    BY <1>1, <1>2, <2>1 DEF Ahead
<1>4. failure # "none" => at' \in {"print", "stopped"} /\ (at' = "print" => io' = primary_com_port)
  BY <1>1 DEF ReportInv, ReportLast
<1> QED
  BY <1>1, <1>3, <1>4, ReportSame DEF ReportInv

(* What is ahead of the report is behind it on the line.                   *)
LEMMA TraceReport ==
  ASSUME ReportInv, SerialInv, Error \/ NonMaskable
  PROVE  ReportInv'
<1>1. PICK kind \in {"error", "nmi"} : Trace(kind)
  BY DEF Error, NonMaskable
<1>2. /\ at \in {"idle", "print", "read", "stopped"} /\ SerialTypeOK
      /\ primary_com_port # NULL
  BY DEF Error, NonMaskable, SerialInv, ReportInv
<1>3. /\ failure' = kind /\ primary_com_port' = primary_com_port /\ uart' = uart /\ line' = line
      /\ at' = "print" /\ io' = primary_com_port /\ thread'.text = Report(kind)
  BY <1>1, <1>2 DEF Trace, ports, SerialTypeOK, at, io
<1>4. Report(kind) \in Queues
  BY TextType DEF Text
<1>5. primary_com_port \in Port
  BY <1>2 DEF SerialTypeOK
<1> DEFINE s == line[primary_com_port].out \o uart[primary_com_port].tx
<1>6. s \in Queues
  BY <1>2, <1>5, TypeFacts, ConcatProperties DEF Queues
<1>7. Ahead(primary_com_port)' = s \o Report(kind)
  BY <1>3 DEF Ahead
<1> HIDE DEF s
<1>8. IsSuffix(Report(kind), s \o Report(kind))
  BY <1>4, <1>6, SuffixIs
<1>9. ReportLast'
  BY <1>2, <1>3, <1>7, <1>8 DEF ReportLast
<1> QED
  BY <1>2, <1>3, <1>9 DEF ReportInv

LEMMA ReportStart == SerialStart => ReportInv
BY DEF SerialStart, ReportInv, ReportLast, at

LEMMA ReportStep == ReportInv /\ SerialInv /\ [SerialNext]_serialVars => ReportInv'
<1> SUFFICES ASSUME ReportInv, SerialInv, [SerialNext]_serialVars PROVE ReportInv'
  OBVIOUS
<1>1. CASE Driver
  BY <1>1, EarlyReport, SendDoneReport, SendCharReport DEF Driver
<1>2. CASE Client
  BY <1>2, EarlyReport
<1>3. CASE Error \/ NonMaskable
  BY <1>3, TraceReport
<1>4. CASE \E p \in Port : Transmit(p)
  BY <1>4, TransmitReport
<1>5. CASE \E p \in Port, b \in Byte : Arrive(p, b)
  BY <1>5, ArriveReport
<1>6. CASE UNCHANGED serialVars
  BY <1>6 DEF serialVars, ports, history, at, io, ReportInv, ReportLast, Ahead
<1> QED
  BY <1>1, <1>2, <1>3, <1>4, <1>5, <1>6 DEF SerialNext

(* Wherever an ASSERT, an exception or an NMI stopped the kernel, and with *)
(* whatever in the UART, its report is the last thing on its way to the    *)
(* console, and no character of it gets lost there.                        *)
THEOREM ReportCorrect == SerialSpec => []ReportLast
<1>1. SerialSpec => []ReportInv
  BY ReportStart, ReportStep, SerialInvariance, PTL DEF SerialSpec
<1>2. ReportInv => ReportLast
  BY DEF ReportInv
<1> QED
  BY <1>1, <1>2, PTL
=============================================================================
