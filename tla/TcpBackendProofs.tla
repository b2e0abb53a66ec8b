-------------------------- MODULE TcpBackendProofs --------------------------
(***************************************************************************)
(* Proofs, for any number of lookups, any header sizes and any buffer      *)
(* limit, of the safety properties of TcpBackend and of its implementing   *)
(* the TunnelBackend contract (liveness aside).                            *)
(***************************************************************************)
EXTENDS TcpBackendProperties, SequenceTheorems, FiniteSetTheorems, TLAPS

-----------------------------------------------------------------------------
(* What appending to, taking from and leaving a queue without duplicates   *)
(* does to the set of those in it: the lock's queue and the write buffer.  *)

(* Append adds one element at the end; a queue that did not hold it stays  *)
(* free of duplicates.                                                     *)
LEMMA AppendToQueue ==
    ASSUME NEW S, NEW q \in Seq(S), NEW e \in S
    PROVE  /\ Append(q, e) \in Seq(S)
           /\ ToSet(Append(q, e)) = ToSet(q) \union {e}
           /\ IsInjective(q) /\ e \notin ToSet(q) => IsInjective(Append(q, e))
<1> DEFINE a == Append(q, e)
<1>1. /\ a \in Seq(S)
      /\ Len(a) = Len(q) + 1
      /\ \A i \in 1 .. Len(q) : a[i] = q[i]
      /\ a[Len(q) + 1] = e
      /\ DOMAIN a = 1 .. Len(q) + 1
      /\ DOMAIN q = 1 .. Len(q)
      /\ Len(q) \in Nat
  BY AppendProperties, LenProperties
<1> HIDE DEF a
<1>2. ToSet(a) = ToSet(q) \union {e}
  <2>1. ASSUME NEW x \in ToSet(a) PROVE x \in ToSet(q) \union {e}
    BY <1>1 DEF ToSet
  <2>2. ASSUME NEW x \in ToSet(q) \union {e} PROVE x \in ToSet(a)
    <3>1. CASE x = e
      BY <1>1, <3>1 DEF ToSet
    <3>2. CASE x \in ToSet(q)
      BY <1>1, <3>2 DEF ToSet
    <3> QED BY <2>2, <3>1, <3>2
  <2> QED BY <2>1, <2>2
<1>3. ASSUME IsInjective(q), e \notin ToSet(q) PROVE IsInjective(a)
  BY <1>1, <1>3 DEF IsInjective, ToSet
<1> QED BY <1>1, <1>2, <1>3 DEF a

(* Taking the head of a queue without duplicates removes exactly it.       *)
LEMMA TakeFromQueue ==
    ASSUME NEW S, NEW q \in Seq(S), q # <<>>
    PROVE  /\ Head(q) \in S
           /\ Head(q) \in ToSet(q)
           /\ Tail(q) \in Seq(S)
           /\ ToSet(Tail(q)) \subseteq ToSet(q)
           /\ IsInjective(q) => /\ IsInjective(Tail(q))
                                /\ ToSet(Tail(q)) = ToSet(q) \ {Head(q)}
<1> DEFINE t == Tail(q)
<1>1. /\ Head(q) = q[1]
      /\ Head(q) \in S
      /\ Len(q) \in Nat \ {0}
      /\ DOMAIN q = 1 .. Len(q)
      /\ t \in Seq(S)
      /\ Len(t) = Len(q) - 1
      /\ DOMAIN t = 1 .. Len(q) - 1
      /\ \A i \in 1 .. Len(q) - 1 : t[i] = q[i + 1]
  <2>1. /\ Head(q) \in S /\ t \in Seq(S) /\ Len(t) = Len(q) - 1
        /\ \A i \in 1 .. Len(t) : t[i] = q[i + 1]
    BY HeadTailProperties
  <2>2. DOMAIN t = 1 .. Len(t) /\ DOMAIN q = 1 .. Len(q) /\ Len(q) \in Nat
    BY <2>1, LenProperties
  <2>3. Head(q) = q[1] /\ Len(q) # 0
    BY EmptySeq
  <2> QED BY <2>1, <2>2, <2>3
<1> HIDE DEF t
<1>2. Head(q) \in ToSet(q)
  BY <1>1 DEF ToSet
<1>3. ToSet(t) \subseteq ToSet(q)
  BY <1>1 DEF ToSet
<1>4. ASSUME IsInjective(q) PROVE IsInjective(t) /\ ToSet(t) = ToSet(q) \ {Head(q)}
  <2>1. ASSUME NEW i \in DOMAIN t, NEW j \in DOMAIN t, t[i] = t[j] PROVE i = j
    <3>1. i + 1 \in DOMAIN q /\ j + 1 \in DOMAIN q /\ i \in Int /\ j \in Int
      BY <1>1
    <3>2. q[i + 1] = q[j + 1]
      BY <1>1, <2>1
    <3>3. i + 1 = j + 1
      BY <1>4, <3>1, <3>2 DEF IsInjective
    <3> QED BY <3>1, <3>3
  <2>2. Head(q) \notin ToSet(t)
    BY <1>1, <1>4 DEF IsInjective, ToSet
  <2>3. ASSUME NEW x \in ToSet(q) \ {Head(q)} PROVE x \in ToSet(t)
    <3>1. PICK i \in 1 .. Len(q) : x = q[i]
      BY <1>1 DEF ToSet
    <3>2. i # 1 /\ i - 1 \in 1 .. Len(q) - 1
      BY <1>1, <3>1
    <3>3. t[i - 1] = x
      BY <1>1, <3>1, <3>2
    <3> QED BY <1>1, <3>2, <3>3 DEF ToSet
  <2> QED BY <1>3, <2>1, <2>2, <2>3 DEF IsInjective
<1> QED BY <1>1, <1>2, <1>3, <1>4 DEF t

(* Leaving a queue without duplicates from any place removes exactly the   *)
(* one who left.                                                           *)
LEMMA LeaveQueue ==
    ASSUME NEW S, NEW q \in Seq(S), IsInjective(q), NEW k \in DOMAIN q
    PROVE  /\ RemoveAt(q, k) \in Seq(S)
           /\ IsInjective(RemoveAt(q, k))
           /\ ToSet(RemoveAt(q, k)) = ToSet(q) \ {q[k]}
<1> DEFINE n == Len(q)
           u == SubSeq(q, 1, k - 1)
           w == SubSeq(q, k + 1, n)
           r == RemoveAt(q, k)
<1>1. n \in Nat /\ k \in 1 .. n /\ DOMAIN q = 1 .. n
  BY LenProperties
<1>2. /\ u \in Seq(S) /\ Len(u) = k - 1
      /\ \A i \in 1 .. k - 1 : u[i] = q[i]
  <2>1. \A i \in 1 .. k - 1 : q[i] \in S
    BY <1>1, ElementOfSeq
  <2> QED BY <1>1, <2>1, SubSeqProperties
<1>3. /\ w \in Seq(S) /\ Len(w) = n - k
      /\ \A i \in 1 .. n - k : w[i] = q[k + i]
  <2>1. \A i \in k + 1 .. n : q[i] \in S
    BY <1>1, ElementOfSeq
  <2>2. k + 1 \in Int /\ n \in Int
    BY <1>1
  <2>3. /\ w \in Seq(S)
        /\ Len(w) = IF k + 1 <= n THEN n - (k + 1) + 1 ELSE 0
        /\ \A i \in 1 .. n - (k + 1) + 1 : w[i] = q[(k + 1) + i - 1]
    BY <2>1, <2>2, SubSeqProperties
  <2> QED BY <1>1, <2>3
<1>4. r = u \o w
  BY DEF RemoveAt
<1> HIDE DEF n, u, w, r
<1>5. /\ r \in Seq(S) /\ Len(r) = n - 1
      /\ DOMAIN r = 1 .. n - 1
      /\ \A i \in 1 .. n - 1 : r[i] = IF i < k THEN q[i] ELSE q[i + 1]
  <2>1. /\ r \in Seq(S) /\ Len(r) = Len(u) + Len(w)
        /\ \A i \in 1 .. Len(u) + Len(w) : r[i] = IF i <= Len(u) THEN u[i] ELSE w[i - Len(u)]
    BY <1>2, <1>3, <1>4, ConcatProperties
  <2>2. DOMAIN r = 1 .. Len(r)
    BY <2>1, LenProperties
  <2>3. Len(u) + Len(w) = n - 1
    BY <1>1, <1>2, <1>3
  <2>4. ASSUME NEW i \in 1 .. n - 1 PROVE r[i] = IF i < k THEN q[i] ELSE q[i + 1]
    <3>1. CASE i < k
      BY <1>1, <1>2, <2>1, <2>3, <3>1
    <3>2. CASE ~(i < k)
      <4>1. i - (k - 1) \in 1 .. n - k /\ k + (i - (k - 1)) = i + 1
        BY <1>1, <3>2
      <4>2. r[i] = w[i - (k - 1)]
        BY <1>1, <1>2, <2>1, <2>3, <3>2
      <4> QED BY <1>3, <3>2, <4>1, <4>2
    <3> QED BY <3>1, <3>2
  <2> QED BY <2>1, <2>2, <2>3, <2>4
<1> DEFINE from(i) == IF i < k THEN i ELSE i + 1
<1>6. \A i \in 1 .. n - 1 : /\ from(i) \in DOMAIN q
                            /\ from(i) # k
                            /\ r[i] = q[from(i)]
                            /\ \A j \in 1 .. n - 1 : from(i) = from(j) => i = j
  BY <1>1, <1>5
<1> HIDE DEF from
<1>7. IsInjective(r)
  BY <1>5, <1>6 DEF IsInjective
<1>8. ASSUME NEW x \in ToSet(r) PROVE x \in ToSet(q) /\ x # q[k]
  <2>1. PICK i \in 1 .. n - 1 : x = r[i]
    BY <1>5 DEF ToSet
  <2> QED BY <1>6, <2>1 DEF ToSet, IsInjective
<1>9. ASSUME NEW x \in ToSet(q), x # q[k] PROVE x \in ToSet(r)
  <2>1. PICK i \in 1 .. n : x = q[i]
    BY <1>1 DEF ToSet
  <2>2. CASE i < k
    BY <1>1, <1>5, <2>1, <2>2 DEF ToSet
  <2>3. CASE i > k
    <3>1. i - 1 \in 1 .. n - 1 /\ r[i - 1] = x
      BY <1>1, <1>5, <2>1, <2>3
    <3> QED BY <1>5, <3>1 DEF ToSet
  <2> QED BY <1>1, <1>9, <2>1, <2>2, <2>3
<1> QED BY <1>5, <1>7, <1>8, <1>9 DEF r

-----------------------------------------------------------------------------
(* The reply lines.                                                        *)

(* A line the API sends adds the request it names, and only that.          *)
LEMMA AnswerSent ==
    ASSUME NEW q \in Seq(Replies), NEW f \in Replies
    PROVE  /\ Append(q, f) \in Seq(Replies)
           /\ Named(Append(q, f)) = Named(q) \union ({f.id} \ {NoOne})
           /\ OnceEach(q) /\ f.id \notin Named(q) => OnceEach(Append(q, f))
           /\ \A i \in DOMAIN Append(q, f) :
                 Append(q, f)[i] = f \/ (i \in DOMAIN q /\ Append(q, f)[i] = q[i])
<1> DEFINE a == Append(q, f)
<1>1. /\ a \in Seq(Replies)
      /\ \A i \in 1 .. Len(q) : a[i] = q[i]
      /\ a[Len(q) + 1] = f
      /\ DOMAIN a = 1 .. Len(q) + 1
      /\ DOMAIN q = 1 .. Len(q)
      /\ Len(q) \in Nat
  BY AppendProperties, LenProperties
<1> HIDE DEF a
<1>2. \A i \in DOMAIN a : a[i] = f \/ (i \in DOMAIN q /\ a[i] = q[i])
  BY <1>1
<1>3. Named(a) = Named(q) \union ({f.id} \ {NoOne})
  <2>1. \A i \in DOMAIN q : i \in DOMAIN a /\ a[i] = q[i]
    BY <1>1
  <2>2. Len(q) + 1 \in DOMAIN a
    BY <1>1
  <2> QED BY <1>1, <1>2, <2>1, <2>2 DEF Named
<1>4. ASSUME OnceEach(q), f.id \notin Named(q) PROVE OnceEach(a)
  <2> SUFFICES ASSUME NEW i \in DOMAIN a, NEW j \in DOMAIN a,
                      a[i].id = a[j].id, a[i].id # NoOne
               PROVE  i = j
    BY DEF OnceEach
  <2>1. CASE i \in DOMAIN q /\ j \in DOMAIN q
    BY <1>1, <1>4, <2>1 DEF OnceEach
  <2>2. CASE i \notin DOMAIN q /\ j \notin DOMAIN q
    BY <1>1, <2>2
  <2>3. CASE i \in DOMAIN q /\ j \notin DOMAIN q
    <3>1. a[i] = q[i] /\ a[j] = f
      BY <1>1, <2>3
    <3> QED BY <1>4, <2>3, <3>1 DEF Named
  <2>4. CASE i \notin DOMAIN q /\ j \in DOMAIN q
    <3>1. a[i] = f /\ a[j] = q[j]
      BY <1>1, <2>4
    <3> QED BY <1>4, <2>4, <3>1 DEF Named
  <2> QED BY <2>1, <2>2, <2>3, <2>4
<1> QED BY <1>1, <1>2, <1>3, <1>4 DEF a

(* Reading the first line leaves the others as they were.                  *)
LEMMA AnswerRead ==
    ASSUME NEW q \in Seq(Replies), q # <<>>
    PROVE  /\ Head(q) \in Replies
           /\ 1 \in DOMAIN q /\ Head(q) = q[1]
           /\ Tail(q) \in Seq(Replies)
           /\ Named(Tail(q)) \subseteq Named(q)
           /\ OnceEach(q) => OnceEach(Tail(q))
           /\ \A i \in DOMAIN Tail(q) : i + 1 \in DOMAIN q /\ Tail(q)[i] = q[i + 1]
<1> DEFINE t == Tail(q)
<1>1. /\ Head(q) \in Replies /\ t \in Seq(Replies) /\ Len(t) = Len(q) - 1
      /\ \A i \in 1 .. Len(t) : t[i] = q[i + 1]
  BY HeadTailProperties
<1>2. DOMAIN t = 1 .. Len(t) /\ DOMAIN q = 1 .. Len(q) /\ Len(q) \in Nat
  BY <1>1, LenProperties
<1>3. Head(q) = q[1] /\ Len(q) # 0
  BY EmptySeq
<1> HIDE DEF t
<1>4. \A i \in DOMAIN t : i \in Int /\ i + 1 \in DOMAIN q /\ t[i] = q[i + 1]
  BY <1>1, <1>2, <1>3
<1>5. Named(t) \subseteq Named(q)
  BY <1>4 DEF Named
<1>6. ASSUME OnceEach(q) PROVE OnceEach(t)
  <2> SUFFICES ASSUME NEW i \in DOMAIN t, NEW j \in DOMAIN t,
                      t[i].id = t[j].id, t[i].id # NoOne
               PROVE  i = j
    BY DEF OnceEach
  <2>1. i + 1 = j + 1
    BY <1>4, <1>6 DEF OnceEach
  <2> QED BY <1>4, <2>1
<1> QED BY <1>1, <1>2, <1>3, <1>4, <1>5, <1>6 DEF t

-----------------------------------------------------------------------------
(* The inductive invariant: it holds initially and every action keeps it.  *)

(* Nothing has been asked, written or answered yet.                        *)
LEMMA InitEstablishes == Init => IInv
<1> SUFFICES ASSUME Init PROVE IInv
  OBVIOUS
<1>1. TypeOK
  BY LookupsAssumption DEF Init, TypeOK, Phases, Verdicts, Results
<1>2. LockDiscipline
  BY LookupsAssumption DEF Init, LockDiscipline, Holding, ToSet, IsInjective
<1>3. OneLinePerLookup /\ UnsentIsUnknown /\ AnswersAreTruthful
  BY DEF Init, OneLinePerLookup, UnsentIsUnknown, AnswersAreTruthful, OnceEach,
         Unwritten, AnswersFor, OnConnection, Named, ToSet, IsInjective
<1>4. OnlyOwnVerdict
  BY DEF Init, OnlyOwnVerdict
<1> QED BY <1>1, <1>2, <1>3, <1>4 DEF IInv

(* An admitted call joins the queue for the lock, where it was not.        *)
LEMMA AskKeeps ==
    ASSUME IInv, NEW l \in Lookups, NEW n \in HeaderBytes, NEW b \in BOOLEAN, Ask(l, n, b)
    PROVE  IInv'
<1> USE DEF IInv, serverVars
<1>1. /\ waiters' \in Seq(Lookups)
      /\ ToSet(waiters') = ToSet(waiters) \union {l}
      /\ IsInjective(waiters')
  <2>1. l \notin ToSet(waiters)
    BY DEF Ask, LockDiscipline
  <2> QED BY <2>1, AppendToQueue DEF Ask, TypeOK, LockDiscipline
<1>2. TypeOK'
  <2>1. bytes' \in [Lookups -> Nat]
    <3>1. PICK escaped \in Escaped : bytes' = [bytes EXCEPT ![l] = JsonBytes(n, escaped)]
      BY DEF Ask
    <3>2. JsonBytes(n, escaped) \in Nat
      BY SizesAssumption DEF JsonBytes
    <3> QED BY <3>1, <3>2 DEF TypeOK
  <2> QED BY <1>1, <2>1 DEF Ask, TypeOK, Phases, Awaiting
<1>3. LockDiscipline'
  BY <1>1 DEF Ask, TypeOK, LockDiscipline, Holding
<1>4. OneLinePerLookup' /\ UnsentIsUnknown' /\ AnswersAreTruthful' /\ OnlyOwnVerdict'
  BY DEF Ask, TypeOK, OneLinePerLookup, UnsentIsUnknown, Unsent, AnswersAreTruthful,
         OnlyOwnVerdict, Unwritten, AnswersFor, OnConnection
<1> QED BY <1>2, <1>3, <1>4

(* A refused call touches nothing shared.                                  *)
LEMMA RefuseKeeps ==
    ASSUME IInv, NEW l \in Lookups, NEW n \in HeaderBytes, NEW b \in BOOLEAN, Refuse(l, n, b)
    PROVE  IInv'
<1> USE DEF IInv, lockVars, serverVars
<1>1. TypeOK'
  BY DEF Refuse, TypeOK, Phases, Results, BackendErrors
<1>2. LockDiscipline'
  BY DEF Refuse, TypeOK, LockDiscipline, Holding
<1>3. OneLinePerLookup' /\ UnsentIsUnknown' /\ AnswersAreTruthful' /\ OnlyOwnVerdict'
  BY DEF Refuse, TypeOK, OneLinePerLookup, UnsentIsUnknown, Unsent, AnswersAreTruthful,
         OnlyOwnVerdict, Unwritten, AnswersFor, OnConnection
<1> QED BY <1>1, <1>2, <1>3

(* The lock passes from nobody to the head of the queue, who leaves it.    *)
LEMMA AcquireKeeps ==
    ASSUME IInv, NEW l \in Lookups, Acquire(l)
    PROVE  IInv'
<1> USE DEF IInv, serverVars
<1>1. /\ waiters' \in Seq(Lookups)
      /\ ToSet(waiters') = ToSet(waiters) \ {l}
      /\ IsInjective(waiters')
      /\ pc[l] = "waiting"
  BY TakeFromQueue DEF Acquire, TypeOK, LockDiscipline
<1>2. TypeOK'
  BY <1>1 DEF Acquire, TypeOK, Phases, Awaiting, Holding
<1>3. LockDiscipline'
  BY <1>1, LookupsAssumption DEF Acquire, TypeOK, LockDiscipline, Holding
<1>4. OneLinePerLookup' /\ UnsentIsUnknown' /\ AnswersAreTruthful' /\ OnlyOwnVerdict'
  BY <1>1 DEF Acquire, TypeOK, OneLinePerLookup, UnsentIsUnknown, Unsent, AnswersAreTruthful,
         OnlyOwnVerdict, Unwritten, AnswersFor, OnConnection
<1> QED BY <1>2, <1>3, <1>4

(* The holder's line, which is nowhere yet, enters the write buffer.       *)
LEMMA FeedKeeps ==
    ASSUME IInv, NEW l \in Lookups, Feed(l)
    PROVE  IInv'
<1> USE DEF IInv, lockVars, serverVars
<1>1. /\ l \notin OnConnection
      /\ verdict[l] = Undecided
  BY DEF Feed, UnsentIsUnknown, Unsent
<1>2. /\ wbuf' \in Seq(Lookups)
      /\ Unwritten' = Unwritten \union {l}
      /\ IsInjective(wbuf')
  BY <1>1, AppendToQueue DEF Feed, TypeOK, OneLinePerLookup, Unwritten, OnConnection
<1>3. TypeOK'
  BY <1>2 DEF Feed, TypeOK, Phases, Awaiting, Holding
<1>4. LockDiscipline'
  BY DEF Feed, TypeOK, LockDiscipline, Holding
<1>5. OneLinePerLookup'
  BY <1>1, <1>2 DEF Feed, OneLinePerLookup, AnswersFor, OnConnection
<1>6. UnsentIsUnknown'
  BY <1>2 DEF Feed, TypeOK, UnsentIsUnknown, Unsent, AnswersFor, OnConnection
<1>7. AnswersAreTruthful' /\ OnlyOwnVerdict'
  BY DEF Feed, TypeOK, AnswersAreTruthful, OnlyOwnVerdict
<1> QED BY <1>3, <1>4, <1>5, <1>6, <1>7

(* The oldest line leaves the write buffer for the API, or is lost.        *)
LEMMA FlushKeeps ==
    ASSUME IInv, NEW l \in Lookups, Flush(l)
    PROVE  IInv'
<1> USE DEF IInv, callVars, lockVars
<1>1. /\ Head(wbuf) \in Lookups
      /\ Head(wbuf) \in Unwritten
      /\ wbuf' \in Seq(Lookups)
      /\ Unwritten' = Unwritten \ {Head(wbuf)}
      /\ IsInjective(wbuf')
  BY TakeFromQueue DEF Flush, TypeOK, OneLinePerLookup, Unwritten
<1>2. atServer' \subseteq atServer \union {Head(wbuf)}
  BY DEF Flush
<1>3. TypeOK'
  BY <1>1, <1>2 DEF Flush, TypeOK
<1>4. LockDiscipline' /\ AnswersAreTruthful' /\ OnlyOwnVerdict'
  BY DEF Flush, LockDiscipline, AnswersAreTruthful, OnlyOwnVerdict
<1>5. OneLinePerLookup'
  BY <1>1, <1>2 DEF Flush, OneLinePerLookup, AnswersFor
<1>6. UnsentIsUnknown'
  BY <1>1, <1>2 DEF Flush, UnsentIsUnknown, AnswersFor, OnConnection
<1> QED BY <1>3, <1>4, <1>5, <1>6

(* Going on to receive keeps the lock.                                     *)
LEMMA SentKeeps ==
    ASSUME IInv, NEW l \in Lookups, Sent(l)
    PROVE  IInv'
<1> USE DEF IInv, lockVars, serverVars
<1>1. TypeOK'
  BY DEF Sent, TypeOK, Phases, Awaiting, Holding
<1>2. LockDiscipline'
  BY DEF Sent, TypeOK, LockDiscipline, Holding
<1>3. OneLinePerLookup' /\ UnsentIsUnknown' /\ AnswersAreTruthful' /\ OnlyOwnVerdict'
  BY DEF Sent, TypeOK, OneLinePerLookup, UnsentIsUnknown, Unsent, AnswersAreTruthful,
         OnlyOwnVerdict, Unwritten, AnswersFor, OnConnection
<1> QED BY <1>1, <1>2, <1>3

(* A send that fails gives the lock back and leaves the buffer as it is.   *)
LEMMA SendFailsKeeps ==
    ASSUME IInv, NEW l \in Lookups, SendFails(l)
    PROVE  IInv'
<1> USE DEF IInv, serverVars, Return
<1>1. pc[l] \in Holding
  BY DEF SendFails, Writing, Holding
<1>2. TypeOK'
  BY DEF SendFails, TypeOK, Phases, Ended, Results, BackendErrors
<1>3. LockDiscipline'
  BY <1>1, LookupsAssumption DEF SendFails, TypeOK, LockDiscipline, Holding
<1>4. OneLinePerLookup' /\ UnsentIsUnknown' /\ AnswersAreTruthful'
  BY DEF SendFails, TypeOK, OneLinePerLookup, UnsentIsUnknown, Unsent, AnswersAreTruthful,
         Unwritten, AnswersFor, OnConnection
<1>5. OnlyOwnVerdict'
  BY <1>1 DEF SendFails, TypeOK, OnlyOwnVerdict, Holding
<1> QED BY <1>2, <1>3, <1>4, <1>5

(* What a call makes of a line: the API's verdict about it, or nothing.    *)
LEMMA OnlyItsOwnLineCounts ==
    ASSUME IInv, NEW l \in Lookups, inbound # <<>>
    PROVE  LET r == DecodeReply(Head(inbound), l)
           IN  /\ r \in Results
               /\ \/ r = "unavailable"
                  \/ /\ verdict[l] \in Verdicts
                     /\ verdict[l] # Undecided
                     /\ r = ResultOf[verdict[l]]
<1> DEFINE f == Head(inbound)
<1>1. f \in Replies /\ 1 \in DOMAIN inbound /\ f = inbound[1]
  BY AnswerRead DEF IInv, TypeOK
<1>2. \A v \in Verdicts : ResultOf[v] \in Results /\ v # Undecided
  BY DEF Verdicts, ResultOf, Results, BackendErrors, Undecided
<1>3. CASE f.id = l
  <2>1. f.verdict = verdict[l] /\ f.verdict \in Verdicts
    BY <1>1, <1>3, LookupsAssumption DEF IInv, AnswersAreTruthful, Replies
  <2> QED BY <1>2, <1>3, <2>1 DEF DecodeReply
<1>4. CASE f.id # l
  BY <1>4 DEF DecodeReply, Results, BackendErrors
<1> QED BY <1>3, <1>4

(* Whoever it answers, the line that was read leaves with the lock.        *)
LEMMA ReadReplyKeeps ==
    ASSUME IInv, NEW l \in Lookups, ReadReply(l)
    PROVE  IInv'
<1> USE DEF IInv, serverVars, Return
<1>1. /\ inbound' \in Seq(Replies)
      /\ AnswersFor' \subseteq AnswersFor
      /\ OnceEach(inbound')
      /\ \A i \in DOMAIN inbound' : i + 1 \in DOMAIN inbound /\ inbound'[i] = inbound[i + 1]
  BY AnswerRead DEF ReadReply, TypeOK, OneLinePerLookup, AnswersFor
<1>2. /\ result'[l] \in Results
      /\ \/ result'[l] = "unavailable"
         \/ verdict[l] # Undecided /\ result'[l] = ResultOf[verdict[l]]
  BY OnlyItsOwnLineCounts DEF ReadReply, TypeOK
<1>3. TypeOK'
  BY <1>1, <1>2, OnlyItsOwnLineCounts DEF ReadReply, TypeOK, Phases, Ended
<1>4. LockDiscipline'
  BY LookupsAssumption DEF ReadReply, TypeOK, LockDiscipline, Holding
<1>5. OneLinePerLookup'
  BY <1>1 DEF ReadReply, OneLinePerLookup, Unwritten
<1>6. UnsentIsUnknown'
  BY <1>1 DEF ReadReply, TypeOK, UnsentIsUnknown, Unsent, Unwritten, OnConnection
<1>7. AnswersAreTruthful'
  BY <1>1 DEF ReadReply, AnswersAreTruthful
<1>8. OnlyOwnVerdict'
  BY <1>2 DEF ReadReply, TypeOK, OnlyOwnVerdict
<1> QED BY <1>3, <1>4, <1>5, <1>6, <1>7, <1>8

(* An unreadable line is taken off the connection too.                     *)
LEMMA ReadUnreadableKeeps ==
    ASSUME IInv, NEW l \in Lookups, ReadUnreadable(l)
    PROVE  IInv'
<1> USE DEF IInv, serverVars, Return
<1>1. /\ inbound' \in Seq(Replies)
      /\ AnswersFor' \subseteq AnswersFor
      /\ OnceEach(inbound')
      /\ \A i \in DOMAIN inbound' : i + 1 \in DOMAIN inbound /\ inbound'[i] = inbound[i + 1]
  BY AnswerRead DEF ReadUnreadable, TypeOK, OneLinePerLookup, AnswersFor
<1>2. TypeOK'
  BY <1>1 DEF ReadUnreadable, TypeOK, Phases, Ended, Results, BackendErrors
<1>3. LockDiscipline'
  BY LookupsAssumption DEF ReadUnreadable, TypeOK, LockDiscipline, Holding
<1>4. OneLinePerLookup'
  BY <1>1 DEF ReadUnreadable, OneLinePerLookup, Unwritten
<1>5. UnsentIsUnknown'
  BY <1>1 DEF ReadUnreadable, TypeOK, UnsentIsUnknown, Unsent, Unwritten, OnConnection
<1>6. AnswersAreTruthful'
  BY <1>1 DEF ReadUnreadable, AnswersAreTruthful
<1>7. OnlyOwnVerdict'
  BY DEF ReadUnreadable, TypeOK, OnlyOwnVerdict
<1> QED BY <1>2, <1>3, <1>4, <1>5, <1>6, <1>7

(* Giving up without a line leaves the connection as it is.                *)
LEMMA GivingUpKeeps ==
    ASSUME IInv, NEW l \in Lookups, ReadAfterError(l) \/ ReadNothing(l)
    PROVE  IInv'
<1> USE DEF IInv, serverVars, Return, ReadAfterError, ReadNothing
<1>1. TypeOK'
  BY DEF TypeOK, Phases, Ended, Results, BackendErrors
<1>2. LockDiscipline'
  BY LookupsAssumption DEF TypeOK, LockDiscipline, Holding
<1>3. OneLinePerLookup' /\ UnsentIsUnknown' /\ AnswersAreTruthful'
  BY DEF TypeOK, OneLinePerLookup, UnsentIsUnknown, Unsent, AnswersAreTruthful,
         Unwritten, AnswersFor, OnConnection
<1>4. OnlyOwnVerdict'
  BY DEF TypeOK, OnlyOwnVerdict
<1> QED BY <1>1, <1>2, <1>3, <1>4

(* A dropped waiter leaves the queue from wherever it stood.               *)
LEMMA CancelWaitingKeeps ==
    ASSUME IInv, NEW l \in Lookups, CancelWaiting(l)
    PROVE  IInv'
<1> USE DEF IInv, serverVars
<1>1. /\ waiters' \in Seq(Lookups)
      /\ ToSet(waiters') = ToSet(waiters) \ {l}
      /\ IsInjective(waiters')
  BY LeaveQueue DEF CancelWaiting, TypeOK, LockDiscipline
<1>2. TypeOK'
  BY <1>1 DEF CancelWaiting, TypeOK, Phases, Ended
<1>3. LockDiscipline'
  BY <1>1 DEF CancelWaiting, TypeOK, LockDiscipline, Holding
<1>4. OneLinePerLookup' /\ UnsentIsUnknown' /\ AnswersAreTruthful' /\ OnlyOwnVerdict'
  BY DEF CancelWaiting, TypeOK, OneLinePerLookup, UnsentIsUnknown, Unsent, AnswersAreTruthful,
         OnlyOwnVerdict, Unwritten, AnswersFor, OnConnection
<1> QED BY <1>2, <1>3, <1>4

(* A dropped holder gives the lock back.                                   *)
LEMMA CancelHoldingKeeps ==
    ASSUME IInv, NEW l \in Lookups, CancelHolding(l)
    PROVE  IInv'
<1> USE DEF IInv, serverVars
<1>1. TypeOK'
  BY DEF CancelHolding, TypeOK, Phases, Ended
<1>2. LockDiscipline'
  BY LookupsAssumption DEF CancelHolding, TypeOK, LockDiscipline, Holding
<1>3. OneLinePerLookup' /\ UnsentIsUnknown' /\ AnswersAreTruthful' /\ OnlyOwnVerdict'
  BY DEF CancelHolding, TypeOK, OneLinePerLookup, UnsentIsUnknown, Unsent, AnswersAreTruthful,
         OnlyOwnVerdict, Unwritten, AnswersFor, OnConnection, Holding
<1> QED BY <1>1, <1>2, <1>3

(* The API's decision about a request is its first, and its answer the     *)
(* only one.                                                               *)
LEMMA DecideKeeps ==
    ASSUME IInv, NEW l \in Lookups, NEW v \in ServerVerdicts, Decide(l, v)
    PROVE  IInv'
<1> USE DEF IInv, callVars, lockVars, Answered
<1>1. /\ v \in Verdicts
      /\ Reply(l, v) \in Replies
      /\ Reply(l, v).id = l
      /\ Reply(l, v).verdict = v
      /\ l # NoOne
  BY VerdictsAssumption, LookupsAssumption DEF Replies, Reply
<1>2. /\ l \in atServer
      /\ l \notin Unwritten
      /\ l \notin AnswersFor
      /\ verdict[l] = Undecided
      /\ v # Undecided
  BY <1>1 DEF Decide, OneLinePerLookup, Verdicts, Undecided
<1>3. /\ inbound' \in Seq(Replies)
      /\ AnswersFor' = AnswersFor \union {l}
      /\ OnceEach(inbound')
      /\ \A i \in DOMAIN inbound' :
            inbound'[i] = Reply(l, v) \/ (i \in DOMAIN inbound /\ inbound'[i] = inbound[i])
  BY <1>1, <1>2, AnswerSent DEF Decide, TypeOK, OneLinePerLookup, AnswersFor
<1>4. TypeOK'
  BY <1>1, <1>3 DEF Decide, TypeOK
<1>5. LockDiscipline'
  BY DEF Decide, LockDiscipline
<1>6. OneLinePerLookup'
  BY <1>2, <1>3 DEF Decide, TypeOK, OneLinePerLookup, Unwritten
<1>7. UnsentIsUnknown'
  BY <1>2, <1>3 DEF Decide, TypeOK, UnsentIsUnknown, Unwritten, OnConnection
<1>8. AnswersAreTruthful'
  <2> SUFFICES ASSUME NEW i \in DOMAIN inbound', inbound'[i].id # NoOne
               PROVE  inbound'[i].verdict = verdict'[inbound'[i].id]
    BY DEF AnswersAreTruthful
  <2>1. CASE inbound'[i] = Reply(l, v)
    BY <1>1, <2>1 DEF Decide, TypeOK
  <2>2. CASE i \in DOMAIN inbound /\ inbound'[i] = inbound[i]
    <3>1. inbound[i].id \in AnswersFor
      BY <2>2 DEF AnswersFor, Named
    <3>2. verdict'[inbound[i].id] = verdict[inbound[i].id]
      BY <1>2, <3>1 DEF Decide, TypeOK
    <3> QED BY <2>2, <3>2 DEF AnswersAreTruthful
  <2> QED BY <1>3, <2>1, <2>2
<1>9. OnlyOwnVerdict'
  BY <1>2 DEF Decide, TypeOK, OnlyOwnVerdict
<1> QED BY <1>4, <1>5, <1>6, <1>7, <1>8, <1>9

(* A line that names no request decides nothing.                           *)
LEMMA AnswerBadlyKeeps ==
    ASSUME IInv, NEW l \in Lookups, NEW f \in {AnonymousReply, UnreadableReply},
           AnswerBadly(l, f)
    PROVE  IInv'
<1> USE DEF IInv, callVars, lockVars, Answered
<1>1. f \in Replies /\ f.id = NoOne
  <2>1. "other" \in Verdicts /\ NoOne \in Lookups \union {NoOne}
    BY DEF Verdicts
  <2>2. CASE f = AnonymousReply
    BY <2>1, <2>2 DEF Replies, AnonymousReply
  <2>3. CASE f = UnreadableReply
    BY <2>1, <2>3 DEF Replies, UnreadableReply
  <2> QED BY <2>2, <2>3
<1>2. /\ inbound' \in Seq(Replies)
      /\ AnswersFor' = AnswersFor
      /\ OnceEach(inbound')
      /\ \A i \in DOMAIN inbound' :
            inbound'[i] = f \/ (i \in DOMAIN inbound /\ inbound'[i] = inbound[i])
  <2>1. f.id \notin Named(inbound)
    BY <1>1 DEF Named
  <2>2. inbound \in Seq(Replies) /\ OnceEach(inbound) /\ inbound' = Append(inbound, f)
    BY DEF AnswerBadly, TypeOK, OneLinePerLookup
  <2>3. {f.id} \ {NoOne} = {}
    BY <1>1
  <2>4. /\ Append(inbound, f) \in Seq(Replies)
        /\ Named(Append(inbound, f)) = Named(inbound) \union ({f.id} \ {NoOne})
        /\ OnceEach(Append(inbound, f))
        /\ \A i \in DOMAIN Append(inbound, f) :
              Append(inbound, f)[i] = f
                  \/ (i \in DOMAIN inbound /\ Append(inbound, f)[i] = inbound[i])
    BY <1>1, <2>1, <2>2, AnswerSent
  <2> QED BY <2>2, <2>3, <2>4 DEF AnswersFor
<1>3. TypeOK'
  BY <1>2 DEF AnswerBadly, TypeOK
<1>4. LockDiscipline' /\ OnlyOwnVerdict'
  BY DEF AnswerBadly, LockDiscipline, OnlyOwnVerdict
<1>5. OneLinePerLookup' /\ UnsentIsUnknown'
  BY <1>2 DEF AnswerBadly, OneLinePerLookup, UnsentIsUnknown, Unwritten, OnConnection
<1>6. AnswersAreTruthful'
  BY <1>1, <1>2 DEF AnswerBadly, AnswersAreTruthful
<1> QED BY <1>3, <1>4, <1>5, <1>6

(* Losing a line, or everything with the connection, adds nothing.         *)
LEMMA LosingKeeps ==
    ASSUME IInv, Close \/ \E l \in Lookups : Lose(l)
    PROVE  IInv'
<1> USE DEF IInv, callVars, lockVars
<1>1. /\ atServer' \subseteq atServer
      /\ inbound' \in {inbound, <<>>}
      /\ peer' \in {"open", "closed"}
      /\ UNCHANGED <<callVars, lockVars, wbuf, verdict, stream>>
  BY DEF Close, Lose, TypeOK
<1>2. inbound' \in Seq(Replies)
  BY <1>1, EmptySeq DEF TypeOK
<1>3. AnswersFor' \subseteq AnswersFor /\ OnceEach(inbound') /\ AnswersAreTruthful'
  <2>1. CASE inbound' = inbound
    BY <1>1, <2>1 DEF AnswersFor, OneLinePerLookup, AnswersAreTruthful
  <2>2. CASE inbound' = <<>>
    BY <2>2 DEF AnswersFor, Named, OnceEach, AnswersAreTruthful
  <2> QED BY <1>1, <2>1, <2>2
<1>4. TypeOK'
  BY <1>1, <1>2 DEF TypeOK
<1>5. LockDiscipline' /\ OnlyOwnVerdict'
  BY <1>1 DEF LockDiscipline, OnlyOwnVerdict
<1>6. OneLinePerLookup' /\ UnsentIsUnknown'
  BY <1>1, <1>3 DEF OneLinePerLookup, UnsentIsUnknown, Unwritten, OnConnection
<1> QED BY <1>3, <1>4, <1>5, <1>6

(* Every step of the specification keeps the invariant.                    *)
LEMMA NextKeeps == IInv /\ [Next]_vars => IInv'
<1> SUFFICES ASSUME IInv, [Next]_vars PROVE IInv'
  OBVIOUS
<1>1. CASE UNCHANGED vars
  BY <1>1 DEF vars, callVars, lockVars, serverVars, IInv, TypeOK, LockDiscipline,
              OneLinePerLookup, UnsentIsUnknown, AnswersAreTruthful, OnlyOwnVerdict,
              Unwritten, AnswersFor, OnConnection
<1>2. ASSUME NEW l \in Lookups, Lookup(l) PROVE IInv'
  <2>1. CASE \E n \in HeaderBytes, b \in BOOLEAN : Ask(l, n, b) \/ Refuse(l, n, b)
    BY <2>1, AskKeeps, RefuseKeeps
  <2>2. CASE Acquire(l)
    BY <2>2, AcquireKeeps
  <2>3. CASE Send(l)
    BY <2>3, FeedKeeps, FlushKeeps, SentKeeps, SendFailsKeeps DEF Send
  <2>4. CASE Receive(l)
    BY <2>4, ReadReplyKeeps, ReadUnreadableKeeps, GivingUpKeeps DEF Receive
  <2>5. CASE Cancel(l)
    BY <2>5, CancelWaitingKeeps, CancelHoldingKeeps DEF Cancel
  <2> QED BY <1>2, <2>1, <2>2, <2>3, <2>4, <2>5 DEF Lookup
<1>3. CASE Server
  BY <1>3, DecideKeeps, AnswerBadlyKeeps, LosingKeeps DEF Server
<1>4. CASE Finished
  BY <1>1, <1>4 DEF Finished
<1> QED BY <1>1, <1>2, <1>3, <1>4 DEF Next

(* IInv holds in every state the shared connection can reach.              *)
THEOREM Invariance == Safety => []IInv
BY InitEstablishes, NextKeeps, PTL DEF Safety

(* The state of the shared connection is always well typed.                *)
THEOREM TypeCorrectness == Safety => []TypeOK
BY Invariance, PTL DEF IInv

(* One call at a time uses the connection, and the lock is never lost with *)
(* a call that timed out or whose client left.                             *)
THEOREM LockIsExclusive == Safety => []LockDiscipline
BY Invariance, PTL DEF IInv

(* However calls are cut short, each is on the connection at most once.    *)
THEOREM NoCallIsSentTwice == Safety => []OneLinePerLookup
BY Invariance, PTL DEF IInv

(* No call ever returns another's answer.                                  *)
THEOREM AnswersAreNotMixedUp == Safety => []OnlyOwnVerdict
BY Invariance, PTL DEF IInv

-----------------------------------------------------------------------------
(* What calls leave on the connection.                                     *)

(* Only lookups have lines on it.                                          *)
LEMMA LinesAreOfLookups ==
    ASSUME TypeOK
    PROVE  OnConnection \subseteq Lookups
<1> SUFFICES ASSUME NEW l \in OnConnection PROVE l \in Lookups
  OBVIOUS
<1>1. CASE l \in Unwritten
  <2>1. PICK i \in DOMAIN wbuf : l = wbuf[i]
    BY <1>1 DEF Unwritten, ToSet
  <2> QED BY <2>1, ElementOfSeq, LenProperties DEF TypeOK
<1>2. CASE l \in atServer
  BY <1>2 DEF TypeOK
<1>3. CASE l \in AnswersFor
  <2>1. PICK i \in DOMAIN inbound : l = inbound[i].id /\ l # NoOne
    BY <1>3 DEF AnswersFor, Named
  <2>2. inbound[i] \in Replies
    BY <2>1, ElementOfSeq, LenProperties DEF TypeOK
  <2> QED BY <2>1, <2>2 DEF Replies
<1> QED BY <1>1, <1>2, <1>3 DEF OnConnection

(* A line comes onto the connection when its call feeds it, and then moves *)
(* from the buffer to the API and back.                                    *)
LEMMA OnlyFeedingAddsALine ==
    ASSUME IInv, [Next]_vars, NEW l \in OnConnection'
    PROVE  l \in OnConnection \/ (l \in Lookups /\ Feed(l))
<1> USE DEF IInv, OnConnection, callVars, lockVars, serverVars
<1>1. CASE UNCHANGED vars
  BY <1>1 DEF vars, Unwritten, AnswersFor
<1>2. ASSUME NEW m \in Lookups, Feed(m) PROVE l \in OnConnection \/ Feed(l)
  <2>1. Unwritten' = Unwritten \union {m}
    BY <1>2, AppendToQueue DEF Feed, TypeOK, Unwritten
  <2> QED BY <1>2, <2>1 DEF Feed, AnswersFor
<1>3. ASSUME NEW m \in Lookups, Flush(m) PROVE l \in OnConnection
  <2>1. Unwritten' \subseteq Unwritten /\ Head(wbuf) \in Unwritten
    BY <1>3, TakeFromQueue DEF Flush, TypeOK, Unwritten
  <2>2. atServer' \subseteq atServer \union {Head(wbuf)} /\ AnswersFor' = AnswersFor
    BY <1>3 DEF Flush, AnswersFor
  <2> QED BY <2>1, <2>2
<1>4. ASSUME NEW m \in Lookups, ReadReply(m) \/ ReadUnreadable(m) PROVE l \in OnConnection
  <2>1. inbound # <<>> /\ inbound' = Tail(inbound) /\ UNCHANGED <<wbuf, atServer>>
    BY <1>4 DEF ReadReply, ReadUnreadable
  <2>2. AnswersFor' \subseteq AnswersFor
    BY <2>1, AnswerRead DEF TypeOK, AnswersFor
  <2> QED BY <2>1, <2>2 DEF Unwritten
<1>5. ASSUME UNCHANGED <<wbuf, atServer, inbound>> PROVE l \in OnConnection
  BY <1>5 DEF Unwritten, AnswersFor
<1>6. ASSUME NEW m \in Lookups, NEW f \in Replies, f.id \in {m, NoOne}, Answered(m, f)
      PROVE  l \in OnConnection
  <2>1. AnswersFor' \subseteq AnswersFor \union {m}
    BY <1>6, AnswerSent DEF Answered, TypeOK, AnswersFor
  <2> QED BY <1>6, <2>1 DEF Answered, Unwritten
<1>7. CASE Server
  <2>1. "other" \in Verdicts /\ NoOne \in Lookups \union {NoOne}
    BY DEF Verdicts
  <2>2. ASSUME NEW m \in Lookups, NEW v \in ServerVerdicts, Decide(m, v) PROVE l \in OnConnection
    BY <1>6, <2>2, VerdictsAssumption DEF Decide, Reply, Replies
  <2>3. ASSUME NEW m \in Lookups, NEW f \in {AnonymousReply, UnreadableReply}, AnswerBadly(m, f)
        PROVE  l \in OnConnection
    <3>1. CASE f = AnonymousReply
      BY <1>6, <2>1, <2>3, <3>1 DEF AnswerBadly, AnonymousReply, Replies
    <3>2. CASE f = UnreadableReply
      BY <1>6, <2>1, <2>3, <3>2 DEF AnswerBadly, UnreadableReply, Replies
    <3> QED BY <3>1, <3>2
  <2>4. CASE Close \/ \E m \in Lookups : Lose(m)
    <3>1. /\ atServer' \subseteq atServer /\ wbuf' = wbuf /\ inbound' \in {inbound, <<>>}
      BY <2>4 DEF Close, Lose
    <3>2. AnswersFor' \subseteq AnswersFor /\ Unwritten' = Unwritten
      BY <3>1 DEF AnswersFor, Named, Unwritten
    <3> QED BY <3>1, <3>2
  <2> QED BY <1>7, <2>2, <2>3, <2>4 DEF Server
<1>8. ASSUME NEW m \in Lookups, Lookup(m) PROVE l \in OnConnection \/ (l \in Lookups /\ Feed(l))
  <2>1. CASE UNCHANGED <<wbuf, atServer, inbound>>
    BY <1>5, <2>1
  <2>2. CASE ~UNCHANGED <<wbuf, atServer, inbound>>
    <3>1. Feed(m) \/ Flush(m) \/ ReadReply(m) \/ ReadUnreadable(m)
      BY <1>8, <2>2 DEF Lookup, Ask, Refuse, Acquire, Send, Sent, SendFails, Receive,
                        ReadAfterError, ReadNothing, Cancel, CancelWaiting, CancelHolding
    <3>2. ASSUME Feed(m) PROVE l \in OnConnection \/ (l \in Lookups /\ Feed(l))
      <4>1. Unwritten' = Unwritten \union {m}
        BY <3>2, AppendToQueue DEF Feed, TypeOK, Unwritten
      <4> QED BY <3>2, <4>1 DEF Feed, AnswersFor
    <3> QED BY <1>3, <1>4, <3>1, <3>2
  <2> QED BY <2>1, <2>2
<1> QED BY <1>1, <1>7, <1>8 DEF Next, Finished

(* A call that returns an answer takes its line off the connection.        *)
LEMMA AnswerLeavesNothing ==
    ASSUME IInv, NEW l \in Lookups, ReadReply(l), result'[l] # "unavailable"
    PROVE  l \notin OnConnection'
<1> USE DEF IInv, serverVars
<1>1. /\ inbound # <<>> /\ inbound' = Tail(inbound) /\ UNCHANGED <<wbuf, atServer, verdict>>
      /\ result' = [result EXCEPT ![l] = DecodeReply(Head(inbound), l)]
  BY DEF ReadReply, Return
<1>2. /\ Head(inbound).id = l /\ l # NoOne
  BY <1>1, LookupsAssumption DEF TypeOK, DecodeReply
<1>3. verdict[l] # Undecided
  BY <1>1, OnlyItsOwnLineCounts DEF TypeOK
<1>4. l \notin Unwritten' \union atServer'
  BY <1>1, <1>3 DEF OneLinePerLookup, Unwritten
<1>5. /\ 1 \in DOMAIN inbound /\ inbound[1].id = l
      /\ \A i \in DOMAIN inbound' : i \in Nat \ {0} /\ i + 1 \in DOMAIN inbound
                                    /\ inbound'[i] = inbound[i + 1]
  <2>1. DOMAIN inbound' = 1 .. Len(inbound')
    BY <1>1, AnswerRead, LenProperties DEF TypeOK
  <2> QED BY <1>1, <1>2, <2>1, AnswerRead DEF TypeOK
<1>6. ASSUME l \in AnswersFor' PROVE FALSE
  <2>1. PICK i \in DOMAIN inbound' : inbound'[i].id = l
    BY <1>6 DEF AnswersFor, Named
  <2>2. i + 1 \in DOMAIN inbound /\ inbound[i + 1].id = inbound[1].id /\ inbound[1].id # NoOne
    BY <1>2, <1>5, <2>1
  <2>3. i + 1 = 1
    BY <1>5, <2>2 DEF OneLinePerLookup, OnceEach
  <2> QED BY <1>5, <2>1, <2>3
<1> QED BY <1>4, <1>6 DEF OnConnection

(* That is the inductive invariant.                                        *)
AnsweredLeftNothing ==
    \A l \in Lookups : pc[l] = "done" /\ result[l] # "unavailable" => l \notin OnConnection

(* A call that ends now answers from its line or fails, and no step puts a *)
(* line of an ended call on the connection.                                *)
LEMMA StepKeepsAnswered ==
    ASSUME IInv, AnsweredLeftNothing, [Next]_vars
    PROVE  AnsweredLeftNothing'
<1> SUFFICES ASSUME NEW l \in Lookups, pc'[l] = "done", result'[l] # "unavailable",
                    l \in OnConnection'
             PROVE  FALSE
  BY DEF AnsweredLeftNothing
<1> USE DEF IInv, callVars
<1>1. CASE pc'[l] = pc[l] /\ result'[l] = result[l]
  <2>1. l \notin OnConnection
    BY <1>1 DEF AnsweredLeftNothing
  <2>2. Feed(l)
    BY <2>1, OnlyFeedingAddsALine
  <2> QED BY <1>1, <2>2 DEF Feed
<1>2. CASE ~(pc'[l] = pc[l] /\ result'[l] = result[l])
  <2>1. ReadReply(l) \/ SendFails(l) \/ ReadUnreadable(l) \/ ReadAfterError(l) \/ ReadNothing(l)
    <3>1. ~UNCHANGED vars /\ ~Server
      BY <1>2 DEF vars, Server, Decide, AnswerBadly, Answered, Lose, Close
    <3>2. PICK m \in Lookups : Lookup(m)
      BY <3>1 DEF Next, Finished
    <3> QED BY <1>2, <3>2 DEF TypeOK, Lookup, Ask, Refuse, Acquire, Send, Feed, Flush, Sent,
                SendFails, Receive, ReadReply, ReadUnreadable, ReadAfterError, ReadNothing,
                Return, Cancel, CancelWaiting, CancelHolding
  <2>2. CASE ReadReply(l)
    BY <2>2, AnswerLeavesNothing
  <2>3. CASE SendFails(l) \/ ReadUnreadable(l) \/ ReadAfterError(l) \/ ReadNothing(l)
    BY <2>3 DEF TypeOK, SendFails, ReadUnreadable, ReadAfterError, ReadNothing, Return
  <2> QED BY <2>1, <2>2, <2>3
<1> QED BY <1>1, <1>2

(* What nobody uses on the connection belongs to calls that failed: a call *)
(* that returned an answer left nothing, however the lines were delayed.   *)
THEOREM OnlyFailedCallsLeaveLines == Safety => []LeftoversAreOfFailedCalls
<1>1. Init => AnsweredLeftNothing
  BY DEF Init, AnsweredLeftNothing
<1>2. IInv /\ AnsweredLeftNothing /\ [Next]_vars => AnsweredLeftNothing'
  BY StepKeepsAnswered
<1>3. IInv /\ AnsweredLeftNothing => LeftoversAreOfFailedCalls
  <2> SUFFICES ASSUME IInv, AnsweredLeftNothing, NEW l \in OnConnection
               PROVE  l = owner \/ pc[l] = "gone" \/ (pc[l] = "done" /\ result[l] = "unavailable")
    BY DEF LeftoversAreOfFailedCalls
  <2>1. l \in Lookups
    BY LinesAreOfLookups DEF IInv
  <2>2. pc[l] \in Phases /\ pc[l] \notin Unsent
    BY <2>1 DEF IInv, TypeOK, UnsentIsUnknown
  <2>3. pc[l] \in Holding => l = owner
    BY <2>1 DEF IInv, LockDiscipline
  <2> QED BY <2>1, <2>2, <2>3
          DEF Phases, Awaiting, Unsent, Holding, Ended, AnsweredLeftNothing
<1> QED BY <1>1, <1>2, <1>3, Invariance, PTL DEF Safety

-----------------------------------------------------------------------------
(* The tcp backend implements the contract of TunnelBackend.               *)

Phase == [l \in Lookups |-> IF pc[l] \in Awaiting THEN "open" ELSE pc[l]]

(* One call's move from one phase to another moves the abstract one alike. *)
LEMMA PhaseMoves ==
    ASSUME TypeOK, NEW l \in Lookups, NEW p \in Phases, pc' = [pc EXCEPT ![l] = p]
    PROVE  Phase' = [Phase EXCEPT ![l] = IF p \in Awaiting THEN "open" ELSE p]
BY DEF TypeOK, Phase

(* A move among the phases of an admitted call is no abstract move.        *)
LEMMA PhaseStays ==
    ASSUME TypeOK, NEW l \in Lookups, pc[l] \in Awaiting,
           NEW p \in Awaiting, pc' = [pc EXCEPT ![l] = p]
    PROVE  Phase' = Phase
BY DEF TypeOK, Phase

(* The contract speaks of the same outcomes.                               *)
LEMMA SameOutcomes ==
    /\ Contract!Undecided = Undecided
    /\ Contract!NoResult = NoResult
    /\ Contract!Verdicts = Verdicts
    /\ Contract!ResultOf = ResultOf
BY DEF Contract!Undecided, Undecided, Contract!NoResult, NoResult,
       Contract!Verdicts, Verdicts, Contract!ResultOf, ResultOf

(* No call is begun, answered or decided at the start.                     *)
LEMMA InitImplements == Init => Contract!Init
BY SameOutcomes DEF Init, Contract!Init, Awaiting, Holding

(* A call that returns what its line said, answers as the contract asks.   *)
LEMMA ReturnImplements ==
    ASSUME IInv, NEW l \in Lookups, NEW r, pc[l] \in Holding, Return(l, r),
           UNCHANGED verdict,
           r = "unavailable" \/ (verdict[l] # Undecided /\ r = ResultOf[verdict[l]])
    PROVE  Contract!End(l)
<1>1. Phase[l] = "open" /\ Phase' = [Phase EXCEPT ![l] = "done"]
  <2>1. TypeOK /\ "done" \in Phases /\ pc' = [pc EXCEPT ![l] = "done"]
    BY DEF IInv, Return, Phases, Ended
  <2>2. "done" \notin Awaiting
    BY DEF Awaiting, Holding
  <2> QED BY <2>1, <2>2, PhaseMoves DEF Phase, Awaiting
<1>2. result' = [result EXCEPT ![l] = r]
  BY DEF Return
<1>3. CASE r = "unavailable"
  BY <1>1, <1>2, <1>3 DEF Contract!End, Contract!Fail, Phase
<1>4. CASE verdict[l] # Undecided /\ r = ResultOf[verdict[l]]
  BY <1>1, <1>2, <1>4, SameOutcomes DEF Contract!End, Contract!Answer, Phase
<1> QED BY <1>3, <1>4

(* So does a call whose client left: it returns nothing.                   *)
LEMMA CancelImplements ==
    ASSUME IInv, NEW l \in Lookups, Cancel(l)
    PROVE  Contract!End(l)
<1>1. pc[l] \in Awaiting /\ pc' = [pc EXCEPT ![l] = "gone"]
      /\ UNCHANGED <<verdict, result>>
  BY DEF Cancel, CancelWaiting, CancelHolding, Awaiting, serverVars
<1>2. Phase[l] = "open" /\ Phase' = [Phase EXCEPT ![l] = "gone"]
  <2>1. TypeOK /\ "gone" \in Phases
    BY DEF IInv, Phases, Ended
  <2>2. "gone" \notin Awaiting
    BY DEF Awaiting, Holding
  <2> QED BY <1>1, <2>1, <2>2, PhaseMoves DEF Phase
<1> QED BY <1>1, <1>2 DEF Contract!End, Contract!Abandon, Phase

(* Every step of the shared connection is one of the contract's, or none.  *)
LEMMA NextImplements == IInv /\ [Next]_vars => [Contract!Next]_(Contract!vars)
<1> SUFFICES ASSUME IInv, [Next]_vars PROVE [Contract!Next]_(Contract!vars)
  OBVIOUS
<1> USE DEF IInv
<1>a. ASSUME UNCHANGED <<pc, verdict, result>> PROVE UNCHANGED Contract!vars
  BY <1>a DEF Contract!vars
<1>b. ASSUME Phase' = Phase, UNCHANGED <<verdict, result>> PROVE UNCHANGED Contract!vars
  BY <1>b DEF Contract!vars, Phase
<1>c. ASSUME NEW l \in Lookups, Contract!End(l) PROVE Contract!Next
  BY <1>c DEF Contract!Next
<1>1. CASE UNCHANGED vars
  BY <1>1, <1>a DEF vars, callVars, serverVars
<1>2. ASSUME NEW l \in Lookups, NEW n \in HeaderBytes, NEW b \in BOOLEAN, Ask(l, n, b)
      PROVE  Contract!Next
  <2>1. pc' = [pc EXCEPT ![l] = "waiting"] /\ pc[l] = "idle" /\ UNCHANGED <<verdict, result>>
    BY <1>2 DEF Ask, serverVars
  <2>2. Phase[l] = "idle" /\ Phase' = [Phase EXCEPT ![l] = "open"]
    BY <2>1, PhaseMoves DEF Phase, Phases, Awaiting, Holding
  <2> QED BY <2>1, <2>2 DEF Contract!Next, Contract!Ask, Phase
<1>3. ASSUME NEW l \in Lookups, NEW n \in HeaderBytes, NEW b \in BOOLEAN, Refuse(l, n, b)
      PROVE  Contract!Next
  <2>1. /\ pc' = [pc EXCEPT ![l] = "refused"] /\ pc[l] = "idle"
        /\ result' = [result EXCEPT ![l] = "rejected"] /\ UNCHANGED verdict
    BY <1>3 DEF Refuse, serverVars
  <2>2. Phase[l] = "idle" /\ Phase' = [Phase EXCEPT ![l] = "refused"]
    BY <2>1, PhaseMoves DEF Phase, Phases, Awaiting, Holding
  <2> QED BY <2>1, <2>2 DEF Contract!Next, Contract!Refuse, Phase
<1>4. ASSUME NEW l \in Lookups, Acquire(l) PROVE UNCHANGED Contract!vars
  <2>1. pc[l] = "waiting"
    BY <1>4, TakeFromQueue DEF Acquire, TypeOK, LockDiscipline
  <2> QED BY <1>4, <2>1, <1>b, PhaseStays DEF Acquire, serverVars, Awaiting, Holding
<1>5. ASSUME NEW l \in Lookups, Feed(l) \/ Flush(l) \/ Sent(l) PROVE UNCHANGED Contract!vars
  <2>1. CASE Feed(l)
    BY <2>1, <1>b, PhaseStays DEF Feed, serverVars, Awaiting, Holding
  <2>2. CASE Flush(l)
    BY <2>2, <1>a DEF Flush, callVars
  <2>3. CASE Sent(l)
    BY <2>3, <1>b, PhaseStays DEF Sent, serverVars, Awaiting, Holding
  <2> QED BY <1>5, <2>1, <2>2, <2>3
<1>6. ASSUME NEW l \in Lookups, SendFails(l) \/ Receive(l) PROVE Contract!Next
  <2>1. pc[l] \in Holding /\ UNCHANGED verdict
    BY <1>6 DEF SendFails, Writing, Receive, ReadReply, ReadUnreadable, ReadAfterError,
                ReadNothing, Holding, serverVars
  <2>2. CASE ReadReply(l)
    <3>1. inbound # <<>> /\ Return(l, DecodeReply(Head(inbound), l))
      BY <2>2 DEF ReadReply
    <3> QED BY <2>1, <3>1, <1>c, OnlyItsOwnLineCounts, ReturnImplements
  <2>3. CASE ~ReadReply(l)
    <3>1. Return(l, "unavailable")
      BY <1>6, <2>3 DEF SendFails, Receive, ReadUnreadable, ReadAfterError, ReadNothing
    <3> QED BY <2>1, <3>1, <1>c, ReturnImplements
  <2> QED BY <2>2, <2>3
<1>7. ASSUME NEW l \in Lookups, Cancel(l) PROVE Contract!Next
  BY <1>7, <1>c, CancelImplements
<1>8. ASSUME NEW l \in Lookups, NEW v \in ServerVerdicts, Decide(l, v) PROVE Contract!Next
  <2>1. /\ l \in atServer /\ verdict' = [verdict EXCEPT ![l] = v]
        /\ UNCHANGED <<pc, result>>
    BY <1>8 DEF Decide, Answered, callVars
  <2>2. verdict[l] = Undecided /\ v \in Contract!Verdicts
    BY <2>1, VerdictsAssumption, SameOutcomes DEF OneLinePerLookup
  <2>3. pc[l] \in Phases \ Unsent
    BY <2>1 DEF TypeOK, UnsentIsUnknown, OnConnection
  <2>4. Phase[l] \in {"open", "done", "gone"}
    BY <2>3 DEF Phase, Phases, Unsent, Ended
  <2>5. Contract!Decide(l, v)
    BY <2>1, <2>2, <2>4, SameOutcomes DEF Contract!Decide, Phase
  <2> QED BY <2>2, <2>5 DEF Contract!Next
<1>9. ASSUME Server, ~(\E l \in Lookups, v \in ServerVerdicts : Decide(l, v))
      PROVE  UNCHANGED Contract!vars
  BY <1>9, <1>a DEF Server, AnswerBadly, Answered, Lose, Close, callVars
<1> QED
  BY <1>1, <1>2, <1>3, <1>4, <1>5, <1>6, <1>7, <1>8, <1>9
     DEF Next, Lookup, Send, Finished

(* The tcp backend keeps the promises every backend makes, whatever the    *)
(* API answers, in whatever order, and however many calls share the        *)
(* connection: each returns its own verdict or "unavailable", once.        *)
THEOREM TcpBackendImplementsContract == Safety => Contract!Safety
BY InitImplements, NextImplements, Invariance, PTL DEF Safety, Contract!Safety

-----------------------------------------------------------------------------
(* The backlog of the connection never shrinks.                            *)

(* The API has read finitely many lines, however many lookups there are.   *)
LEMMA AtServerIsFinite == Safety => []IsFiniteSet(atServer)
<1>1. Init => IsFiniteSet(atServer)
  BY FS_EmptySet DEF Init
<1>2. IsFiniteSet(atServer) /\ [Next]_vars => IsFiniteSet(atServer)'
  <2> SUFFICES ASSUME IsFiniteSet(atServer), [Next]_vars PROVE IsFiniteSet(atServer')
    OBVIOUS
  <2> USE DEF serverVars, callVars, lockVars
  <2>1. \A S : IsFiniteSet(S) => \A x : IsFiniteSet(S \union {x}) /\ IsFiniteSet(S \ {x})
    BY FS_AddElement, FS_RemoveElement
  <2>2. CASE UNCHANGED vars
    BY <2>2 DEF vars
  <2>3. ASSUME NEW l \in Lookups, Lookup(l) PROVE IsFiniteSet(atServer')
    <3>1. CASE Flush(l)
      BY <2>1, <3>1 DEF Flush
    <3>2. CASE ~Flush(l)
      <4>1. atServer' = atServer
        BY <2>3, <3>2 DEF Lookup, Ask, Refuse, Acquire, Send, Feed, Sent, SendFails, Receive,
              ReadReply, ReadUnreadable, ReadAfterError, ReadNothing, Cancel, CancelWaiting,
              CancelHolding
      <4> QED BY <4>1
    <3> QED BY <3>1, <3>2
  <2>4. CASE Server
    <3>1. atServer' = {} \/ \E l \in Lookups : atServer' = atServer \ {l}
      BY <2>4 DEF Server, Decide, AnswerBadly, Answered, Lose, Close
    <3> QED BY <2>1, <3>1, FS_EmptySet
  <2>5. CASE Finished
    BY <2>2, <2>5 DEF Finished
  <2> QED BY <2>2, <2>3, <2>4, <2>5 DEF Next
<1> QED BY <1>1, <1>2, PTL DEF Safety

(* At most the holder of the lock is using the connection.                 *)
LEMMA UsersAreCounted ==
    ASSUME IInv
    PROVE  /\ Cardinality(Users) \in {0, 1}
           /\ \A l \in Users : Cardinality(Users) = 1
           /\ Users = {} => Cardinality(Users) = 0
           /\ \A l \in Lookups : pc[l] = "feeding" => Users = {}
<1>1. Users \subseteq {owner}
  BY DEF IInv, LockDiscipline, Users, Holding
<1>2. CASE Users = {}
  BY <1>2, FS_EmptySet
<1>3. CASE Users # {}
  <2>1. Users = {owner}
    BY <1>1, <1>3
  <2>2. Cardinality(Users) = 1
    BY <2>1, FS_Singleton
  <2>3. \A l \in Lookups : pc[l] # "feeding"
    BY <2>1 DEF IInv, LockDiscipline, Users, Holding
  <2> QED BY <1>3, <2>2, <2>3
<1>4. \A l \in Lookups : pc[l] = "feeding" => Users = {}
  BY <1>1 DEF IInv, LockDiscipline, Users, Holding
<1> QED BY <1>2, <1>3, <1>4

(* A call that ends takes off the connection no more than it had put on.   *)
LEMMA EndingKeepsBacklog ==
    ASSUME IInv, IsFiniteSet(atServer), NEW l \in Lookups,
           pc[l] \in Holding, NEW e \in Ended, pc' = [pc EXCEPT ![l] = e],
           UNCHANGED <<wbuf, atServer>>,
           \/ inbound' = inbound
           \/ pc[l] = "receiving" /\ inbound # <<>> /\ inbound' = Tail(inbound)
    PROVE  Backlog' >= Backlog
<1>1. Users' = {} /\ Cardinality(Users') = 0
  <2>1. Users' = {}
    BY DEF IInv, TypeOK, LockDiscipline, Holding, Ended, Users
  <2> QED BY <2>1, FS_EmptySet
<1>2. Cardinality(atServer) \in Nat /\ Len(wbuf) \in Nat /\ Len(inbound) \in Nat
  BY FS_CardinalityType, LenProperties DEF IInv, TypeOK
<1>3. CASE inbound' = inbound
  BY <1>1, <1>2, <1>3, UsersAreCounted DEF Backlog
<1>4. CASE pc[l] = "receiving" /\ inbound # <<>> /\ inbound' = Tail(inbound)
  <2>1. Cardinality(Users) = 1
    BY <1>4, UsersAreCounted DEF Users
  <2>2. Len(inbound') = Len(inbound) - 1
    BY <1>4, HeadTailProperties DEF IInv, TypeOK
  <2> QED BY <1>1, <1>2, <2>1, <2>2 DEF Backlog
<1> QED BY <1>3, <1>4

(* No step but the API's losing a line makes the backlog smaller.          *)
LEMMA StepKeepsBacklog ==
    ASSUME IInv, IsFiniteSet(atServer), [Next]_vars
    PROVE  \/ Backlog' >= Backlog
           \/ \E l \in Lookups : Lose(l)
           \/ peer' = "closed"
<1> DEFINE P == \/ Backlog' >= Backlog
                \/ \E l \in Lookups : Lose(l)
                \/ peer' = "closed"
<1>n. Cardinality(atServer) \in Nat /\ Len(wbuf) \in Nat /\ Len(inbound) \in Nat
  BY FS_CardinalityType, LenProperties DEF IInv, TypeOK
<1>u. Cardinality(Users) \in {0, 1}
  BY UsersAreCounted
<1>a. ASSUME Users' = Users, UNCHANGED <<wbuf, atServer, inbound>> PROVE P
  BY <1>a, <1>n, <1>u DEF Backlog
<1>1. CASE UNCHANGED vars
  BY <1>1, <1>a DEF vars, callVars, serverVars, Users
<1>2. ASSUME NEW l \in Lookups, Lookup(l) PROVE P
  <2> USE DEF serverVars, lockVars, callVars
  <2>1. CASE \E n \in HeaderBytes, b \in BOOLEAN : Ask(l, n, b) \/ Refuse(l, n, b)
    BY <2>1, <1>a DEF Ask, Refuse, Users, IInv, TypeOK
  <2>2. CASE Acquire(l)
    <3>1. pc[l] = "waiting"
      BY <2>2, TakeFromQueue DEF Acquire, IInv, TypeOK, LockDiscipline
    <3> QED BY <2>2, <3>1, <1>a DEF Acquire, Users, IInv, TypeOK
  <2>3. CASE Feed(l)
    <3>1. Len(wbuf') = Len(wbuf) + 1
      BY <2>3, AppendProperties DEF Feed, IInv, TypeOK
    <3>2. Users = {} /\ Cardinality(Users) = 0
      BY <2>3, UsersAreCounted DEF Feed
    <3>3. Users' = {l} /\ Cardinality(Users') = 1
      <4>1. Users' = {l}
        BY <2>3, <3>2 DEF Feed, Users, IInv, TypeOK
      <4> QED BY <4>1, FS_Singleton
    <3> QED BY <2>3, <1>n, <3>1, <3>2, <3>3 DEF Feed, Backlog
  <2>4. CASE Flush(l)
    <3>1. CASE peer = "open"
      <4>1. Head(wbuf) \in ToSet(wbuf) /\ Len(wbuf') = Len(wbuf) - 1
        BY <2>4, TakeFromQueue, HeadTailProperties DEF Flush, IInv, TypeOK
      <4>2. Head(wbuf) \notin atServer
        BY <4>1 DEF IInv, OneLinePerLookup, Unwritten
      <4>3. Cardinality(atServer') = Cardinality(atServer) + 1
        BY <2>4, <3>1, <4>2, FS_AddElement DEF Flush
      <4>4. Users' = Users /\ inbound' = inbound
        BY <2>4 DEF Flush, Users
      <4> QED BY <1>n, <1>u, <4>1, <4>3, <4>4 DEF Backlog
    <3>2. CASE peer # "open"
      BY <2>4, <3>2 DEF Flush, IInv, TypeOK
    <3> QED BY <3>1, <3>2
  <2>5. CASE Sent(l)
    BY <2>5, <1>a DEF Sent, Users, IInv, TypeOK
  <2>6. CASE SendFails(l) \/ Receive(l)
    <3>1. /\ pc[l] \in Holding /\ "done" \in Ended
          /\ pc' = [pc EXCEPT ![l] = "done"]
          /\ UNCHANGED <<wbuf, atServer>>
          /\ \/ inbound' = inbound
             \/ pc[l] = "receiving" /\ inbound # <<>> /\ inbound' = Tail(inbound)
      BY <2>6 DEF SendFails, Writing, Receive, ReadReply, ReadUnreadable, ReadAfterError,
                  ReadNothing, Return, Holding, Ended
    <3> QED BY <3>1, EndingKeepsBacklog
  <2>7. CASE CancelWaiting(l)
    BY <2>7, <1>a DEF CancelWaiting, Users, IInv, TypeOK
  <2>8. CASE CancelHolding(l)
    <3>1. "gone" \in Ended
      BY DEF Ended
    <3> QED BY <2>8, <3>1, EndingKeepsBacklog DEF CancelHolding
  <2> QED BY <1>2, <2>1, <2>2, <2>3, <2>4, <2>5, <2>6, <2>7, <2>8 DEF Lookup, Send, Cancel
<1>3. ASSUME NEW l \in Lookups, NEW f \in Replies, Answered(l, f) PROVE P
  <2>1. Cardinality(atServer') = Cardinality(atServer) - 1
    BY <1>3, FS_RemoveElement DEF Answered
  <2>2. Len(inbound') = Len(inbound) + 1
    BY <1>3, AppendProperties DEF Answered, IInv, TypeOK
  <2>3. Users' = Users /\ wbuf' = wbuf
    BY <1>3 DEF Answered, Users, callVars
  <2> QED BY <1>n, <1>u, <2>1, <2>2, <2>3 DEF Backlog
<1>4. CASE Server
  <2>1. AnonymousReply \in Replies /\ UnreadableReply \in Replies
    <3>1. "other" \in Verdicts /\ NoOne \in Lookups \union {NoOne}
      BY DEF Verdicts
    <3> QED BY <3>1 DEF Replies, AnonymousReply, UnreadableReply
  <2>2. \A l \in Lookups, v \in ServerVerdicts : Reply(l, v) \in Replies
    BY VerdictsAssumption DEF Replies, Reply
  <2>3. ASSUME NEW l \in Lookups, NEW v \in ServerVerdicts, Decide(l, v) PROVE P
    BY <1>3, <2>2, <2>3 DEF Decide
  <2>4. ASSUME NEW l \in Lookups, NEW f \in {AnonymousReply, UnreadableReply}, AnswerBadly(l, f)
        PROVE  P
    BY <1>3, <2>1, <2>4 DEF AnswerBadly
  <2>5. CASE Close
    BY <2>5 DEF Close
  <2> QED BY <1>4, <2>3, <2>4, <2>5 DEF Server
<1>5. CASE Finished
  BY <1>1, <1>5 DEF Finished
<1> QED BY <1>1, <1>2, <1>4, <1>5 DEF Next

(* A call that gave up on an answer leaves the connection behind by a line *)
(* that no later call ever makes good.                                     *)
THEOREM ConnectionNeverCatchesUp == Safety => BacklogNeverDrains
BY Invariance, AtServerIsFinite, StepKeepsBacklog, PTL DEF Safety, BacklogNeverDrains

-----------------------------------------------------------------------------
(* How far the statement about late answers is from what the code does.    *)

(* A call that returns "unavailable" though its own answer has arrived     *)
(* reads a connection that others have left lines on, or one that had an   *)
(* unreadable line: with neither, "unavailable" means unanswered.          *)
OnlyLeftoversMislead ==
    [][\A l \in Lookups :
          pc[l] = "receiving" /\ pc'[l] = "done" /\ result'[l] = "unavailable"
              /\ l \in AnswersFor /\ verdict[l] # "other"
                  => Backlog > 0 \/ stream # "clean" \/ stream' # "clean"]_vars

(* Two lines to read are one more than the reader's own.                   *)
LEMMA SecondLineIsBacklog ==
    ASSUME IInv, IsFiniteSet(atServer), NEW l \in AnswersFor, inbound # <<>>,
           Head(inbound).id # l
    PROVE  Backlog > 0
<1>1. /\ Cardinality(atServer) \in Nat /\ Len(wbuf) \in Nat /\ Len(inbound) \in Nat
      /\ DOMAIN inbound = 1 .. Len(inbound) /\ Head(inbound) = inbound[1]
  BY FS_CardinalityType, LenProperties, AnswerRead DEF IInv, TypeOK
<1>2. PICK i \in DOMAIN inbound : inbound[i].id = l
  BY DEF AnswersFor, Named
<1>3. Len(inbound) >= 2
  BY <1>1, <1>2
<1>4. Cardinality(Users) \in {0, 1}
  BY UsersAreCounted
<1> QED BY <1>1, <1>3, <1>4 DEF Backlog

(* A call with its own answer first, on a connection without errors, reads *)
(* and returns it.                                                         *)
LEMMA StepMisleadsByLeftovers ==
    ASSUME IInv, IsFiniteSet(atServer), Next, NEW l \in Lookups,
           pc[l] = "receiving", pc'[l] = "done", result'[l] = "unavailable",
           l \in AnswersFor, verdict[l] # "other", stream = "clean", stream' = "clean"
    PROVE  Backlog > 0
<1> USE DEF IInv
<1>1. inbound # <<>>
  BY DEF AnswersFor, Named
<1>2. ReadReply(l)
  <2>1. ~UNCHANGED vars /\ ~Server
    BY DEF vars, callVars, Server, Decide, AnswerBadly, Answered, Lose, Close
  <2>2. PICK m \in Lookups : Lookup(m)
    BY <2>1 DEF Next, Finished
  <2>3. m = l
    BY <2>2 DEF TypeOK, Lookup, Ask, Refuse, Acquire, Send, Feed, Flush, Sent, callVars,
                SendFails, Receive, ReadReply, ReadUnreadable, ReadAfterError, ReadNothing,
                Return, Cancel, CancelWaiting, CancelHolding
  <2>4. Receive(l)
    BY <2>2, <2>3 DEF TypeOK, Lookup, Ask, Refuse, Acquire, Send, Feed, Flush, Sent, callVars,
                SendFails, Writing, Return, Cancel, CancelWaiting, CancelHolding
  <2> QED BY <1>1, <2>4 DEF Receive, ReadUnreadable, ReadAfterError, ReadNothing
<1>3. CASE Head(inbound).id = l
  <2>1. Head(inbound).verdict = verdict[l] /\ Head(inbound).verdict \in Verdicts
    <3>1. Head(inbound) \in Replies /\ 1 \in DOMAIN inbound /\ Head(inbound) = inbound[1]
      BY <1>1, AnswerRead DEF TypeOK
    <3> QED BY <1>3, <3>1, LookupsAssumption DEF AnswersAreTruthful, Replies
  <2>2. result'[l] = ResultOf[verdict[l]]
    BY <1>2, <1>3, <2>1 DEF ReadReply, Return, DecodeReply, TypeOK
  <2>3. ResultOf[verdict[l]] # "unavailable"
    BY <2>1 DEF ResultOf, Verdicts
  <2> QED BY <2>2, <2>3
<1>4. CASE Head(inbound).id # l
  BY <1>1, <1>4, SecondLineIsBacklog
<1> QED BY <1>3, <1>4

(* A call is denied an answer that has come only because of what earlier   *)
(* calls left on the connection, or because the API wrote badly.           *)
THEOREM OnlyABehindConnectionMisleads == Safety => OnlyLeftoversMislead
<1> DEFINE Misled == \A l \in Lookups :
          pc[l] = "receiving" /\ pc'[l] = "done" /\ result'[l] = "unavailable"
              /\ l \in AnswersFor /\ verdict[l] # "other"
                  => Backlog > 0 \/ stream # "clean" \/ stream' # "clean"
<1>1. IInv /\ IsFiniteSet(atServer) /\ [Next]_vars => [Misled]_vars
  <2>1. ASSUME IInv, IsFiniteSet(atServer), Next PROVE Misled
    <3> SUFFICES ASSUME NEW l \in Lookups,
                        pc[l] = "receiving", pc'[l] = "done", result'[l] = "unavailable",
                        l \in AnswersFor, verdict[l] # "other",
                        stream = "clean", stream' = "clean"
                 PROVE  Backlog > 0
      OBVIOUS
    <3> QED BY <2>1, StepMisleadsByLeftovers
  <2> HIDE DEF Misled
  <2> QED BY <2>1
<1> QED BY <1>1, Invariance, AtServerIsFinite, PTL DEF Safety, OnlyLeftoversMislead
=============================================================================
