-------------------------- MODULE OutboxCopies_proofs --------------------------
(***************************************************************************)
(* How often a record can be on the topic: proofs about OutboxPublisher for  *)
(* any finite number of overlapping publishers and any faults.  While a row  *)
(* is pending, each copy belongs to a publisher that is about to mark it or  *)
(* to a fault; once it is published, the publishers that still hold it from  *)
(* before the mark can each add one.                                        *)
(***************************************************************************)
EXTENDS OutboxPublisher_proofs, FiniteSetTheorems

\* The publishers about to mark e, and those not about to send it.
Marking(e) == {p \in Publishers : pc[p] = "mark" /\ row[p] = e}
Free(e) == {p \in Publishers : ~ (pc[p] = "produce" /\ row[p] = e)}

\* Copies on the topic or on their way to it.
Tally(e) == Copies(e) + late[e]

Account(e) ==
    /\ outbox[e] = "pending" => Tally(e) <= Cardinality(Marking(e)) + faults
    /\ outbox[e] = "published" => Tally(e) <= Cardinality(Free(e)) + faults

AIInv == IInv /\ \A e \in Events : Account(e)

\* Sets of publishers have sizes.
LEMMA PublishersFinite ==
    ASSUME NEW S, S \subseteq Publishers
    PROVE  /\ IsFiniteSet(S) /\ Cardinality(S) \in Nat
           /\ Cardinality(S) <= Cardinality(Publishers)
           /\ Cardinality(Publishers) \in Nat
  BY PublisherAssumption, FS_Subset, FS_CardinalityType

\* What one publisher's step does to the size of such a set.
LEMMA OneMoves ==
    ASSUME NEW S, NEW T, S \subseteq Publishers, T \subseteq Publishers,
           NEW p \in Publishers, S \ {p} = T \ {p}
    PROVE  /\ (p \in S <=> p \in T) => Cardinality(T) = Cardinality(S)
           /\ p \in T /\ p \notin S => Cardinality(T) = Cardinality(S) + 1
           /\ p \in S /\ p \notin T => Cardinality(T) = Cardinality(S) - 1
  <1>1. IsFiniteSet(S)
    BY PublishersFinite
  <1>2. CASE p \in S <=> p \in T
    <2>1. S = T
      BY <1>2
    <2> QED
      BY <1>2, <2>1
  <1>3. CASE p \in T /\ p \notin S
    <2>1. T = S \cup {p}
      BY <1>3
    <2> QED
      BY <1>1, <1>3, <2>1, FS_AddElement
  <1>4. CASE p \in S /\ p \notin T
    <2>1. T = S \ {p}
      BY <1>4
    <2> QED
      BY <1>1, <1>4, <2>1, FS_RemoveElement
  <1> QED
    BY <1>2, <1>3, <1>4

\* A bounded set of positions has a size.
LEMMA PositionsFinite ==
    ASSUME NEW n \in Nat, NEW D, D \subseteq 1 .. n
    PROVE  IsFiniteSet(D) /\ Cardinality(D) \in Nat
  <1>1. IsFiniteSet(1 .. n)
    BY FS_Interval
  <1>2. D \in SUBSET (1 .. n)
    OBVIOUS
  <1>3. IsFiniteSet(D)
    BY <1>1, <1>2, FS_Subset
  <1> QED
    BY <1>3, FS_CardinalityType

\* The broker's append counts once, for the record it appends.
LEMMA AppendCopies ==
    ASSUME topic \in Seq(Events), NEW f \in Events, topic' = Append(topic, f),
           NEW e \in Events
    PROVE  /\ Copies(e) \in Nat
           /\ Copies(e)' = IF e = f THEN Copies(e) + 1 ELSE Copies(e)
  <1> DEFINE n == Len(topic)
             D == {i \in DOMAIN topic : topic[i] = e}
  <1>1. /\ n \in Nat /\ Len(topic') = n + 1 /\ topic'[n + 1] = f
        /\ \A i \in 1 .. n : topic'[i] = topic[i]
        /\ DOMAIN topic = 1 .. n /\ DOMAIN topic' = 1 .. (n + 1)
    OBVIOUS
  <1>2. D \subseteq 1 .. n /\ n + 1 \notin D
    BY <1>1
  <1>3. IsFiniteSet(D) /\ Cardinality(D) \in Nat
    BY <1>1, <1>2, PositionsFinite
  <1>4. D' = IF e = f THEN D \cup {n + 1} ELSE D
    BY <1>1
  <1>5. Cardinality(D \cup {n + 1}) = Cardinality(D) + 1
    BY <1>2, <1>3, FS_AddElement
  <1> HIDE DEF D, n
  <1>6. Cardinality(D') = IF e = f THEN Cardinality(D) + 1 ELSE Cardinality(D)
    BY <1>4, <1>5
  <1> QED
    BY <1>3, <1>6 DEF Copies, D

\* A record without a copy is in nobody's way.
LEMMA NoCopies ==
    ASSUME topic \in Seq(Events), NEW e \in Events
    PROVE  Copies(e) \in Nat /\ (~ InTopic(e) => Copies(e) = 0)
  <1> DEFINE D == {i \in DOMAIN topic : topic[i] = e}
  <1>1. DOMAIN topic = 1 .. Len(topic) /\ Len(topic) \in Nat
    OBVIOUS
  <1>2. D \subseteq 1 .. Len(topic)
    BY <1>1
  <1>3. IsFiniteSet(D) /\ Cardinality(D) \in Nat
    BY <1>1, <1>2, PositionsFinite
  <1>4. ~ InTopic(e) => D = {}
    BY DEF InTopic
  <1> QED
    BY <1>3, <1>4, FS_EmptySet DEF Copies

--------------------------------------------------------------------------------
(* One step of one publisher, for one event *)

OthersKept(p) ==
    \A q \in Publishers \ {p} : pc'[q] = pc[q] /\ row'[q] = row[q]

Is(b) == IF b THEN 1 ELSE 0

\* It adds d copies and f faults and leaves the row: whoever stops marking, or
\* comes to send a published row, needs a fault, and whoever sends takes its place.
LEMMA RowKept ==
    ASSUME AIInv, IInv', NEW p \in Publishers, OthersKept(p), NEW e \in Events,
           NEW d \in {0, 1}, NEW f \in {0, 1},
           Tally(e)' = Tally(e) + d, faults' = faults + f, outbox'[e] = outbox[e],
           outbox[e] = "pending" => d + Is(p \in Marking(e)) <= Is(p \in Marking(e)') + f,
           outbox[e] = "published" => d + Is(p \in Free(e)) <= Is(p \in Free(e)') + f
    PROVE  Account(e)'
  <1>1. /\ Tally(e) \in Nat /\ faults \in Nat /\ Account(e)
    <2>1. late[e] \in Nat /\ faults \in Nat /\ topic \in Seq(Events)
      BY DEF AIInv, IInv, TypeOK
    <2> QED
      BY <2>1, NoCopies DEF AIInv, Tally
  <1> DEFINE M == Marking(e)
             F == Free(e)
  <1>2. /\ M \subseteq Publishers /\ M' \subseteq Publishers /\ M \ {p} = M' \ {p}
        /\ F \subseteq Publishers /\ F' \subseteq Publishers /\ F \ {p} = F' \ {p}
    BY DEF Marking, Free, OthersKept
  <1>3. /\ outbox[e] = "pending" => Tally(e) <= Cardinality(M) + faults
        /\ outbox[e] = "published" => Tally(e) <= Cardinality(F) + faults
        /\ outbox[e] = "pending" => d + Is(p \in M) <= Is(p \in M') + f
        /\ outbox[e] = "published" => d + Is(p \in F) <= Is(p \in F') + f
    BY <1>1 DEF Account
  <1> HIDE DEF M, F
  <1>4. /\ Cardinality(M) \in Nat /\ Cardinality(M') \in Nat
        /\ Cardinality(F) \in Nat /\ Cardinality(F') \in Nat
    BY <1>2, PublishersFinite
  <1>5. /\ Cardinality(M') = Cardinality(M) + Is(p \in M') - Is(p \in M)
        /\ Cardinality(F') = Cardinality(F) + Is(p \in F') - Is(p \in F)
    BY <1>2, <1>4, OneMoves DEF Is
  <1>6. outbox'[e] = "pending" => Tally(e)' <= Cardinality(M') + faults'
    BY <1>1, <1>3, <1>4, <1>5 DEF Is
  <1>7. outbox'[e] = "published" => Tally(e)' <= Cardinality(F') + faults'
    BY <1>1, <1>3, <1>4, <1>5 DEF Is
  <1> QED
    BY <1>6, <1>7 DEF Account, M, F

\* It marks the row: from now on every publisher that is not about to send it
\* stands for a copy.
LEMMA RowMarked ==
    ASSUME AIInv, IInv', NEW p \in Publishers, OthersKept(p), NEW e \in Events,
           NEW f \in {0, 1}, Tally(e)' = Tally(e), faults' = faults + f,
           outbox[e] = "pending", outbox'[e] = "published", pc'[p] # "produce"
    PROVE  Account(e)'
  <1>1. Tally(e) \in Nat /\ faults \in Nat /\ Tally(e) <= Cardinality(Marking(e)) + faults
    <2>1. late[e] \in Nat /\ faults \in Nat /\ topic \in Seq(Events)
      BY DEF AIInv, IInv, TypeOK
    <2> QED
      BY <2>1, NoCopies DEF AIInv, Tally, Account
  <1>2. Marking(e) \in SUBSET Free(e)' /\ Free(e)' \subseteq Publishers
    BY DEF Marking, Free, OthersKept
  <1>3. /\ Cardinality(Marking(e)) <= Cardinality(Free(e)')
        /\ Cardinality(Marking(e)) \in Nat /\ Cardinality(Free(e)') \in Nat
    BY <1>2, PublishersFinite, FS_Subset, FS_CardinalityType
  <1>4. Tally(e)' <= Cardinality(Free(e)') + faults'
    BY <1>1, <1>3
  <1> QED
    BY <1>4 DEF Account

--------------------------------------------------------------------------------
(* The steps of a publisher *)

\* What a publisher that leaves its iteration is doing.
LEMMA ContinueKept ==
    ASSUME IInv, NEW p \in Publishers, NEW step \in {"poll", "sleep", "stopped"},
           NEW m, Continue(p, step, m)
    PROVE  /\ OthersKept(p) /\ pc'[p] = step
           /\ \A e \in Events : p \notin Marking(e)' /\ (p \in Free(e))'
  BY DEF IInv, TypeOK, Continue, OthersKept, Marking, Free

\* A step that touches neither topic, rows nor faults, after which the publisher
\* has no row, or a pending one to send.
LEMMA QuietAccount ==
    ASSUME AIInv, IInv', NEW p \in Publishers, OthersKept(p),
           pc[p] # "mark", UNCHANGED <<outbox, kafka>>, NEW f \in {0, 1},
           faults' = faults + f,
           \/ pc'[p] \notin {"mark", "produce"}
           \/ pc'[p] = "produce" /\ outbox[row'[p]] = "pending"
    PROVE  \A e \in Events : Account(e)'
  <1> SUFFICES ASSUME NEW e \in Events PROVE Account(e)'
    OBVIOUS
  <1>1. Tally(e)' = Tally(e) + 0 /\ outbox'[e] = outbox[e]
    <2>1. late[e] \in Nat /\ Copies(e) \in Nat
      BY NoCopies DEF AIInv, IInv, TypeOK
    <2> QED
      BY <2>1 DEF kafka, Tally, Copies
  <1>2. /\ p \notin Marking(e)
        /\ outbox[e] = "published" => (p \in Free(e))'
    BY DEF Marking, Free
  <1>3. /\ outbox[e] = "pending" => 0 + Is(p \in Marking(e)) <= Is(p \in Marking(e)') + f
        /\ outbox[e] = "published" => 0 + Is(p \in Free(e)) <= Is(p \in Free(e)') + f
    BY <1>2 DEF Is
  <1> QED
    BY <1>1, <1>3, RowKept

\* Produce adds a copy and puts its publisher among those about to mark.
LEMMA ProduceAccount ==
    ASSUME AIInv, IInv', NEW p \in Publishers, Produce(p)
    PROVE  \A e \in Events : Account(e)'
  <1> SUFFICES ASSUME NEW e \in Events PROVE Account(e)'
    OBVIOUS
  <1>1. /\ IInv /\ topic \in Seq(Events) /\ row[p] \in Events /\ late[e] \in Nat
        /\ pc \in [Publishers -> {"poll", "produce", "mark", "sleep", "stopped"}]
        /\ faults \in Nat
    BY DEF AIInv, IInv, TypeOK
  <1>2. /\ pc[p] = "produce" /\ pc'[p] = "mark" /\ row'[p] = row[p] /\ OthersKept(p)
        /\ topic' = Append(topic, row[p]) /\ late' = late /\ outbox' = outbox
        /\ faults' = faults + 0
    BY <1>1 DEF Produce, OthersKept, rows
  <1>3. Tally(e)' = Tally(e) + Is(e = row[p])
    <2>1. Copies(e) \in Nat /\ Copies(e)' = IF e = row[p] THEN Copies(e) + 1 ELSE Copies(e)
      BY <1>1, <1>2, AppendCopies
    <2> QED
      BY <1>1, <1>2, <2>1 DEF Tally, Is
  <1>4. /\ p \notin Marking(e) /\ (p \in Marking(e)' <=> e = row[p])
        /\ (p \in Free(e) <=> e # row[p]) /\ (p \in Free(e))'
    BY <1>2 DEF Marking, Free
  <1>5. /\ Is(e = row[p]) + Is(p \in Marking(e)) <= Is(p \in Marking(e)') + 0
        /\ Is(e = row[p]) + Is(p \in Free(e)) <= Is(p \in Free(e)') + 0
        /\ Is(e = row[p]) \in {0, 1}
    BY <1>4 DEF Is
  <1> QED
    BY <1>2, <1>3, <1>5, RowKept

\* A mark, whether its publisher learns of it or not.
LEMMA MarkAccount ==
    ASSUME AIInv, IInv', NEW p \in Publishers, pc[p] = "mark", OthersKept(p),
           pc'[p] \in {"poll", "sleep", "stopped"}, UNCHANGED kafka,
           NEW f \in {0, 1}, faults' = faults + f,
           \/ outbox' = Marked(row[p])
           \/ outbox' = outbox /\ f = 1
    PROVE  \A e \in Events : Account(e)'
  <1> SUFFICES ASSUME NEW e \in Events PROVE Account(e)'
    OBVIOUS
  <1>1. Tally(e)' = Tally(e) + 0 /\ Tally(e) \in Nat
    <2>1. late[e] \in Nat /\ Copies(e) \in Nat
      BY NoCopies DEF AIInv, IInv, TypeOK
    <2> QED
      BY <2>1 DEF kafka, Tally, Copies
  <1>2. /\ p \in Marking(e) <=> row[p] = e
        /\ p \notin Marking(e)' /\ p \in Free(e) /\ (p \in Free(e))'
    BY DEF Marking, Free
  <1>3. CASE outbox'[e] # outbox[e]
    <2>1. outbox[e] = "pending" /\ outbox'[e] = "published"
      BY <1>3 DEF Marked, AIInv, IInv, TypeOK
    <2> QED
      BY <1>1, <2>1, RowMarked
  <1>4. CASE outbox'[e] = outbox[e]
    <2>1. outbox[e] = "pending" => f = 1 \/ row[p] # e
      BY <1>4 DEF Marked, AIInv, IInv, TypeOK
    <2>2. /\ outbox[e] = "pending" =>
              0 + Is(p \in Marking(e)) <= Is(p \in Marking(e)') + f
          /\ outbox[e] = "published" => 0 + Is(p \in Free(e)) <= Is(p \in Free(e)') + f
      BY <1>2, <2>1 DEF Is
    <2> QED
      BY <1>1, <1>4, <2>2, RowKept
  <1> QED
    BY <1>3, <1>4

\* A produce request given up on may still arrive: the fault stands for its copy.
LEMMA AbandonAccount ==
    ASSUME AIInv, IInv', NEW p \in Publishers, pc[p] = "produce", OthersKept(p),
           pc'[p] \in {"sleep", "stopped"}, UNCHANGED <<outbox, topic>>,
           Abandon(row[p]), faults' = faults + 1
    PROVE  \A e \in Events : Account(e)'
  <1> SUFFICES ASSUME NEW e \in Events PROVE Account(e)'
    OBVIOUS
  <1>1. late \in [Events -> Nat] /\ Copies(e) \in Nat
    BY NoCopies DEF AIInv, IInv, TypeOK
  <1>2. Copies(e)' = Copies(e)
    BY DEF Copies
  <1>3. PICK d \in {0, 1} : late'[e] = late[e] + d
    BY <1>1 DEF Abandon
  <1>4. Tally(e)' = Tally(e) + d
    BY <1>1, <1>2, <1>3 DEF Tally
  <1>5. p \notin Marking(e) /\ (p \in Free(e))'
    BY DEF Marking, Free
  <1>6. /\ d + Is(p \in Marking(e)) <= Is(p \in Marking(e)') + 1
        /\ d + Is(p \in Free(e)) <= Is(p \in Free(e)') + 1
    BY <1>5 DEF Is
  <1> QED
    BY <1>4, <1>6, RowKept

\* The steps of an iteration of the loop, and a restart.
LEMMA LoopAccount ==
    ASSUME AIInv, IInv', NEW p \in Publishers, LoopStep(p) \/ Restart(p)
    PROVE  \A e \in Events : Account(e)'
  <1>1. /\ IInv /\ row[p] \in Events /\ row \in [Publishers -> Events]
        /\ pc \in [Publishers -> {"poll", "produce", "mark", "sleep", "stopped"}]
        /\ faults \in Nat
    BY DEF AIInv, IInv, TypeOK
  <1>2. CASE NextPendingOutbox(p)
    <2>1. PICK e \in Pending : row' = [row EXCEPT ![p] = e]
      BY <1>2 DEF NextPendingOutbox
    <2>2. /\ pc[p] = "poll" /\ pc'[p] = "produce" /\ outbox[row'[p]] = "pending"
          /\ UNCHANGED <<outbox, kafka>> /\ faults' = faults + 0
      BY <1>1, <1>2, <2>1 DEF NextPendingOutbox, Pending, rows
    <2>3. OthersKept(p)
      BY <1>1, <1>2, <2>1 DEF NextPendingOutbox, OthersKept
    <2> QED
      BY <2>2, <2>3, QuietAccount
  <1>3. CASE NothingPending(p) \/ ProduceRefused(p)
    <2>1. /\ \E m : Continue(p, "sleep", m)
          /\ pc[p] # "mark" /\ UNCHANGED <<outbox, kafka>> /\ faults' = faults + 0
      BY <1>1, <1>3 DEF NothingPending, ProduceRefused, rows
    <2>2. OthersKept(p) /\ pc'[p] = "sleep"
      BY <1>1, <2>1, ContinueKept
    <2> QED
      BY <2>1, <2>2, QuietAccount
  <1>4. CASE Wake(p) \/ Restart(p)
    <2>1. /\ pc[p] # "mark" /\ pc'[p] = "poll" /\ UNCHANGED <<outbox, kafka>>
          /\ faults' = faults + 0 /\ OthersKept(p)
      BY <1>1, <1>4 DEF Wake, Restart, OthersKept, rows
    <2> QED
      BY <2>1, QuietAccount
  <1>5. CASE MarkOutboxPublished(p)
    <2>1. /\ pc[p] = "mark" /\ UNCHANGED kafka /\ faults' = faults + 0
          /\ outbox' = Marked(row[p])
          /\ \E step \in {"poll", "sleep"} : \E m : Continue(p, step, m)
      BY <1>1, <1>5 DEF MarkOutboxPublished, Marked
    <2>2. OthersKept(p) /\ pc'[p] \in {"poll", "sleep"}
      BY <1>1, <2>1, ContinueKept
    <2> QED
      BY <2>1, <2>2, MarkAccount
  <1> QED
    BY <1>2, <1>3, <1>4, <1>5, ProduceAccount DEF LoopStep

\* Failed calls and stops.
LEMMA FailureAccount ==
    ASSUME AIInv, IInv', NEW p \in Publishers, LoopFails(p)
    PROVE  \A e \in Events : Account(e)'
  <1>1. IInv
    BY DEF AIInv
  <1>2. CASE SelectFails(p)
    <2>1. /\ pc[p] = "poll" /\ UNCHANGED <<outbox, kafka>> /\ faults' = faults + 1
          /\ Continue(p, "sleep", "outbox_publish_failed")
      BY <1>2 DEF SelectFails, Fault, rows
    <2>2. OthersKept(p) /\ pc'[p] = "sleep"
      BY <1>1, <2>1, ContinueKept
    <2> QED
      BY <2>1, <2>2, QuietAccount
  <1>3. CASE ProduceFails(p)
    <2>1. /\ pc[p] = "produce" /\ UNCHANGED <<outbox, topic>> /\ faults' = faults + 1
          /\ Abandon(row[p]) /\ Continue(p, "sleep", "outbox_publish_failed")
      BY <1>3 DEF ProduceFails, Fault, rows
    <2>2. OthersKept(p) /\ pc'[p] = "sleep"
      BY <1>1, <2>1, ContinueKept
    <2> QED
      BY <2>1, <2>2, AbandonAccount
  <1>4. CASE MarkFails(p)
    <2>1. /\ pc[p] = "mark" /\ UNCHANGED kafka /\ faults' = faults + 1
          /\ outbox' = Marked(row[p]) \/ outbox' = outbox
          /\ Continue(p, "sleep", "outbox_publish_failed")
      BY <1>4 DEF MarkFails, Fault
    <2>2. OthersKept(p) /\ pc'[p] = "sleep"
      BY <1>1, <2>1, ContinueKept
    <2> QED
      BY <2>1, <2>2, MarkAccount
  <1>5. CASE Stop(p)
    <2>1. faults' = faults + 1 /\ topic' = topic /\ Continue(p, "stopped", "none")
      BY <1>5 DEF Stop, Fault
    <2>2. OthersKept(p) /\ pc'[p] = "stopped"
      BY <1>1, <2>1, ContinueKept
    <2>3. CASE pc[p] = "produce"
      BY <1>5, <2>1, <2>2, <2>3, AbandonAccount DEF Stop
    <2>4. CASE pc[p] = "mark"
      <3>1. late' = late /\ (outbox' = Marked(row[p]) \/ outbox' = outbox)
        BY <1>5, <2>4 DEF Stop
      <3>2. UNCHANGED kafka
        BY <2>1, <3>1 DEF kafka
      <3> QED
        BY <2>1, <2>2, <2>4, <3>1, <3>2, MarkAccount
    <2>5. CASE pc[p] \notin {"produce", "mark"}
      <3>1. late' = late /\ outbox' = outbox
        BY <1>5, <2>5 DEF Stop
      <3>2. UNCHANGED <<outbox, kafka>>
        BY <2>1, <3>1 DEF kafka
      <3> QED
        BY <2>1, <2>2, <2>5, <3>2, QuietAccount
    <2> QED
      BY <2>3, <2>4, <2>5
  <1> QED
    BY <1>2, <1>3, <1>4, <1>5 DEF LoopFails

--------------------------------------------------------------------------------
(* Steps that are no publisher's *)

\* A pending row that stays, with no copy more than before.
LEMMA NoPublisherAccount ==
    ASSUME AIInv, IInv', UNCHANGED <<pc, row>>, NEW e \in Events,
           Tally(e)' = Tally(e), outbox'[e] = outbox[e], faults' \in {faults, faults + 1}
    PROVE  Account(e)'
  <1>1. Tally(e) \in Nat /\ faults \in Nat /\ Account(e)
    <2>1. late[e] \in Nat /\ faults \in Nat /\ topic \in Seq(Events)
      BY DEF AIInv, IInv, TypeOK
    <2> QED
      BY <2>1, NoCopies DEF AIInv, Tally
  <1>2. Marking(e)' = Marking(e) /\ Free(e)' = Free(e)
    BY DEF Marking, Free
  <1>3. Cardinality(Marking(e)) \in Nat /\ Cardinality(Free(e)) \in Nat
    BY PublishersFinite DEF Marking, Free
  <1> QED
    BY <1>1, <1>2, <1>3 DEF Account

\* AcceptEvent's statements: a row that becomes pending has no copy anywhere.
LEMMA RowAccount ==
    ASSUME AIInv, IInv', NEW f \in Events, RowStep(f)
    PROVE  \A e \in Events : Account(e)'
  <1> SUFFICES ASSUME NEW e \in Events PROVE Account(e)'
    OBVIOUS
  <1>1. /\ UNCHANGED <<pc, row, topic, late>> /\ faults' \in {faults, faults + 1}
        /\ outbox'[e] = outbox[e] \/ (outbox[e] = "absent" /\ outbox'[e] = "pending")
    <2>1. faults \in Nat /\ outbox \in [Events -> {"absent", "pending", "published"}]
      BY DEF AIInv, IInv, TypeOK
    <2> QED
      BY <2>1 DEF RowStep, Insert, CommitInsert, RollbackInsert, Fault, kafka
  <1>2. Tally(e)' = Tally(e)
    BY <1>1 DEF Tally, Copies
  <1>3. CASE outbox'[e] = outbox[e]
    BY <1>1, <1>2, <1>3, NoPublisherAccount
  <1>4. CASE outbox[e] = "absent" /\ outbox'[e] = "pending"
    <2>1. ~ InTopic(e) /\ late[e] = 0 /\ topic \in Seq(Events) /\ faults' \in Nat
      BY <1>4 DEF AIInv, IInv, TypeOK, TopicIsCommitted
    <2>2. Tally(e) = 0
      BY <2>1, NoCopies DEF Tally
    <2>3. Cardinality(Marking(e)') \in Nat
      BY PublishersFinite DEF Marking
    <2>4. Tally(e)' <= Cardinality(Marking(e)') + faults'
      BY <1>2, <2>1, <2>2, <2>3
    <2> QED
      BY <1>4, <2>4 DEF Account
  <1> QED
    BY <1>1, <1>3, <1>4

\* A late copy was accounted for when its request was given up.
LEMMA LateAccount ==
    ASSUME AIInv, IInv', NEW f \in Events, LateAppend(f)
    PROVE  \A e \in Events : Account(e)'
  <1> SUFFICES ASSUME NEW e \in Events PROVE Account(e)'
    OBVIOUS
  <1>1. /\ topic \in Seq(Events) /\ late \in [Events -> Nat] /\ late[f] > 0
        /\ topic' = Append(topic, f) /\ late' = [late EXCEPT ![f] = @ - 1]
        /\ UNCHANGED <<pc, row>> /\ outbox' = outbox /\ faults' = faults
    BY DEF AIInv, IInv, TypeOK, LateAppend, rows
  <1>2. Copies(e) \in Nat /\ Copies(e)' = IF e = f THEN Copies(e) + 1 ELSE Copies(e)
    BY <1>1, AppendCopies
  <1>3. Tally(e)' = Tally(e)
    BY <1>1, <1>2 DEF Tally
  <1> QED
    BY <1>1, <1>3, NoPublisherAccount

--------------------------------------------------------------------------------
(* The theorem *)

\* No row, no copies.
LEMMA InitAccount == Init => AIInv
  <1> SUFFICES ASSUME Init PROVE AIInv
    OBVIOUS
  <1>1. \A e \in Events : outbox[e] = "absent"
    BY DEF Init
  <1> QED
    BY <1>1, InitIInv DEF AIInv, Account

\* Every step keeps the account of every event.
LEMMA NextAccount == AIInv /\ [Next]_vars => AIInv'
  <1> SUFFICES ASSUME AIInv, [Next]_vars PROVE AIInv'
    OBVIOUS
  <1>1. IInv'
    BY NextIInv DEF AIInv
  <1>2. ASSUME NEW e \in Events, RowStep(e) \/ LateAppend(e)
        PROVE  \A f \in Events : Account(f)'
    BY <1>1, <1>2, RowAccount, LateAccount
  <1>3. ASSUME NEW p \in Publishers, LoopStep(p) \/ LoopFails(p) \/ Restart(p)
        PROVE  \A f \in Events : Account(f)'
    BY <1>1, <1>3, LoopAccount, FailureAccount
  <1>4. CASE UNCHANGED vars
    <2>1. ASSUME NEW e \in Events PROVE Account(e)'
      <3>1. /\ Tally(e)' = Tally(e) /\ UNCHANGED <<pc, row>> /\ outbox' = outbox
            /\ faults' = faults
        BY <1>4 DEF vars, rows, kafka, Tally, Copies
      <3> QED
        BY <1>1, <3>1, NoPublisherAccount
    <2> QED
      BY <1>1, <2>1 DEF AIInv
  <1>5. \A f \in Events : Account(f)'
    BY <1>2, <1>3, <1>4 DEF Next, AIInv
  <1> QED
    BY <1>1, <1>5 DEF AIInv

\* The account holds in every behaviour.
LEMMA AccountInductive == Spec => []AIInv
  BY InitAccount, NextAccount, PTL DEF Spec

\* publishOutbox sends a record once for each publisher and each fault at most:
\* the topic's duplicates have causes, and nothing else makes the loop repeat.
THEOREM DuplicatesHaveCauses == Spec => []CopiesAreAccountedFor
  <1>1. AIInv => CopiesAreAccountedFor
    <2> SUFFICES ASSUME AIInv, NEW e \in Events
                 PROVE  Copies(e) + late[e] <= Cardinality(Publishers) + faults
      BY DEF CopiesAreAccountedFor
    <2>1. /\ topic \in Seq(Events) /\ late[e] \in Nat /\ faults \in Nat
          /\ outbox[e] \in {"absent", "pending", "published"} /\ Account(e)
          /\ InTopic(e) \/ late[e] > 0 => outbox[e] # "absent"
      BY DEF AIInv, IInv, TypeOK, TopicIsCommitted
    <2>2. Copies(e) \in Nat /\ (~ InTopic(e) => Copies(e) = 0)
      BY <2>1, NoCopies
    <2>3. /\ Cardinality(Marking(e)) \in Nat /\ Cardinality(Free(e)) \in Nat
          /\ Cardinality(Marking(e)) <= Cardinality(Publishers)
          /\ Cardinality(Free(e)) <= Cardinality(Publishers)
          /\ Cardinality(Publishers) \in Nat
      BY PublishersFinite DEF Marking, Free
    <2> QED
      BY <2>1, <2>2, <2>3 DEF Account, Tally
  <1> QED
    BY <1>1, AccountInductive, PTL
================================================================================
