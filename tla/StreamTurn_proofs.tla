------------------------- MODULE StreamTurn_proofs -------------------------
(***************************************************************************)
(* Proofs about a streaming turn, for answers of any length, any set and   *)
(* number of statuses and any number of failing overwrites: first the flow *)
(* of the chat and what the history holds of it, then the drain of the     *)
(* statuses, then the turn that composes them, for both its generators.    *)
(***************************************************************************)
EXTENDS StreamTurn, SequenceTheorems, TLAPS

-----------------------------------------------------------------------------
(* The flow of the chat (StreamSave).                                       *)

\* The answer's pieces at every point of the flow.
Progress ==
    /\ pc = "head" => path = "open" /\ content = 0 /\ sent = 0
    /\ pc \in {"stream", "piece"} => path = "stream"
    /\ pc = "stream" => sent = content
    /\ pc = "piece" => sent = content + 1
    /\ pc = "reply" => path \in {"early", "late", "text"} /\ content = Pieces
    /\ pc = "docs" => path \in SearchPaths /\ content = Pieces
    /\ pc = "saving" =>
          \/ path = "early" /\ sent = 0
          \/ path \in SearchPaths /\ content = Pieces
    /\ pc = "apology" => path = "failed"
    /\ sent <= content + 1

\* Who may be saving, and what.
OneSaver ==
    /\ thread # "off" => pc \in {"saving", "final", "ended"} /\ mem = << >>
    /\ pc = "saving" /\ path = "early" => job.text = Pieces /\ job.by = "turn"
    /\ pc = "saving" /\ path \in SearchPaths => job.text = Pieces
    /\ pc = "final" => job.text = content
    /\ pc = "ended" /\ thread # "off" =>
          left = "cancelled" /\ job.text \in {content, Pieces}

\* The list of the request gets its answer in the last save only.
ListedLast ==
    mem # << >> => saved \/ pc \in {"final", "ended"}
                         \/ (pc = "saving" /\ path \in SearchPaths)

\* The stored answer is the one that the flow has, or is about to have.
StoredAnswer ==
    /\ \/ row = << >>
       \/ row = <<content>> /\ pc # "saving"
       \/ row = <<Pieces>> /\ pc \in {"saving", "ended"}
    /\ thread # "off" => row = << >> \/ row = <<job.text>>
    /\ pc \in {"head", "stream", "piece"} => row = << >>

\* After a save without error the answer is there.
Landed ==
    /\ saved => /\ pc \in {"done", "csv", "ended"} /\ path \in SearchPaths
                /\ content = Pieces
                /\ writeErrors = 0 => row = <<Pieces>>
    /\ doneSent => /\ pc \in {"done", "csv", "final", "ended"}
                   /\ saved \/ path \notin SearchPaths
    /\ pc = "saving" /\ path \in SearchPaths /\ thread = "off" /\ writeErrors = 0
          => row = <<Pieces>>
    /\ pc = "final" /\ thread = "off" /\ writeErrors = 0 => row = <<content>>
    /\ pc = "ended" /\ left # "cancelled" /\ writeErrors = 0 => row = <<content>>

FlowInv ==
    /\ TypeOK /\ Progress /\ OneSaver /\ ListedLast /\ StoredAnswer /\ Landed

\* The type invariant in parts, which different steps disturb.
Flags == doneSent \in BOOLEAN /\ saved \in BOOLEAN
Points ==
    /\ pc \in {"head", "saving", "reply", "stream", "piece", "docs",
               "apology", "done", "csv", "final", "ended"}
    /\ path \in Paths
    /\ left \in {"no", "closed", "cancelled"}
    /\ thread \in {"off", "queued", "running"}
Counts == content \in Texts /\ sent \in Texts
JobType == job \in [by : {"turn", "stream"}, text : Texts]
Answers ==
    /\ mem \in Seq(Texts) /\ row \in Seq(Texts)
    /\ writeErrors \in 0 .. MaxWriteErrors

LEMMA TypeParts == TypeOK <=> Flags /\ Points /\ Counts /\ JobType /\ Answers
  BY Zenon DEF TypeOK, Flags, Points, Counts, JobType, Answers

LEMMA TypePartsNext ==
  Flags' /\ Points' /\ Counts' /\ JobType' /\ Answers' => TypeOK'
  BY Zenon DEF TypeOK, Flags, Points, Counts, JobType, Answers

LEMMA PartsKept ==
  /\ Flags /\ UNCHANGED <<doneSent, saved>> => Flags'
  /\ Counts /\ UNCHANGED <<content, sent>> => Counts'
  /\ JobType /\ UNCHANGED job => JobType'
  /\ Answers /\ UNCHANGED <<mem, row, writeErrors>> => Answers'
<1>1. Flags /\ UNCHANGED <<doneSent, saved>> => Flags'
  BY Zenon DEF Flags
<1>2. Counts /\ UNCHANGED <<content, sent>> => Counts'
  BY DEF Counts
<1>3. JobType /\ UNCHANGED job => JobType'
  BY DEF JobType
<1>4. Answers /\ UNCHANGED <<mem, row, writeErrors>> => Answers'
  BY DEF Answers
<1> QED
  BY <1>1, <1>2, <1>3, <1>4

LEMMA Singletons ==
  ASSUME NEW t \in Texts
  PROVE  <<t>> \in Seq(Texts) /\ Len(<<t>>) = 1 /\ <<t>>[1] = t /\ <<t>> # << >>
  OBVIOUS

\* Whoever saves first, one answer is listed and stored.
LEMMA FirstAnswer ==
  ASSUME TypeOK, mem = << >>
  PROVE  /\ Messages \in Seq(Texts)
         /\ Messages # << >> => job.by = "stream"
         /\ Stored(Messages) = <<job.text>>
<1>1. job.text \in Texts /\ job.by \in {"turn", "stream"}
  BY DEF TypeOK
<1>2. CASE job.by = "stream"
  <2>1. Messages = <<job.text>>
    BY <1>2 DEF Messages
  <2>2. [<<job.text>> EXCEPT ![Len(<<job.text>>)] = job.text] = <<job.text>>
    BY Singletons, <1>1
  <2> QED
    BY <1>1, <1>2, <2>1, <2>2, Singletons DEF Stored
<1>3. CASE job.by = "turn"
  <2>1. Messages = << >>
    BY <1>3 DEF Messages
  <2> QED
    BY <2>1, EmptySeq DEF Stored
<1> QED
  BY <1>1, <1>2, <1>3

LEMMA InvInit == Init => FlowInv
<1> SUFFICES ASSUME Init PROVE FlowInv
  OBVIOUS
<1> << >> \in Seq(Texts)
  OBVIOUS
<1>1. TypeOK
  <2>1. Flags
    BY Zenon DEF Init, Flags
  <2>2. Points
    BY DEF Init, Points, Paths
  <2>3. Counts /\ JobType
    BY StreamAssumption DEF Init, Counts, JobType, Texts
  <2>4. Answers
    BY StreamAssumption DEF Init, Answers
  <2> QED
    BY <2>1, <2>2, <2>3, <2>4, TypeParts
<1>2. Progress /\ OneSaver /\ ListedLast /\ StoredAnswer /\ Landed
  BY DEF Init, Progress, OneSaver, ListedLast, StoredAnswer, Landed, SearchPaths
<1> QED
  BY <1>1, <1>2 DEF FlowInv

LEMMA InvStep == FlowInv /\ [Next]_vars => FlowInv'
<1> SUFFICES ASSUME FlowInv, [Next]_vars PROVE FlowInv'
  OBVIOUS
<1> USE StreamAssumption DEF Texts, SearchPaths, Paths, flowVars, saveVars
<1>t. TypeOK'
  <2> USE TypeParts DEF FlowInv
  <2>1. CASE Answering
    <3> USE <2>1 DEF Answering, AskBack, AskedBack, AnswerDirectly, ResultIsText,
            ResultIsStream, Fail, Raise, YieldPiece, CollectPiece, SendPiece, Submit
    <3>1. Points'
      BY DEF Points
    <3>2. Counts'
      BY DEF Counts, ReplyText, Collected, Progress
    <3>3. JobType'
      BY DEF JobType
    <3>4. UNCHANGED <<doneSent, saved, mem, row, writeErrors>>
      OBVIOUS
    <3> QED
      BY <3>1, <3>2, <3>3, <3>4, TypeParts, PartsKept, TypePartsNext
  <2>2. CASE Ending
    <3> USE <2>2 DEF Ending, YieldDocuments, PreSave, PreSaved, SendDone, Resume,
            CsvWritten, FinalSaved, Submit
    <3>1. Points'
      BY DEF Points
    <3>2. JobType'
      BY DEF JobType, Counts
    <3>3. /\ doneSent' = TRUE \/ doneSent' = doneSent
          /\ saved' = TRUE \/ saved' = saved
      OBVIOUS
    <3>4. UNCHANGED <<content, sent, mem, row, writeErrors>>
      OBVIOUS
    <3>5. Flags'
      BY <3>3, Zenon DEF Flags
    <3> QED
      BY <3>1, <3>2, <3>4, <3>5, TypeParts, PartsKept, TypePartsNext
  <2>3. CASE Execute \/ Close \/ Cancel \/ UNCHANGED vars
    <3>1. Points' /\ UNCHANGED <<doneSent, saved, content, sent, job, mem, row, writeErrors>>
      BY <2>3 DEF Execute, Close, Cancel, vars, Points
    <3> QED
      BY <3>1, TypeParts, PartsKept, TypePartsNext
  <2>4. CASE Commit
    <3>1. mem = << >> /\ job.text \in Texts
      BY <2>4 DEF Commit, OneSaver, JobType
    <3>2. mem' \in Seq(Texts) /\ row' \in Seq(Texts)
      BY <2>4, <3>1, FirstAnswer, Singletons DEF Commit, Answers
    <3>3. Points' /\ UNCHANGED <<doneSent, saved, content, sent, job>>
      BY <2>4 DEF Commit, Points
    <3>4. writeErrors' \in 0 .. MaxWriteErrors
      BY <2>4 DEF Commit, Answers
    <3>5. Answers'
      BY <3>2, <3>4 DEF Answers
    <3> QED
      BY <3>2, <3>3, <3>5, TypeParts, PartsKept, TypePartsNext
  <2> QED
    BY <2>1, <2>2, <2>3, <2>4 DEF Next
<1>1. CASE Answering
  <2> USE <1>1 DEF Answering, AskBack, AskedBack, AnswerDirectly, ResultIsText,
          ResultIsStream, Fail, Raise, YieldPiece, CollectPiece, SendPiece,
          Submit, ReplyText, Collected, SaveOver, FlowInv, TypeOK
  <2>1. Progress'
    BY DEF Progress
  <2>2. OneSaver'
    BY DEF Progress, OneSaver, ListedLast, Landed
  <2>3. ListedLast'
    BY DEF Progress, ListedLast, Landed
  <2>4. StoredAnswer'
    BY DEF Progress, OneSaver, StoredAnswer
  <2>5. Landed'
    BY DEF Progress, Landed
  <2> QED
    BY <1>t, <2>1, <2>2, <2>3, <2>4, <2>5
<1>2. CASE Ending
  <2> USE <1>2 DEF Ending, YieldDocuments, PreSave, PreSaved, SendDone, Resume,
          CsvWritten, FinalSaved, MustSave, AnswerComplete, Submit, SaveOver,
          FlowInv, TypeOK
  <2>1. Progress'
    BY DEF Progress
  <2>2. OneSaver'
    BY DEF Progress, OneSaver, ListedLast, Landed
  <2>3. ListedLast'
    BY DEF Progress, ListedLast, Landed
  <2>4. StoredAnswer'
    BY DEF Progress, OneSaver, StoredAnswer
  <2>5. Landed'
    BY DEF Progress, OneSaver, Landed
  <2> QED
    BY <1>t, <2>1, <2>2, <2>3, <2>4, <2>5
<1>3. CASE Execute \/ Close \/ Cancel \/ UNCHANGED vars
  <2> USE <1>3 DEF Execute, Close, Cancel, Shielded, vars, FlowInv, TypeOK
  <2>1. Progress'
    BY DEF Progress
  <2>2. OneSaver'
    BY DEF Progress, OneSaver
  <2>3. ListedLast'
    BY DEF ListedLast, Landed
  <2>4. StoredAnswer'
    BY DEF Progress, OneSaver, StoredAnswer
  <2>5. Landed'
    BY DEF Progress, OneSaver, Landed
  <2> QED
    BY <1>t, <2>1, <2>2, <2>3, <2>4, <2>5
<1>4. CASE Commit
  <2>1. /\ mem = << >> /\ job.text \in Texts
        /\ pc \in {"saving", "final", "ended"}
        /\ job.by \in {"turn", "stream"}
    BY <1>4 DEF Commit, FlowInv, OneSaver, TypeOK
  <2>2. /\ mem' # << >> => job.by = "stream"
        /\ \/ row' = <<job.text>> /\ writeErrors' = writeErrors
           \/ row' = row /\ writeErrors' # 0
    BY <1>4, <2>1, FirstAnswer DEF Commit, FlowInv, TypeOK
  <2>3. UNCHANGED <<flowVars, job>> /\ thread' = "off" /\ thread # "off"
    BY <1>4 DEF Commit
  <2>4. /\ job.text \in {content, Pieces}
        /\ pc = "saving" => job.text = Pieces
        /\ pc = "final" => job.text = content
    BY <2>1, <2>3 DEF FlowInv, OneSaver, Progress
  <2>5. row = << >> \/ row = <<job.text>>
    BY <2>3 DEF FlowInv, StoredAnswer
  <2>6. Progress'
    BY <2>3 DEF FlowInv, Progress
  <2>7. OneSaver'
    BY <2>3 DEF FlowInv, OneSaver
  <2>8. ListedLast'
    BY <2>1, <2>2, <2>3 DEF FlowInv, ListedLast, OneSaver, Progress
  <2>9. StoredAnswer'
    BY <2>1, <2>2, <2>3, <2>4 DEF FlowInv, StoredAnswer
  <2>10. Landed'
    BY <2>1, <2>2, <2>3, <2>4, <2>5 DEF FlowInv, TypeOK, Landed, OneSaver
  <2> QED
    BY <1>t, <2>6, <2>7, <2>8, <2>9, <2>10 DEF FlowInv
<1> QED
  BY <1>1, <1>2, <1>3, <1>4 DEF Next

LEMMA Invariance == Spec => []FlowInv
  BY InvInit, InvStep, PTL DEF Spec

\* The variables of a turn and of its saves keep their types
\* (_streaming_chat_flow, _save_stream_history).
THEOREM FlowTypes == Spec => []TypeOK
<1>1. FlowInv => TypeOK
  BY DEF FlowInv
<1> QED
  BY <1>1, Invariance, PTL

LEMMA AtMostOneAnswer ==
  ASSUME NEW t, row = << >> \/ row = <<t>>
  PROVE  StoredOnce
<1>1. Len(<< >>) = 0 /\ Len(<<t>>) = 1
  OBVIOUS
<1> DEFINE n == Len(row)
<1>2. n = 0 \/ n = 1
  BY <1>1, Zenon
<1> HIDE DEF n
<1>3. n <= 1
  BY <1>2
<1> QED
  BY <1>3 DEF StoredOnce, n

LEMMA FlowStoresOnce == FlowInv => StoredOnce
<1> SUFFICES ASSUME FlowInv PROVE StoredOnce
  OBVIOUS
<1>1. row = << >> \/ row = <<content>> \/ row = <<Pieces>>
  BY DEF FlowInv, StoredAnswer
<1> QED
  BY <1>1, AtMostOneAnswer

\* However many of the two saves run, one answer is stored for the question
\* (_streaming.py:479 and 510, dependencies.py:511).
THEOREM AnswerStoredOnce == Spec => []StoredOnce
  BY FlowStoresOnce, Invariance, PTL

\* [DONE] of a search answer comes after its answer is stored whole
\* (_streaming.py:476-494).
THEOREM DoneComesAfterSave == Spec => []DoneIsStored
<1>1. FlowInv => DoneIsStored
  BY DEF FlowInv, Landed, DoneIsStored
<1> QED
  BY <1>1, Invariance, PTL

\* Unless it is cancelled, the flow ends with what it collected stored
\* (the finally block, _streaming.py:496-524).
THEOREM EndStoresCollected == Spec => []CollectedIsStored
<1>1. FlowInv => CollectedIsStored
  BY DEF FlowInv, Landed, CollectedIsStored
<1> QED
  BY <1>1, Invariance, PTL

LEMMA FlowStoresShown == FlowInv => ShownIsStored
  BY Singletons DEF FlowInv, TypeOK, Landed, Progress, ShownIsStored

\* A reader that leaves at a yield saw at most one piece that is not stored
\* (_streaming.py:442-449).
THEOREM EndStoresShown == Spec => []ShownIsStored
  BY FlowStoresShown, Invariance, PTL

\* The save of the finally block never shortens what an earlier save stored
\* (_streaming.py:510-519).
THEOREM SavesNeverShorten == Spec => NeverShortened
<1>1. FlowInv /\ [Next]_vars
        => [row # << >> => row' # << >> /\ row'[Len(row')] >= row[Len(row)]]_vars
  <2> SUFFICES ASSUME FlowInv, [Next]_vars, row # << >>
               PROVE  row' # << >> /\ row'[Len(row')] >= row[Len(row)]
    OBVIOUS
  <2>1. row' = row
    <3>1. CASE Commit
      <4>1. mem = << >> /\ row = <<job.text>>
        BY <3>1 DEF Commit, FlowInv, OneSaver, StoredAnswer
      <4> QED
        BY <3>1, <4>1, FirstAnswer DEF Commit, FlowInv
    <3>2. CASE ~Commit
      BY <3>2 DEF Next, Answering, Ending, AskBack, AskedBack, AnswerDirectly,
         ResultIsText, ResultIsStream, Fail, Raise, YieldPiece, CollectPiece,
         SendPiece, YieldDocuments, PreSave, PreSaved, SendDone, Resume,
         CsvWritten, FinalSaved, Execute, Close, Cancel, saveVars, vars
    <3> QED
      BY <3>1, <3>2
  <2>2. row \in Seq(Texts) /\ row[Len(row)] \in Nat
    BY EmptySeq, LenProperties, ElementOfSeq, StreamAssumption
       DEF FlowInv, TypeOK, Texts
  <2> QED
    BY <2>1, <2>2
<1> QED
  BY <1>1, Invariance, PTL DEF Spec, NeverShortened

-----------------------------------------------------------------------------
(* The drain of the statuses (StatusDrain) implements StatusOrder.          *)

\* The first n entries of the queue are the messages emitted next after those
\* that were shown.
InFlight(n) == \A i \in 1 .. n : queue[i] = emitted[Len(shown) + i]

\* While the generator is open, the queue holds exactly what is emitted and
\* not yet shown, in order, and then the sentinel if the watcher has put it,
\* which it does only when the task has ended.
Backlog ==
    \/ /\ watcher = "waiting"
       /\ Len(queue) = Len(emitted) - Len(shown)
       /\ InFlight(Len(queue))
    \/ /\ watcher = "done"
       /\ task # "running"
       /\ Len(queue) = Len(emitted) - Len(shown) + 1
       /\ InFlight(Len(queue) - 1)
       /\ queue[Len(queue)] = Sentinel

DrainInv ==
    /\ DrainTypeOK
    /\ Len(shown) <= Len(emitted)
    /\ \A i \in 1 .. Len(shown) : shown[i] = emitted[i]
    /\ consumer \in {"get", "yield"} => Backlog

LEMMA Lengths ==
  ASSUME DrainTypeOK
  PROVE  /\ Len(emitted) \in Nat /\ Len(shown) \in Nat /\ Len(queue) \in Nat
         /\ \A i \in 1 .. Len(emitted) : emitted[i] \in Statuses
  BY LenProperties, ElementOfSeq DEF DrainTypeOK

LEMMA SingletonTail ==
  ASSUME DrainTypeOK, Len(queue) = 1
  PROVE  Tail(queue) = <<>>
<1> DEFINE S == Statuses \cup {Sentinel}
<1>1. queue \in Seq(S)
  BY DEF DrainTypeOK
<1> HIDE DEF S
<1>2. queue # <<>>
  BY EmptySeq
<1>3. Tail(queue) \in Seq(S) /\ Len(Tail(queue)) = 0
  BY <1>1, <1>2, HeadTailProperties
<1> QED
  BY <1>3, EmptySeq

LEMMA DrainInvInit == DrainInit => DrainInv
<1> SUFFICES ASSUME DrainInit PROVE DrainInv
  OBVIOUS
<1>1. /\ emitted \in Seq(Statuses) /\ shown \in Seq(Statuses)
      /\ queue \in Seq(Statuses \cup {Sentinel})
      /\ Len(emitted) = 0 /\ Len(shown) = 0 /\ Len(queue) = 0
  BY EmptySeq DEF DrainInit
<1> QED
  BY <1>1 DEF DrainInit, DrainInv, DrainTypeOK, Backlog, InFlight

\* A message at the head of the queue is the next one to show.
LEMMA NextMessage ==
  ASSUME DrainInv, consumer = "get", queue # <<>>, Head(queue) # Sentinel
  PROVE  /\ Len(shown) < Len(emitted)
         /\ Head(queue) = emitted[Len(shown) + 1]
<1> USE DEF DrainInv
<1>1. /\ Len(queue) \in Nat \ {0}
      /\ Head(queue) = queue[1]
  BY EmptySeq, HeadTailProperties DEF DrainTypeOK
<1>2. Len(emitted) \in Nat /\ Len(shown) \in Nat
  BY Lengths
<1>3. CASE watcher = "waiting"
  <2>1. Len(queue) = Len(emitted) - Len(shown) /\ InFlight(Len(queue))
    BY <1>3 DEF Backlog
  <2> QED BY <1>1, <1>2, <2>1 DEF InFlight
<1>4. CASE watcher = "done"
  <2>1. /\ Len(queue) = Len(emitted) - Len(shown) + 1
        /\ InFlight(Len(queue) - 1)
        /\ queue[Len(queue)] = Sentinel
    BY <1>4 DEF Backlog
  <2>2. Len(queue) # 1
    BY <1>1, <2>1
  <2> QED BY <1>1, <1>2, <2>1, <2>2 DEF InFlight
<1> QED BY <1>3, <1>4 DEF Backlog

\* The sentinel is at the head only when everything was shown.
LEMMA SentinelLast ==
  ASSUME DrainInv, consumer = "get", queue # <<>>, Head(queue) = Sentinel
  PROVE  /\ Len(queue) = 1
         /\ task # "running"
         /\ shown = emitted
<1> USE DEF DrainInv
<1>1. /\ Len(queue) \in Nat \ {0}
      /\ queue[1] = Sentinel
  BY EmptySeq, HeadTailProperties DEF DrainTypeOK
<1>2. \A i \in 1 .. Len(emitted) : emitted[i] # Sentinel
  BY Lengths, DrainAssumption
<1>3. Len(shown) + 1 \in 1 .. Len(emitted) => emitted[Len(shown) + 1] # Sentinel
  BY <1>2
<1>4. CASE watcher = "waiting"
  BY <1>1, <1>3, <1>4, Lengths DEF Backlog, InFlight
<1>5. CASE watcher = "done"
  <2>1. Len(queue) = 1
    <3>1. /\ Len(queue) = Len(emitted) - Len(shown) + 1
          /\ InFlight(Len(queue) - 1)
      BY <1>5 DEF Backlog
    <3>2. Len(emitted) \in Nat /\ Len(shown) \in Nat
      BY Lengths
    <3>3. Len(queue) > 1 =>
             Len(shown) + 1 \in 1 .. Len(emitted) /\ queue[1] = emitted[Len(shown) + 1]
      BY <1>1, <3>1, <3>2 DEF InFlight
    <3>4. ~(Len(queue) > 1)
      BY <1>1, <1>3, <3>3
    <3> DEFINE n == Len(queue)
    <3>5. n \in Nat \ {0} /\ ~(n > 1)
      BY <1>1, <3>4
    <3> HIDE DEF n
    <3>6. n = 1
      BY <3>5
    <3> QED BY <3>6 DEF n
  <2>2. Len(shown) = Len(emitted) /\ task # "running"
    BY <1>5, <2>1, Lengths DEF Backlog
  <2>3. shown = emitted
    BY <2>2, SeqEqual DEF DrainTypeOK
  <2> QED BY <2>1, <2>2, <2>3
<1> QED BY <1>4, <1>5 DEF Backlog

LEMMA DrainInvStep == DrainInv /\ [DrainNext]_drainVars => DrainInv'
<1> SUFFICES ASSUME DrainInv, [DrainNext]_drainVars
             PROVE  DrainInv'
  OBVIOUS
<1> USE DEF DrainInv
<1>0. /\ Len(emitted) \in Nat /\ Len(shown) \in Nat /\ Len(queue) \in Nat
  BY Lengths
<1>1. ASSUME NEW m \in Statuses, Emit(m)
      PROVE  DrainInv'
  <2>1. /\ emitted' \in Seq(Statuses)
        /\ Len(emitted') = Len(emitted) + 1
        /\ \A i \in 1 .. Len(emitted) : emitted'[i] = emitted[i]
        /\ emitted'[Len(emitted) + 1] = m
    BY <1>1, AppendProperties DEF Emit, DrainTypeOK
  <2>2. /\ queue' \in Seq(Statuses \cup {Sentinel})
        /\ Len(queue') = Len(queue) + 1
        /\ \A i \in 1 .. Len(queue) : queue'[i] = queue[i]
        /\ queue'[Len(queue) + 1] = m
    BY <1>1, AppendProperties DEF Emit, DrainTypeOK
  <2>3. UNCHANGED <<task, shown, consumer, watcher>> /\ task = "running"
    BY <1>1 DEF Emit
  <2>4. DrainTypeOK'
    BY <2>1, <2>2, <2>3 DEF DrainTypeOK
  <2>5. ASSUME consumer \in {"get", "yield"}
        PROVE  Backlog'
    <3>1. /\ watcher = "waiting"
          /\ Len(queue) = Len(emitted) - Len(shown)
          /\ \A i \in 1 .. Len(queue) : queue[i] = emitted[Len(shown) + i]
      BY <2>3, <2>5 DEF Backlog, InFlight
    <3>2. \A i \in 1 .. Len(queue) + 1 : queue'[i] = emitted'[Len(shown) + i]
      BY <1>0, <2>1, <2>2, <3>1
    <3> QED BY <1>0, <2>1, <2>2, <2>3, <3>1, <3>2 DEF Backlog, InFlight
  <2> QED
    BY <1>0, <2>1, <2>3, <2>4, <2>5
<1>2. ASSUME NEW o \in {"returned", "raised"}, EndTask(o)
      PROVE  DrainInv'
  BY <1>2 DEF EndTask, DrainTypeOK, Backlog, InFlight
<1>3. CASE Watch
  <2>1. /\ queue' \in Seq(Statuses \cup {Sentinel})
        /\ Len(queue') = Len(queue) + 1
        /\ \A i \in 1 .. Len(queue) : queue'[i] = queue[i]
        /\ queue'[Len(queue) + 1] = Sentinel
    BY <1>3, AppendProperties DEF Watch, DrainTypeOK
  <2>2. UNCHANGED <<emitted, task, shown, consumer>> /\ watcher' = "done"
    BY <1>3 DEF Watch
  <2>3. DrainTypeOK'
    BY <2>1, <2>2 DEF DrainTypeOK
  <2>4. ASSUME consumer \in {"get", "yield"}
        PROVE  Backlog'
    <3>1. /\ watcher = "waiting"
          /\ Len(queue) = Len(emitted) - Len(shown)
          /\ \A i \in 1 .. Len(queue) : queue[i] = emitted[Len(shown) + i]
      BY <1>3, <2>4 DEF Watch, Backlog, InFlight
    <3>2. task # "running"
      BY <1>3, <3>1 DEF Watch, ShieldOver
    <3>3. Len(queue') - 1 = Len(queue) /\ queue'[Len(queue')] = Sentinel
      BY <1>0, <2>1
    <3> QED BY <1>0, <2>1, <2>2, <3>1, <3>2, <3>3 DEF Backlog, InFlight
  <2> QED BY <2>2, <2>3, <2>4
<1>4. CASE GetMessage
  <2>1. /\ Len(shown) < Len(emitted)
        /\ Head(queue) = emitted[Len(shown) + 1]
        /\ Head(queue) \in Statuses
    BY <1>0, <1>4, NextMessage, Lengths DEF GetMessage, Ready, IsMessage
  <2>2. /\ queue' \in Seq(Statuses \cup {Sentinel})
        /\ Len(queue') = Len(queue) - 1
        /\ \A i \in 1 .. Len(queue) - 1 : queue'[i] = queue[i + 1]
        /\ Len(queue) >= 1
    BY <1>4, EmptySeq, HeadTailProperties DEF GetMessage, Ready, IsMessage, DrainTypeOK
  <2>3. /\ shown' \in Seq(Statuses)
        /\ Len(shown') = Len(shown) + 1
        /\ \A i \in 1 .. Len(shown) : shown'[i] = shown[i]
        /\ shown'[Len(shown) + 1] = Head(queue)
    BY <1>4, <2>1, AppendProperties DEF GetMessage, DrainTypeOK
  <2>4. /\ UNCHANGED <<emitted, task, watcher>>
        /\ consumer = "get" /\ consumer' = "yield"
    BY <1>4 DEF GetMessage
  <2>5. DrainTypeOK'
    BY <2>2, <2>3, <2>4 DEF DrainTypeOK
  <2>6. watcher = "done" => Len(queue) > 1
    BY <1>0, <2>1, <2>2, <2>4 DEF Backlog
  <2>7. ASSUME watcher = "waiting"
        PROVE  Backlog'
    <3>1. /\ Len(queue) = Len(emitted) - Len(shown)
          /\ \A i \in 1 .. Len(queue) : queue[i] = emitted[Len(shown) + i]
      BY <2>4, <2>7 DEF Backlog, InFlight
    <3>2. Len(queue') = Len(emitted') - Len(shown')
      BY <1>0, <2>2, <2>3, <2>4, <3>1
    <3>3. \A i \in 1 .. Len(queue') : queue'[i] = emitted'[Len(shown') + i]
      BY <1>0, <2>2, <2>3, <2>4, <3>1
    <3> QED BY <2>4, <2>7, <3>2, <3>3 DEF Backlog, InFlight
  <2>8. ASSUME watcher = "done"
        PROVE  Backlog'
    <3>1. /\ task # "running"
          /\ Len(queue) = Len(emitted) - Len(shown) + 1
          /\ \A i \in 1 .. Len(queue) - 1 : queue[i] = emitted[Len(shown) + i]
          /\ queue[Len(queue)] = Sentinel
      BY <2>4, <2>8 DEF Backlog, InFlight
    <3>2. Len(queue') = Len(emitted') - Len(shown') + 1
      BY <1>0, <2>2, <2>3, <2>4, <3>1
    <3>3. \A i \in 1 .. Len(queue') - 1 : queue'[i] = emitted'[Len(shown') + i]
      BY <1>0, <2>2, <2>3, <2>4, <3>1
    <3>4. queue'[Len(queue')] = Sentinel
      BY <1>0, <2>2, <2>6, <2>8, <3>1
    <3> QED BY <2>4, <2>8, <3>1, <3>2, <3>3, <3>4 DEF Backlog, InFlight
  <2>9. Backlog'
    BY <2>4, <2>7, <2>8 DEF Backlog
  <2> QED
    BY <1>0, <2>1, <2>3, <2>4, <2>5, <2>9
<1>5. CASE GetSentinel
  <2>1. Len(queue) = 1
    BY <1>5, SentinelLast DEF GetSentinel, Ready, IsMessage
  <2>2. Tail(queue) = <<>>
    BY <2>1, SingletonTail
  <2>3. shown' = shown
    BY <1>5, <2>2, ConcatEmptySeq DEF GetSentinel, DrainTypeOK
  <2> QED
    BY <1>5, <2>3, EmptySeq DEF GetSentinel, DrainTypeOK
<1>6. CASE ResumeDrain
  BY <1>6 DEF ResumeDrain, DrainTypeOK, Backlog, InFlight
<1>7. CASE GoAway
  BY <1>7 DEF GoAway, Cancelled, DrainTypeOK
<1>8. CASE Closed
  BY <1>8 DEF Closed, DrainTypeOK
<1>9. CASE UNCHANGED drainVars
  BY <1>9 DEF drainVars, DrainTypeOK, Backlog, InFlight
<1> QED
  BY <1>1, <1>2, <1>3, <1>4, <1>5, <1>6, <1>7, <1>8, <1>9 DEF DrainNext

\* Every variable keeps its type: the sentinel never reaches the reader.
THEOREM DrainTypes == DrainSpec => []DrainTypeOK
<1>1. DrainInv => DrainTypeOK
  BY DEF DrainInv
<1> QED BY <1>1, DrainInvInit, DrainInvStep, PTL DEF DrainSpec

\* When the generator reaches the sentinel, all messages were shown and the
\* loop after it has nothing to do.
THEOREM NothingIsLeft == DrainSpec => []NothingLeft
<1>1. DrainInv => NothingLeft
  BY SentinelLast DEF NothingLeft, Ready
<1> QED BY <1>1, DrainInvInit, DrainInvStep, PTL DEF DrainSpec

\* The drain implements its abstract specification.
THEOREM DrainKeepsOrder == DrainSpec => KeepsOrder
<1>1. DrainInit => Order!Init
  BY DEF DrainInit, Order!Init, Phase
<1>2. DrainInv /\ [DrainNext]_drainVars => [Order!Next]_Order!vars
  <2> SUFFICES ASSUME DrainInv, [DrainNext]_drainVars
               PROVE  [Order!Next]_Order!vars
    OBVIOUS
  <2>1. ASSUME NEW m \in Statuses, Emit(m)
        PROVE  Order!Emit(m)
    BY <2>1 DEF Emit, Order!Emit, Phase
  <2>2. ASSUME NEW o \in {"returned", "raised"}, EndTask(o)
        PROVE  Order!EndTask(o)
    BY <2>2 DEF EndTask, Order!EndTask, Phase
  <2>3. ASSUME GetMessage
        PROVE  Order!Show
    <3>1. Len(shown) < Len(emitted) /\ Head(queue) = emitted[Len(shown) + 1]
      BY <2>3, NextMessage DEF GetMessage, Ready, IsMessage
    <3> QED BY <2>3, <3>1 DEF GetMessage, Order!Show, Phase
  <2>4. ASSUME GetSentinel
        PROVE  Order!Complete
    <3>1. Len(queue) = 1 /\ task # "running" /\ shown = emitted
      BY <2>4, SentinelLast DEF GetSentinel, Ready, IsMessage
    <3>2. Tail(queue) = <<>>
      BY <3>1, SingletonTail DEF DrainInv
    <3>3. shown' = shown
      BY <2>4, <3>2, ConcatEmptySeq DEF GetSentinel, DrainInv, DrainTypeOK
    <3> QED BY <2>4, <3>1, <3>3 DEF GetSentinel, Order!Complete, Phase
  <2>5. ASSUME GoAway
        PROVE  Order!Abort
    BY <2>5 DEF GoAway, Order!Abort, Phase
  <2>6. ASSUME Watch \/ ResumeDrain \/ Closed \/ UNCHANGED drainVars
        PROVE  UNCHANGED Order!vars
    BY <2>6 DEF Watch, ResumeDrain, Closed, drainVars, Phase, Order!vars
  <2> QED
    BY <2>1, <2>2, <2>3, <2>4, <2>5, <2>6 DEF DrainNext, Order!Next
<1> QED
  BY <1>1, <1>2, DrainInvInit, DrainInvStep, PTL
     DEF DrainSpec, KeepsOrder, Order!Spec

-----------------------------------------------------------------------------
(* The turn: the chat's flow or the guide's, beside the search and the drain.*)

\* The guide has no finally block: where it is in its answer says what its one
\* save has done.
GuideWhere ==
    /\ pc \in {"head", "reply", "stream", "docs", "saving", "apology", "done", "ended"}
    /\ pc = "head" => path = "open" /\ content = 0 /\ sent = 0
    /\ pc = "stream" => path = "stream" /\ sent = content
    /\ pc = "reply" => path = "text" /\ content = Pieces
    /\ pc \in {"docs", "saving"} => path \in SearchPaths /\ content = Pieces
    /\ pc = "apology" => path = "failed"

\* The one save of the guide: of the whole answer, and after it only the end.
GuideSaver ==
    /\ mem = << >> /\ job.by = "turn"
    /\ thread # "off" => pc \in {"saving", "ended"} /\ row = << >>
    /\ pc = "saving" => job.text = Pieces
    /\ row = << >> \/ row = <<job.text>>
    /\ pc \notin {"saving", "done", "ended"} => row = << >>

\* A save that is over has stored the answer; [DONE] comes after it.
GuideLanded ==
    /\ pc = "saving" /\ thread = "off" /\ writeErrors = 0 => row = <<Pieces>>
    /\ doneSent => pc \in {"done", "ended"} /\ thread = "off"
    /\ doneSent /\ path \in SearchPaths /\ writeErrors = 0 => row = <<Pieces>>

GuideInv == TypeOK /\ GuideWhere /\ GuideSaver /\ GuideLanded

TurnInv ==
    /\ kind \in {"chat", "guide"} /\ searching \in BOOLEAN
    /\ DrainInv
    /\ kind = "chat" => FlowInv
    /\ kind = "guide" => GuideInv
\* Whatever the turn does, the drain does one of its own steps, or nothing.
LEMMA TurnDrains == TurnNext \/ UNCHANGED turnVars => [DrainNext]_drainVars
<1> SUFFICES ASSUME TurnNext \/ UNCHANGED turnVars PROVE [DrainNext]_drainVars
  OBVIOUS
<1>1. CASE StartSearch \/ ChatStep \/ GuideStep \/ PoolStep \/ UNCHANGED turnVars
  BY <1>1 DEF StartSearch, ChatStep, GuideStep, PoolStep, turnVars
<1>2. CASE TaskStep \/ WatcherStep \/ DrainStep
  BY <1>2 DEF TaskStep, WatcherStep, DrainStep, DrainNext
<1>3. CASE CloseDrain \/ CancelDrain \/ DrainClosed \/ ChatCancelled \/ GuideCancelled
  BY <1>3 DEF CloseDrain, CancelDrain, DrainClosed, ChatCancelled, GuideCancelled, DrainNext
<1> QED
  BY <1>1, <1>2, <1>3 DEF TurnNext

\* A chat turn does one of the flow's steps, or nothing, beside its search.
LEMMA ChatFlows ==
  ASSUME kind = "chat", TurnNext \/ UNCHANGED turnVars
  PROVE  [Next]_vars
<1>1. CASE StartSearch \/ TaskStep \/ WatcherStep \/ DrainStep \/ UNCHANGED turnVars
  BY <1>1 DEF StartSearch, TaskStep, WatcherStep, DrainStep, Elsewhere, turnVars,
     streamVars, vars
<1>2. CASE CloseDrain \/ CancelDrain \/ DrainClosed
  BY <1>2 DEF CloseDrain, CancelDrain, DrainClosed, Elsewhere, streamVars, vars
<1>3. CASE ChatStep
  BY <1>3 DEF ChatStep, Next, Answering
<1>4. CASE ChatCancelled \/ PoolStep
  BY <1>4 DEF ChatCancelled, PoolStep, Next
<1>5. CASE GuideStep \/ GuideCancelled
  BY <1>5 DEF GuideStep, GuideCancelled
<1> QED
  BY <1>1, <1>2, <1>3, <1>4, <1>5 DEF TurnNext
LEMMA GuideInvInit == Init => GuideInv
<1>1. Init => TypeOK
  BY InvInit DEF FlowInv
<1>2. Init => GuideWhere /\ GuideSaver /\ GuideLanded
  BY DEF Init, GuideWhere, GuideSaver, GuideLanded, SearchPaths
<1> QED
  BY <1>1, <1>2 DEF GuideInv

\* The guide's own steps.
LEMMA GuideStepKeeps == GuideInv /\ GuideStep => GuideInv'
<1> SUFFICES ASSUME GuideInv, GuideStep PROVE GuideInv'
  OBVIOUS
<1> USE StreamAssumption DEF Texts, SearchPaths, Paths, flowVars, saveVars
<1> USE DEF GuideStep, GuideText, GuideStream, GuideFailed, ResultIsText, ResultIsStream,
        Fail, GuidePiece, SendPiece, GuideBroken, YieldDocuments, GuideSave, GuideDone,
        GuideEnded, GuideLeft, Submit
<1>1. TypeOK'
  <2> USE TypeParts DEF GuideInv
  <2>1. Points'
    BY DEF Points
  <2>2. Counts'
    BY DEF Counts, ReplyText, Collected, GuideWhere
  <2>3. JobType'
    BY DEF JobType, Counts
  <2>4. /\ doneSent' = TRUE \/ doneSent' = doneSent
        /\ UNCHANGED <<saved, mem, row, writeErrors>>
    OBVIOUS
  <2>5. Flags'
    BY <2>4, Zenon DEF Flags
  <2>6. Answers'
    BY <2>4, TypeParts DEF Answers
  <2> QED
    BY <2>1, <2>2, <2>3, <2>5, <2>6, TypePartsNext, Zenon
<1>2. content \in Nat /\ sent \in Nat
  BY DEF GuideInv, TypeOK
<1>3. GuideWhere'
  BY <1>2 DEF GuideInv, GuideWhere, AnswerComplete, ReplyText, Collected
<1>4. GuideSaver'
  <2>1. CASE GuideSave
    <3>1. row = << >> /\ content = Pieces
      BY <1>2, <2>1 DEF GuideInv, GuideWhere, GuideSaver, AnswerComplete
    <3> QED
      BY <2>1, <3>1 DEF GuideInv, GuideSaver
  <2>2. CASE ~GuideSave
    <3>1. /\ UNCHANGED <<mem, row, job>>
          /\ pc' = "saving" => pc = "saving"
          /\ pc \in {"saving", "done", "ended"} => pc' \in {"saving", "done", "ended"}
          /\ thread' # "off" => thread # "off" /\ pc' \in {"saving", "ended"}
      BY <2>2 DEF GuideInv, GuideSaver, SaveOver, AnswerComplete
    <3> QED
      BY <2>2, <3>1 DEF GuideInv, GuideSaver
  <2> QED
    BY <2>1, <2>2
<1>5. GuideLanded'
  BY <1>2 DEF GuideInv, GuideWhere, GuideSaver, GuideLanded, AnswerComplete, MustStore, SaveOver
<1> QED
  BY <1>1, <1>3, <1>4, <1>5 DEF GuideInv

\* The pool thread stores the answer that the guide has submitted, or fails.
LEMMA GuidePoolKeeps == GuideInv /\ PoolStep => GuideInv'
<1> SUFFICES ASSUME GuideInv, PoolStep PROVE GuideInv'
  OBVIOUS
<1>1. CASE Execute
  <2>1. /\ UNCHANGED <<doneSent, saved, content, sent, job, mem, row, writeErrors>>
        /\ UNCHANGED <<pc, path, left>> /\ thread = "queued" /\ thread' = "running"
    BY <1>1 DEF Execute, flowVars, saveVars
  <2>2. Points'
    BY <2>1, TypeParts DEF GuideInv, Points
  <2>3. TypeOK'
    BY <2>1, <2>2, TypeParts, PartsKept, TypePartsNext DEF GuideInv
  <2>4. GuideWhere' /\ GuideSaver' /\ GuideLanded'
    BY <2>1 DEF GuideInv, GuideWhere, GuideSaver, GuideLanded
  <2> QED
    BY <2>3, <2>4 DEF GuideInv
<1>2. CASE Commit
  <2>1. /\ mem = << >> /\ job.by = "turn" /\ job.text \in Texts
        /\ pc \in {"saving", "ended"} /\ row = << >>
    BY <1>2, TypeParts DEF Commit, GuideInv, GuideSaver, JobType
  <2>2. mem' = << >>
    BY <1>2, <2>1 DEF Commit, Messages
  <2>3. \/ row' = <<job.text>> /\ writeErrors' = writeErrors
        \/ row' = << >> /\ writeErrors' = writeErrors + 1 /\ writeErrors < MaxWriteErrors
    BY <1>2, <2>1, <2>2 DEF Commit, Stored
  <2>4. /\ UNCHANGED <<pc, path, content, sent, doneSent, saved, left, job>>
        /\ thread = "running" /\ thread' = "off"
    BY <1>2 DEF Commit, flowVars
  <2>5. /\ writeErrors \in 0 .. MaxWriteErrors /\ writeErrors' \in 0 .. MaxWriteErrors
        /\ writeErrors' = 0 => row' = <<job.text>>
    BY <2>3, TypeParts, StreamAssumption DEF GuideInv, Answers
  <2>6. Points'
    BY <2>4, TypeParts DEF GuideInv, Points
  <2>7. Answers'
    BY <2>1, <2>2, <2>3, <2>5, Singletons, EmptySeq DEF Answers
  <2>8. TypeOK'
    BY <2>4, <2>6, <2>7, TypeParts, PartsKept, TypePartsNext DEF GuideInv
  <2>9. GuideWhere'
    BY <2>4 DEF GuideInv, GuideWhere
  <2>10. GuideSaver'
    BY <2>1, <2>2, <2>3, <2>4 DEF GuideInv, GuideSaver
  <2>11. GuideLanded'
    BY <2>1, <2>3, <2>4, <2>5 DEF GuideInv, GuideSaver, GuideLanded
  <2> QED
    BY <2>8, <2>9, <2>10, <2>11 DEF GuideInv
<1> QED
  BY <1>1, <1>2 DEF PoolStep

LEMMA GuideKeeps ==
  ASSUME GuideInv, kind = "guide", TurnNext \/ UNCHANGED turnVars
  PROVE  GuideInv'
<1>1. CASE GuideStep
  BY <1>1, GuideStepKeeps
<1>2. CASE PoolStep
  BY <1>2, GuidePoolKeeps
<1>3. CASE UNCHANGED streamVars
  <2>1. /\ UNCHANGED <<doneSent, saved, content, sent, job, mem, row, writeErrors>>
        /\ UNCHANGED <<pc, path, left, thread>>
    BY <1>3 DEF streamVars, flowVars, saveVars
  <2>2. Points'
    BY <2>1, TypeParts DEF GuideInv, Points
  <2>3. TypeOK'
    BY <2>1, <2>2, TypeParts, PartsKept, TypePartsNext DEF GuideInv
  <2>4. GuideWhere' /\ GuideSaver' /\ GuideLanded'
    BY <2>1 DEF GuideInv, GuideWhere, GuideSaver, GuideLanded
  <2> QED
    BY <2>3, <2>4 DEF GuideInv
<1>4. CASE GuideCancelled
  <2>1. /\ UNCHANGED <<doneSent, saved, content, sent, job, mem, row, writeErrors>>
        /\ UNCHANGED <<path, thread>>
        /\ pc = "head" /\ pc' = "ended" /\ left' = "cancelled"
    BY <1>4 DEF GuideCancelled, saveVars
  <2>2. Points'
    BY <2>1, TypeParts DEF GuideInv, Points
  <2>3. TypeOK'
    BY <2>1, <2>2, TypeParts, PartsKept, TypePartsNext DEF GuideInv
  <2>4. GuideWhere' /\ GuideSaver' /\ GuideLanded'
    BY <2>1 DEF GuideInv, GuideWhere, GuideSaver, GuideLanded, SearchPaths
  <2> QED
    BY <2>3, <2>4 DEF GuideInv
<1>5. StartSearch \/ TaskStep \/ WatcherStep \/ DrainStep \/ CloseDrain \/ CancelDrain
        \/ DrainClosed \/ UNCHANGED turnVars => UNCHANGED streamVars
  BY DEF StartSearch, TaskStep, WatcherStep, DrainStep, CloseDrain, CancelDrain,
     DrainClosed, Elsewhere, turnVars
<1>6. ~ChatStep /\ ~ChatCancelled
  BY DEF ChatStep, ChatCancelled
<1> QED
  BY <1>1, <1>2, <1>3, <1>4, <1>5, <1>6 DEF TurnNext

LEMMA TurnInvInit == TurnInit => TurnInv
  BY InvInit, GuideInvInit, DrainInvInit DEF TurnInit, TurnInv

LEMMA TurnInvStep == TurnInv /\ [TurnNext]_turnVars => TurnInv'
<1> SUFFICES ASSUME TurnInv, [TurnNext]_turnVars PROVE TurnInv'
  OBVIOUS
<1>1. kind' = kind /\ (searching' = searching \/ searching' = TRUE)
  BY DEF TurnNext, StartSearch, TaskStep, WatcherStep, DrainStep, PoolStep, ChatStep,
     GuideStep, CloseDrain, CancelDrain, DrainClosed, ChatCancelled, GuideCancelled,
     Elsewhere, turnVars
<1>2. kind' \in {"chat", "guide"} /\ searching' \in BOOLEAN
  BY <1>1, Zenon DEF TurnInv
<1>3. DrainInv'
  BY TurnDrains, DrainInvStep DEF TurnInv
<1>4. kind' = "chat" => FlowInv'
  BY <1>1, ChatFlows, InvStep DEF TurnInv
<1>5. kind' = "guide" => GuideInv'
  BY <1>1, GuideKeeps DEF TurnInv
<1> QED
  BY <1>2, <1>3, <1>4, <1>5 DEF TurnInv

LEMMA TurnInvariance == TurnSpec => []TurnInv
  BY TurnInvInit, TurnInvStep, PTL DEF TurnSpec

\* All variables of a turn keep their types, for both generators.
THEOREM TurnTypes == TurnSpec => []TurnTypeOK
<1>1. TurnInv => TurnTypeOK
  <2> SUFFICES ASSUME TurnInv PROVE TurnTypeOK
    OBVIOUS
  <2>1. DrainTypeOK
    BY DEF TurnInv, DrainInv
  <2>2. TypeOK
    BY DEF TurnInv, FlowInv, GuideInv
  <2> QED
    BY <2>1, <2>2, Zenon DEF TurnInv, TurnTypeOK
<1> QED
  BY <1>1, TurnInvariance, PTL

\* Beside a search that may outlive the turn, whichever generator runs and
\* wherever its reader leaves, one answer is stored for the question
\* (_streaming.py:479 and 510, _helpers.py:374).
THEOREM TurnStoresOnce == TurnSpec => []StoredOnce
<1>1. TurnInv => StoredOnce
  <2> SUFFICES ASSUME TurnInv PROVE StoredOnce
    OBVIOUS
  <2>1. CASE kind = "chat"
    BY <2>1, FlowStoresOnce DEF TurnInv
  <2>2. CASE kind = "guide"
    <3>1. row = << >> \/ row = <<job.text>>
      BY <2>2 DEF TurnInv, GuideInv, GuideSaver
    <3> QED
      BY <3>1, AtMostOneAnswer
  <2> QED
    BY <2>1, <2>2 DEF TurnInv
<1> QED
  BY <1>1, TurnInvariance, PTL

\* [DONE] of a search answer or of the guide's comes after its answer is stored
\* whole (_streaming.py:476-494, _helpers.py:374-404).
THEOREM TurnDoneIsStored == TurnSpec => []DoneIsStored
<1>1. TurnInv => DoneIsStored
  BY DEF TurnInv, FlowInv, Landed, GuideInv, GuideLanded, DoneIsStored
<1> QED
  BY <1>1, TurnInvariance, PTL

\* A chat reader that leaves at a yield saw at most one piece that is not
\* stored (_streaming.py:442-449).
THEOREM TurnStoresShown == TurnSpec => []ChatShownIsStored
<1>1. TurnInv => ChatShownIsStored
  BY FlowStoresShown DEF TurnInv, ChatShownIsStored
<1> QED
  BY <1>1, TurnInvariance, PTL

\* What the turn does with its drain is what the drain alone allows: it implements
\* StatusDrain, and so StatusOrder (_streaming.py:364-418, _helpers.py:334-350).
THEOREM TurnDrainsInOrder == TurnSpec => DrainSpec /\ KeepsOrder
<1>1. TurnInit => DrainInit
  BY DEF TurnInit
<1>2. [TurnNext]_turnVars => [DrainNext]_drainVars
  BY TurnDrains
<1>3. TurnSpec => DrainSpec
  BY <1>1, <1>2, PTL DEF TurnSpec, DrainSpec
<1> QED
  BY <1>3, DrainKeepsOrder, PTL

\* A turn of the chat implements the chat's flow, so that what is proved of the
\* flow alone holds of it (_streaming_chat_flow).
THEOREM ChatTurnIsFlow == TurnSpec /\ [](kind = "chat") => Spec
<1>1. TurnInit => Init
  BY DEF TurnInit
<1>2. kind = "chat" /\ [TurnNext]_turnVars => [Next]_vars
  BY ChatFlows
<1> QED
  BY <1>1, <1>2, PTL DEF TurnSpec, Spec
=============================================================================
