--------------------------- MODULE AnsweringProofs ---------------------------
(***************************************************************************)
(* What the bot says, for any messages, replies, files and edits: no       *)
(* amount leaves it, a customer who bargains becomes a lead, a history is  *)
(* the longest recent one the limits allow, the chunks of the index fit,   *)
(* and a forced run of the ingestion leaves the index as the folder is.    *)
(* What the folds compute (chunks, histories) is shown by induction over   *)
(* positions, as the absence of a least counterexample.                    *)
(***************************************************************************)
EXTENDS Answering, FiniteSetTheorems, SequenceTheorems, WellFoundedInduction, TLAPS

-----------------------------------------------------------------------------
(***************************************************************************)
(* The inductive invariant of the index.                                   *)
(***************************************************************************)

IndexIsTyped ==
  /\ folder = [s \in Sources |-> folder[s]]
  /\ document = [s \in Sources |-> document[s]]
  /\ run \in [at : {"idle", "file", "read", "embed", "done"}, force : BOOLEAN, prune : BOOLEAN,
              todo : Seq(Sources), listed : SUBSET Sources, hash : {run.hash},
              pages : {run.pages}, result : {run.result}, quiet : BOOLEAN]
  /\ run.result = [s \in Sources |-> run.result[s]]

\* The index has of a file what can be read of it, or nothing if it is unfinished.
IsCurrent(s) ==
  IF is_unfilled(read_pages(folder[s]))
  THEN ~ document[s].stored
  ELSE document[s].stored /\ document[s].pages = read_pages(folder[s])

Settled(s) == run.result[s] = "failed" \/ IsCurrent(s)
Awaits(s) == \E i \in 1 .. Len(run.todo) : run.todo[i] = s

\* A forced run of a folder nobody edits: every file is still to do or settled,
\* and what is about to be indexed is what the file holds.
RunIsOnCourse ==
  /\ run.at \in {"read", "embed"} => run.todo # <<>>
  /\ run.quiet /\ run.force =>
       /\ run.at # "idle" => run.listed = Present
       /\ run.at \in {"file", "read", "embed"} => \A s \in Present : Awaits(s) \/ Settled(s)
       /\ run.at = "embed" => /\ run.pages = read_pages(folder[Head(run.todo)])
                              /\ ~ is_unfilled(run.pages)
       /\ run.at = "done" => /\ \A s \in Present : Settled(s)
                             /\ run.prune => \A s \in Sources \ Present : ~ document[s].stored

IndexInvariant == IndexIsTyped /\ RunIsOnCourse

-----------------------------------------------------------------------------
(***************************************************************************)
(* The steps of staff and script.                                          *)
(***************************************************************************)

\* The list of a run has every file that is there.
LEMMA EveryFileListed ==
  ASSUME IndexIsTyped
  PROVE  /\ SetToSeq(Present) \in Seq(Sources)
         /\ \A s \in Present : \E i \in 1 .. Len(SetToSeq(Present)) : SetToSeq(Present)[i] = s
<1>1. PICK P : P = Present
  OBVIOUS
<1>2. P \subseteq Sources /\ IsFiniteSet(P)
  BY <1>1, KnowledgeAssumption, FS_Subset DEF Present
<1>3. PICK n \in Nat : n = Cardinality(P)
  BY <1>2, FS_CardinalityType
<1>4. \E f \in [1 .. n -> P] : IsInjective(f)
  BY <1>2, <1>3, FS_CardinalityType DEF ExistsBijection, Bijection, Injection
<1>5. SetToSeq(P) = CHOOSE f \in [1 .. n -> P] : IsInjective(f)
  BY <1>3 DEF SetToSeq
<1>6. SetToSeq(P) \in [1 .. n -> P] /\ IsInjective(SetToSeq(P))
  BY <1>4, <1>5
<1>7. SetToSeq(P) \in Injection(1 .. n, P)
  BY <1>6 DEF Injection
<1>8. IsFiniteSet(1 .. n) /\ Cardinality(1 .. n) = n
  BY FS_Interval
<1>9. SetToSeq(P) \in Surjection(1 .. n, P)
  BY <1>2, <1>3, <1>7, <1>8, FS_Injection
<1>10. \A s \in P : \E i \in 1 .. n : SetToSeq(P)[i] = s
  BY <1>9 DEF Surjection
<1>11. SetToSeq(P) \in Seq(Sources) /\ Len(SetToSeq(P)) = n
  BY <1>2, <1>6
<1> QED
  BY <1>1, <1>10, <1>11

\* The files of a list that is not empty: its head and those of its tail.
LEMMA HeadAndTail ==
  ASSUME NEW q \in Seq(Sources), q # <<>>
  PROVE  /\ Head(q) \in Sources /\ Tail(q) \in Seq(Sources)
         /\ \A s : (\E i \in 1 .. Len(q) : q[i] = s)
                     => s = Head(q) \/ \E i \in 1 .. Len(Tail(q)) : Tail(q)[i] = s
<1>1. /\ Head(q) = q[1] /\ Head(q) \in Sources /\ Tail(q) \in Seq(Sources)
      /\ Len(q) \in Nat /\ Len(Tail(q)) = Len(q) - 1
      /\ \A i \in 1 .. Len(Tail(q)) : Tail(q)[i] = q[i + 1]
  OBVIOUS
<1>2. ASSUME NEW s, NEW i \in 1 .. Len(q), q[i] = s, s # Head(q)
      PROVE  \E k \in 1 .. Len(Tail(q)) : Tail(q)[k] = s
  <2>1. i - 1 \in 1 .. Len(Tail(q)) /\ Tail(q)[i - 1] = q[i]
    BY <1>1, <1>2
  <2> QED
    BY <1>2, <2>1
<1> QED
  BY <1>1, <1>2

\* A file is done with: it failed, or the index is now what the file is.
LEMMA ReportStep ==
  ASSUME IndexInvariant, NEW result, Report(result), run.todo # <<>>, folder' = folder,
         NEW h, h = Head(run.todo),
         run.at \in {"file", "read", "embed"},
         document' = [s \in Sources |-> document'[s]],
         \A s \in Sources \ {h} : document'[s] = document[s],
         result = "failed" \/ (run.quiet /\ run.force => IsCurrent(h)')
  PROVE  IndexInvariant'
<1>1. /\ run \in [at : {"idle", "file", "read", "embed", "done"}, force : BOOLEAN,
                  prune : BOOLEAN, todo : Seq(Sources), listed : SUBSET Sources,
                  hash : {run.hash}, pages : {run.pages}, result : {run.result},
                  quiet : BOOLEAN]
      /\ run.result = [s \in Sources |-> run.result[s]]
  BY DEF IndexInvariant, IndexIsTyped
<1>2. run.todo \in Seq(Sources)
  BY <1>1
<1>3. /\ h \in Sources /\ Tail(run.todo) \in Seq(Sources)
      /\ \A s \in Sources : Awaits(s) => s = h \/ \E i \in 1 .. Len(Tail(run.todo)) : Tail(run.todo)[i] = s
  BY <1>2, HeadAndTail DEF Awaits
<1>4. PICK r : r = [run.result EXCEPT ![h] = result]
  OBVIOUS
<1>5. r = [s \in Sources |-> r[s]] /\ r[h] = result
      /\ \A s \in Sources \ {h} : r[s] = run.result[s]
  BY <1>1, <1>3, <1>4
<1>6. run' = [run EXCEPT !.at = "file", !.todo = Tail(run.todo), !.result = r]
  BY <1>1, <1>4 DEF Report
<1>7. /\ run'.at = "file" /\ run'.force = run.force /\ run'.prune = run.prune
      /\ run'.todo = Tail(run.todo) /\ run'.listed = run.listed /\ run'.quiet = run.quiet
      /\ run'.result = r
      /\ run' \in [at : {"idle", "file", "read", "embed", "done"}, force : BOOLEAN,
                   prune : BOOLEAN, todo : Seq(Sources), listed : SUBSET Sources,
                   hash : {run'.hash}, pages : {run'.pages}, result : {r}, quiet : BOOLEAN]
  BY <1>1, <1>3, <1>6
<1>8. IndexIsTyped'
  BY <1>5, <1>7 DEF IndexInvariant, IndexIsTyped
<1>9. Present' = Present
  BY DEF Present
<1>10. ASSUME run.quiet, run.force, NEW s \in Present PROVE (Awaits(s) \/ Settled(s))'
  <2>1. s \in Sources
    BY DEF Present
  <2>2. CASE s = h
    BY <1>5, <1>7, <1>10, <2>2 DEF Settled
  <2>3. CASE s # h
    <3>1. Awaits(s) \/ Settled(s)
      BY <1>10 DEF IndexInvariant, RunIsOnCourse
    <3>2. CASE Awaits(s)
      BY <1>3, <1>7, <2>1, <2>3, <3>2 DEF Awaits
    <3>3. CASE Settled(s)
      BY <1>5, <1>7, <2>1, <2>3, <3>3 DEF Settled, IsCurrent
    <3> QED
      BY <3>1, <3>2, <3>3
  <2> QED
    BY <2>2, <2>3
<1>11. RunIsOnCourse'
  BY <1>7, <1>9, <1>10 DEF IndexInvariant, RunIsOnCourse
<1> QED
  BY <1>8, <1>11 DEF IndexInvariant

\* The tables may be left alone when a file is done with.
LEMMA ReportOnly ==
  ASSUME IndexInvariant, NEW result, Report(result), run.todo # <<>>,
         run.at \in {"file", "read", "embed"}, UNCHANGED <<folder, document>>,
         result = "failed" \/ ~ run.force
  PROVE  IndexInvariant'
<1>1. PICK h : h = Head(run.todo)
  OBVIOUS
<1>2. document' = [s \in Sources |-> document'[s]]
  BY DEF IndexInvariant, IndexIsTyped
<1> QED
  BY <1>1, <1>2, ReportStep

LEMMA NextIndexStep ==
  ASSUME IndexInvariant, NextIndex
  PROVE  IndexInvariant'
<1>1. /\ run \in [at : {"idle", "file", "read", "embed", "done"}, force : BOOLEAN,
                  prune : BOOLEAN, todo : Seq(Sources), listed : SUBSET Sources,
                  hash : {run.hash}, pages : {run.pages}, result : {run.result},
                  quiet : BOOLEAN]
      /\ run.result = [s \in Sources |-> run.result[s]]
      /\ folder = [s \in Sources |-> folder[s]] /\ document = [s \in Sources |-> document[s]]
      /\ IndexIsTyped /\ RunIsOnCourse
  BY DEF IndexInvariant, IndexIsTyped
<1>2. ASSUME NEW s \in Sources, NEW content \in Contents \cup {NoFile}, Edit(s, content)
      PROVE  IndexInvariant'
  <2>1. /\ folder' = [folder EXCEPT ![s] = content] /\ document' = document
        /\ run' = [run EXCEPT !.quiet = FALSE]
    BY <1>2 DEF Edit
  <2>2. /\ run'.quiet = FALSE /\ run'.at = run.at /\ run'.todo = run.todo
        /\ run'.result = run.result
        /\ run' \in [at : {"idle", "file", "read", "embed", "done"}, force : BOOLEAN,
                     prune : BOOLEAN, todo : Seq(Sources), listed : SUBSET Sources,
                     hash : {run'.hash}, pages : {run'.pages}, result : {run.result},
                     quiet : BOOLEAN]
    BY <1>1, <2>1
  <2>3. folder' = [t \in Sources |-> folder'[t]]
    BY <1>1, <2>1
  <2>4. IndexIsTyped'
    BY <1>1, <2>1, <2>2, <2>3 DEF IndexIsTyped
  <2>5. RunIsOnCourse'
    BY <1>1, <2>2 DEF RunIsOnCourse
  <2> QED
    BY <2>4, <2>5 DEF IndexInvariant
<1>3. ASSUME NEW force \in BOOLEAN, NEW prune \in BOOLEAN, StartRun(force, prune)
      PROVE  IndexInvariant'
  <2>1. PICK todo \in Seq(Sources) : /\ todo = SetToSeq(Present)
                                     /\ \A s \in Present : \E i \in 1 .. Len(todo) : todo[i] = s
    BY <1>1, EveryFileListed
  <2>2. PICK P \in SUBSET Sources : P = Present
    BY DEF Present
  <2>3. /\ UNCHANGED <<folder, document>>
        /\ run' = [NotRunning EXCEPT !.at = "file", !.force = force, !.prune = prune,
                                     !.todo = todo, !.listed = P, !.quiet = TRUE]
    BY <1>3, <2>1, <2>2 DEF StartRun
  <2>4. /\ run'.at = "file" /\ run'.todo = todo /\ run'.listed = P
        /\ run'.result = [s \in Sources |-> "none"]
    BY <2>3 DEF NotRunning
  <2>5. run' \in [at : {"file"}, force : {force}, prune : {prune}, todo : {todo}, listed : {P},
                  hash : {run'.hash}, pages : {run'.pages}, result : {run'.result},
                  quiet : {TRUE}]
    BY <2>3 DEF NotRunning
  <2>6. run' \in [at : {"idle", "file", "read", "embed", "done"}, force : BOOLEAN,
                  prune : BOOLEAN, todo : Seq(Sources), listed : SUBSET Sources,
                  hash : {run'.hash}, pages : {run'.pages}, result : {run'.result},
                  quiet : BOOLEAN]
    BY <2>1, <2>2, <2>5
  <2>7. run'.result = [s \in Sources |-> run'.result[s]]
    BY <2>4
  <2>8. IndexIsTyped'
    BY <1>1, <2>3, <2>6, <2>7 DEF IndexIsTyped
  <2>9. Present' = Present
    BY <2>3 DEF Present
  <2>10. RunIsOnCourse'
    BY <2>1, <2>2, <2>4, <2>9 DEF RunIsOnCourse, Awaits
  <2> QED
    BY <2>8, <2>10 DEF IndexInvariant
<1>4. CASE HashFile
  <2>1. run.at = "file" /\ run.todo # <<>> /\ UNCHANGED <<folder, document>>
    BY <1>4 DEF HashFile
  <2>2. CASE ~ run.force /\ Report("unchanged")
    BY <2>1, <2>2, ReportOnly DEF IndexInvariant
  <2>3. CASE run' = [run EXCEPT !.at = "read", !.hash = folder[Head(run.todo)]]
    <3>1. /\ run'.at = "read" /\ run'.todo = run.todo /\ run'.result = run.result
          /\ run'.listed = run.listed /\ run'.quiet = run.quiet /\ run'.force = run.force
          /\ run' \in [at : {"idle", "file", "read", "embed", "done"}, force : BOOLEAN,
                       prune : BOOLEAN, todo : Seq(Sources), listed : SUBSET Sources,
                       hash : {run'.hash}, pages : {run'.pages}, result : {run.result},
                       quiet : BOOLEAN]
      BY <1>1, <2>3
    <3>2. IndexIsTyped'
      BY <1>1, <2>1, <3>1 DEF IndexIsTyped
    <3>3. Present' = Present /\ \A s \in Present : s \in Sources
      BY <2>1 DEF Present
    <3>4. \A s \in Present : (Awaits(s) => Awaits(s)') /\ (Settled(s) => Settled(s)')
      BY <2>1, <3>1, <3>3 DEF Awaits, Settled, IsCurrent
    <3>5. run.quiet /\ run.force =>
            run.listed = Present /\ \A s \in Present : Awaits(s) \/ Settled(s)
      BY <1>1, <2>1 DEF RunIsOnCourse
    <3>6. run'.quiet /\ run'.force =>
            run'.listed = Present' /\ \A s \in Present' : Awaits(s)' \/ Settled(s)'
      BY <3>1, <3>3, <3>4, <3>5
    <3>7. RunIsOnCourse'
      BY <2>1, <3>1, <3>6 DEF RunIsOnCourse
    <3> QED
      BY <3>2, <3>7 DEF IndexInvariant
  <2> QED
    BY <1>4, <2>2, <2>3 DEF HashFile
<1>5. CASE ReadFile
  <2>1. PICK h : h = Head(run.todo)
    OBVIOUS
  <2>2. run.at = "read" /\ run.todo # <<>> /\ folder' = folder /\ h \in Sources
    BY <1>1, <1>5, <2>1, HeadAndTail DEF ReadFile, RunIsOnCourse
  <2>3. PICK pages : pages = read_pages(folder[h])
    OBVIOUS
  <2>4. \/ Report("failed") /\ UNCHANGED document
        \/ is_unfilled(pages) /\ document' = [document EXCEPT ![h] = NoDocument]
           /\ Report("skipped")
        \/ ~ is_unfilled(pages) /\ run' = [run EXCEPT !.at = "embed", !.pages = pages]
           /\ UNCHANGED document
    BY <1>5, <2>1, <2>3 DEF ReadFile
  <2>5. CASE Report("failed") /\ UNCHANGED document
    BY <2>2, <2>5, ReportOnly
  <2>6. CASE is_unfilled(pages) /\ document' = [document EXCEPT ![h] = NoDocument]
             /\ Report("skipped")
    <3>1. /\ document' = [s \in Sources |-> document'[s]]
          /\ \A s \in Sources \ {h} : document'[s] = document[s]
          /\ document'[h] = NoDocument
      BY <1>1, <2>2, <2>6
    <3>2. NoDocument.stored = FALSE
      BY DEF NoDocument
    <3>3. IsCurrent(h)'
      BY <2>2, <2>3, <2>6, <3>1, <3>2 DEF IsCurrent
    <3> QED
      BY <2>1, <2>2, <2>6, <3>1, <3>3, ReportStep
  <2>7. CASE ~ is_unfilled(pages) /\ run' = [run EXCEPT !.at = "embed", !.pages = pages]
             /\ UNCHANGED document
    <3>1. /\ run'.at = "embed" /\ run'.todo = run.todo /\ run'.result = run.result
          /\ run'.listed = run.listed /\ run'.quiet = run.quiet /\ run'.force = run.force
          /\ run'.pages = pages
          /\ run' \in [at : {"idle", "file", "read", "embed", "done"}, force : BOOLEAN,
                       prune : BOOLEAN, todo : Seq(Sources), listed : SUBSET Sources,
                       hash : {run'.hash}, pages : {run'.pages}, result : {run.result},
                       quiet : BOOLEAN]
      BY <1>1, <2>7
    <3>2. IndexIsTyped'
      BY <1>1, <2>2, <2>7, <3>1 DEF IndexIsTyped
    <3>3. Present' = Present /\ \A s \in Present : s \in Sources
      BY <2>2 DEF Present
    <3>4. \A s \in Present : (Awaits(s) => Awaits(s)') /\ (Settled(s) => Settled(s)')
      BY <2>2, <2>7, <3>1, <3>3 DEF Awaits, Settled, IsCurrent
    <3>5. run'.pages = read_pages(folder'[Head(run'.todo)]) /\ ~ is_unfilled(run'.pages)
      BY <2>1, <2>2, <2>3, <2>7, <3>1
    <3>6. run.quiet /\ run.force =>
            run.listed = Present /\ \A s \in Present : Awaits(s) \/ Settled(s)
      BY <1>1, <2>2 DEF RunIsOnCourse
    <3>7. run'.quiet /\ run'.force =>
            run'.listed = Present' /\ \A s \in Present' : Awaits(s)' \/ Settled(s)'
      BY <3>1, <3>3, <3>4, <3>6
    <3>8. RunIsOnCourse'
      BY <2>2, <3>1, <3>5, <3>7 DEF RunIsOnCourse
    <3> QED
      BY <3>2, <3>8 DEF IndexInvariant
  <2> QED
    BY <2>4, <2>5, <2>6, <2>7
<1>6. CASE FileGone
  <2>1. run.at \in {"file", "read", "embed"} /\ run.todo # <<>> /\ Report("failed")
        /\ UNCHANGED <<folder, document>>
    BY <1>6 DEF FileGone
  <2> QED
    BY <2>1, ReportOnly
<1>7. CASE IndexFails
  <2>1. run.at = "embed" /\ run.todo # <<>> /\ Report("failed")
        /\ UNCHANGED <<folder, document>>
    BY <1>1, <1>7 DEF IndexFails, RunIsOnCourse
  <2> QED
    BY <2>1, ReportOnly
<1>8. CASE IndexFile
  <2>1. PICK h : h = Head(run.todo)
    OBVIOUS
  <2>2. run.at = "embed" /\ run.todo # <<>> /\ folder' = folder /\ h \in Sources
        /\ Report("indexed")
    BY <1>1, <1>8, <2>1, HeadAndTail DEF IndexFile, RunIsOnCourse
  <2>3. document' = [document EXCEPT ![h] = [stored |-> TRUE, hash |-> run.hash,
                                             pages |-> run.pages, chunks |-> Chunks(run.pages)]]
    BY <1>8, <2>1 DEF IndexFile
  <2>4. /\ document' = [s \in Sources |-> document'[s]]
        /\ \A s \in Sources \ {h} : document'[s] = document[s]
        /\ document'[h].stored = TRUE /\ document'[h].pages = run.pages
    BY <1>1, <2>2, <2>3
  <2>5. run.quiet /\ run.force => run.pages = read_pages(folder[h]) /\ ~ is_unfilled(run.pages)
    BY <1>1, <2>1, <2>2 DEF RunIsOnCourse
  <2>6. run.quiet /\ run.force => IsCurrent(h)'
    BY <2>2, <2>4, <2>5 DEF IsCurrent
  <2> QED
    BY <2>1, <2>2, <2>4, <2>6, ReportStep
<1>9. CASE EndRun
  <2>1. /\ run.at = "file" /\ run.todo = <<>> /\ folder' = folder
        /\ document' = IF run.prune
                       THEN [s \in Sources |-> IF s \in run.listed THEN document[s]
                                               ELSE NoDocument]
                       ELSE document
        /\ run' = [run EXCEPT !.at = "done"]
    BY <1>9 DEF EndRun
  <2>2. /\ run'.at = "done" /\ run'.result = run.result /\ run'.prune = run.prune
        /\ run'.listed = run.listed /\ run'.quiet = run.quiet /\ run'.force = run.force
        /\ run' \in [at : {"idle", "file", "read", "embed", "done"}, force : BOOLEAN,
                     prune : BOOLEAN, todo : Seq(Sources), listed : SUBSET Sources,
                     hash : {run'.hash}, pages : {run'.pages}, result : {run.result},
                     quiet : BOOLEAN]
    BY <1>1, <2>1
  <2>3. document' = [s \in Sources |-> document'[s]]
    BY <1>1, <2>1
  <2>4. IndexIsTyped'
    BY <1>1, <2>1, <2>2, <2>3 DEF IndexIsTyped
  <2>5. Present' = Present
    BY <2>1 DEF Present
  <2>6. ASSUME run.quiet, run.force
        PROVE  /\ run.listed = Present
               /\ \A s \in Present : Settled(s)'
               /\ run.prune => \A s \in Sources \ Present : ~ document'[s].stored
    <3>1. run.listed = Present /\ \A s \in Present : Settled(s)
      BY <1>1, <2>1, <2>6 DEF RunIsOnCourse, Awaits
    <3>2. \A s \in Present : s \in Sources /\ document'[s] = document[s]
      BY <2>1, <3>1 DEF Present
    <3>3. NoDocument.stored = FALSE
      BY DEF NoDocument
    <3> QED
      BY <2>1, <2>2, <3>1, <3>2, <3>3 DEF Settled, IsCurrent
  <2>7. RunIsOnCourse'
    BY <2>2, <2>5, <2>6 DEF RunIsOnCourse
  <2> QED
    BY <2>4, <2>7 DEF IndexInvariant
<1> QED
  BY <1>2, <1>3, <1>4, <1>5, <1>6, <1>7, <1>8, <1>9 DEF NextIndex

-----------------------------------------------------------------------------
(***************************************************************************)
(* The inductive invariant of the turns.                                   *)
(***************************************************************************)

\* What a row, a completion or a cache entry may hold.
Texts ==
  {NoText, Fixed} \cup Replies \cup OperatorTexts
    \cup {input.text : input \in UNION {InputsOf[m] : m \in Messages}}
Modes == {"bot", "human"}
RowType == [from : Messages \cup {"bot", "operator"}, text : Texts]
Stages == {"route", "prepare", "lookup", "generate", "check", "fixed", "done", "lost"}

TurnType(m) ==
  [at : Stages, conv : Nat, input : InputsOf[m], mode : Modes, first : BOOLEAN, reply : Texts,
   history : {turn[m].history}, prompt : {turn[m].prompt}]

ConvIsTyped ==
  conv \in [id : Nat, mode : Modes, tag : {"none", "sales_lead"}, welcomed : BOOLEAN,
            rows : Seq(RowType)]

\* The property HaggledIsALead of one turn.
LeadIfHaggled(m) ==
  turn[m].at \in {"prepare", "lookup", "generate", "check", "fixed", "done"} /\ turn[m].mode = "bot"
    /\ is_negotiating(turn[m].input.text) =>
    /\ turn[m].at \notin {"prepare", "lookup", "generate", "check"}
    /\ Alive(m) => conv.tag = "sales_lead"

\* A turn belongs to the conversation as it was loaded, this one or an earlier one.
TurnIsSound(m) ==
  \/ turn[m] = NoTurn
  \/ turn[m] \in TurnType(m) /\ turn[m].conv <= conv.id /\ LeadIfHaggled(m)

TurnInvariant ==
  /\ ConvIsTyped
  /\ turn = [m \in Messages |-> turn[m]]
  /\ \A m \in Messages : TurnIsSound(m)
  /\ cache \in [Messages -> Texts]
  /\ NoAmountFromBot

-----------------------------------------------------------------------------
(***************************************************************************)
(* Texts.                                                                  *)
(***************************************************************************)

\* The bot's own copy names no amount, and what replaces a reply that names one
\* is such copy.
LEMMA CopyIsClean ==
  /\ ~ mentions_amount(Fixed, TRUE) /\ ~ mentions_amount(deflection, TRUE)
  /\ Fixed \in Texts /\ NoText \in Texts /\ deflection \in Texts
BY DEF mentions_amount, Fixed, deflection, Texts

\* An input's text may be in a row.
LEMMA InputText ==
  ASSUME NEW m \in Messages, NEW input \in InputsOf[m]
  PROVE  input.text \in Texts
BY DEF Texts

\* A message whose text is not read has none.
LEMMA AllIsRead ==
  ASSUME NEW m \in Messages, NEW input \in InputsOf[m]
  PROVE  Reads(input) = input.text
BY AnsweringAssumption DEF Reads

\* A row more at the end of the conversation.
LEMMA AppendRow ==
  ASSUME ConvIsTyped, NoAmountFromBot,
         NEW from \in Messages \cup {"bot", "operator"}, NEW text \in Texts,
         from = "bot" => ~ mentions_amount(text, TRUE)
  PROVE  LET rows == Append(conv.rows, [from |-> from, text |-> text])
         IN  /\ rows \in Seq(RowType)
             /\ \A i \in DOMAIN rows :
                  rows[i].from = "bot" => ~ mentions_amount(rows[i].text, TRUE)
<1>1. PICK q \in Seq(RowType) : q = conv.rows
  BY DEF ConvIsTyped
<1>2. PICK r \in RowType : r = [from |-> from, text |-> text]
  BY DEF RowType
<1>3. r.from = from /\ r.text = text
  BY <1>2
<1>4. Append(q, r) \in Seq(RowType) /\ DOMAIN Append(q, r) = 1 .. Len(q) + 1
      /\ DOMAIN q = 1 .. Len(q) /\ Len(q) \in Nat
  OBVIOUS
<1>5. \A i \in 1 .. Len(q) : Append(q, r)[i] = q[i]
  OBVIOUS
<1>6. Append(q, r)[Len(q) + 1] = r
  OBVIOUS
<1>7. \A i \in DOMAIN q : q[i].from = "bot" => ~ mentions_amount(q[i].text, TRUE)
  BY <1>1 DEF NoAmountFromBot
<1>8. ASSUME NEW i \in DOMAIN Append(q, r), Append(q, r)[i].from = "bot"
      PROVE  ~ mentions_amount(Append(q, r)[i].text, TRUE)
  <2>1. CASE i \in 1 .. Len(q)
    BY <1>4, <1>5, <1>7, <1>8, <2>1
  <2>2. CASE i = Len(q) + 1
    BY <1>3, <1>6, <1>8, <2>2
  <2>3. i \in 1 .. Len(q) \/ i = Len(q) + 1
    BY <1>4
  <2> QED
    BY <2>1, <2>2, <2>3
<1> QED
  BY <1>1, <1>2, <1>4, <1>8

-----------------------------------------------------------------------------
(***************************************************************************)
(* What a step of one turn has to keep.                                    *)
(***************************************************************************)

\* Nobody else's turn is touched, and the conversation stays as it is or moves on.
LEMMA OthersSound ==
  ASSUME TurnInvariant, NEW k \in Messages, turn'[k] = turn[k], ConvIsTyped',
         \/ conv'.id = conv.id /\ (conv.tag = "sales_lead" => conv'.tag = "sales_lead")
         \/ conv'.id = conv.id + 1
  PROVE  TurnIsSound(k)'
<1>1. TurnIsSound(k) /\ conv.id \in Nat
  BY DEF TurnInvariant, ConvIsTyped
<1>2. CASE turn[k] = NoTurn
  BY <1>2 DEF TurnIsSound, NoTurn
<1>3. CASE turn[k] # NoTurn
  <2>1. turn[k] \in TurnType(k) /\ turn[k].conv <= conv.id /\ LeadIfHaggled(k)
    BY <1>1, <1>3 DEF TurnIsSound
  <2>2. turn[k].conv \in Nat
    BY <2>1 DEF TurnType
  <2>3. turn'[k] \in TurnType(k)'
    BY <2>1 DEF TurnType
  <2>4. turn'[k].conv <= conv'.id
    BY <1>1, <2>1, <2>2
  <2>5. turn'[k].conv = conv'.id => conv'.id = conv.id /\ turn[k].conv = conv.id
    BY <1>1, <2>1, <2>2
  <2>6. LeadIfHaggled(k)'
    BY <1>1, <2>1, <2>5 DEF LeadIfHaggled, Alive
  <2> QED
    BY <2>3, <2>4, <2>6 DEF TurnIsSound
<1> QED
  BY <1>2, <1>3

\* A step of the turn of m.
LEMMA TurnKept ==
  ASSUME TurnInvariant, NEW m \in Messages,
         turn' = [k \in Messages |-> IF k = m THEN turn'[m] ELSE turn[k]],
         ConvIsTyped', cache' \in [Messages -> Texts], NoAmountFromBot',
         conv'.id = conv.id, conv.tag = "sales_lead" => conv'.tag = "sales_lead",
         turn'[m] \in TurnType(m)', turn'[m].conv <= conv.id, LeadIfHaggled(m)'
  PROVE  TurnInvariant'
<1>1. TurnIsSound(m)'
  BY DEF TurnIsSound
<1>2. \A k \in Messages \ {m} : TurnIsSound(k)'
  BY OthersSound
<1>3. turn' = [k \in Messages |-> turn'[k]]
  OBVIOUS
<1> QED
  BY <1>1, <1>2, <1>3 DEF TurnInvariant

\* A busy turn has a record of a turn, of this conversation or an earlier one.
LEMMA BusyTurn ==
  ASSUME TurnInvariant, NEW m \in Messages, turn[m].at # "none"
  PROVE  /\ turn[m] \in TurnType(m) /\ turn[m].conv <= conv.id /\ LeadIfHaggled(m)
         /\ turn[m].input \in InputsOf[m] /\ turn[m].mode \in Modes /\ turn[m].conv \in Nat
         /\ turn[m].reply \in Texts
<1>1. turn[m] # NoTurn
  BY DEF NoTurn
<1>2. turn[m] \in TurnType(m) /\ turn[m].conv <= conv.id /\ LeadIfHaggled(m)
  BY <1>1 DEF TurnInvariant, TurnIsSound
<1> QED
  BY <1>2 DEF TurnType

\* The assignments by which a handler moves to another stage.
Moves(m, at, first, reply, h, p) ==
  \/ turn' = [turn EXCEPT ![m].at = at, ![m].first = first, ![m].reply = reply,
                          ![m].history = h, ![m].prompt = p]
  \/ turn' = [turn EXCEPT ![m].at = at, ![m].reply = reply, ![m].history = h, ![m].prompt = p]
  \/ turn' = [turn EXCEPT ![m].at = at, ![m].history = h, ![m].prompt = p]
  \/ turn' = [turn EXCEPT ![m].at = at, ![m].reply = reply]
  \/ turn' = [turn EXCEPT ![m].at = at, ![m].history = h]
  \/ turn' = [turn EXCEPT ![m].at = at, ![m].prompt = p]
  \/ turn' = [turn EXCEPT ![m].at = at, ![m].first = first]
  \/ turn' = [turn EXCEPT ![m].at = at]

\* They keep the rest of the record.
LEMMA MovedTurn ==
  ASSUME TurnInvariant, NEW m \in Messages, turn[m].at # "none", NEW at \in Stages,
         NEW first \in BOOLEAN, NEW reply \in Texts, NEW h, NEW p,
         Moves(m, at, first, reply, h, p)
  PROVE  /\ turn' = [k \in Messages |-> IF k = m THEN turn'[m] ELSE turn[k]]
         /\ turn'[m] \in TurnType(m)'
         /\ turn'[m].at = at /\ turn'[m].conv = turn[m].conv
         /\ turn'[m].input = turn[m].input /\ turn'[m].mode = turn[m].mode
         /\ turn'[m].conv <= conv.id
<1>1. turn[m] \in TurnType(m) /\ turn[m].conv <= conv.id
  BY BusyTurn
<1>2. turn = [k \in Messages |-> turn[k]]
  BY DEF TurnInvariant
<1>3. \/ turn'[m] = [turn[m] EXCEPT !.at = at, !.first = first, !.reply = reply,
                                    !.history = h, !.prompt = p]
      \/ turn'[m] = [turn[m] EXCEPT !.at = at, !.reply = reply, !.history = h, !.prompt = p]
      \/ turn'[m] = [turn[m] EXCEPT !.at = at, !.history = h, !.prompt = p]
      \/ turn'[m] = [turn[m] EXCEPT !.at = at, !.reply = reply]
      \/ turn'[m] = [turn[m] EXCEPT !.at = at, !.history = h]
      \/ turn'[m] = [turn[m] EXCEPT !.at = at, !.prompt = p]
      \/ turn'[m] = [turn[m] EXCEPT !.at = at, !.first = first]
      \/ turn'[m] = [turn[m] EXCEPT !.at = at]
  BY <1>2 DEF Moves
<1>4. turn' = [k \in Messages |-> IF k = m THEN turn'[m] ELSE turn[k]]
  BY <1>2 DEF Moves
<1>5. /\ turn'[m].at = at /\ turn'[m].conv = turn[m].conv
      /\ turn'[m].input = turn[m].input /\ turn'[m].mode = turn[m].mode
      /\ turn'[m] \in [at : Stages, conv : Nat, input : InputsOf[m], mode : Modes,
                       first : BOOLEAN, reply : Texts, history : {turn'[m].history},
                       prompt : {turn'[m].prompt}]
  BY <1>1, <1>3 DEF TurnType
<1> QED
  BY <1>1, <1>4, <1>5 DEF TurnType

-----------------------------------------------------------------------------
(***************************************************************************)
(* The steps of a turn.                                                    *)
(***************************************************************************)

\* A turn that moves on and leaves the conversation alone.
LEMMA QuietMove ==
  ASSUME TurnInvariant, NEW m \in Messages, turn[m].at # "none", NEW at \in Stages,
         NEW first \in BOOLEAN, NEW reply \in Texts, NEW h, NEW p,
         Moves(m, at, first, reply, h, p),
         conv' = conv, cache' \in [Messages -> Texts],
         \/ at = "lost"
         \/ turn[m].at = "fixed" /\ at = "done"
         \/ turn[m].at \in {"prepare", "lookup", "generate", "check"}
         \/ turn[m].mode = "human"
         \/ ~ is_negotiating(turn[m].input.text)
         \/ turn[m].at = "route" /\ at \in {"done", "fixed"} /\ ~ Alive(m)
  PROVE  TurnInvariant'
<1>1. /\ turn' = [k \in Messages |-> IF k = m THEN turn'[m] ELSE turn[k]]
      /\ turn'[m] \in TurnType(m)'
      /\ turn'[m].at = at /\ turn'[m].conv = turn[m].conv
      /\ turn'[m].input = turn[m].input /\ turn'[m].mode = turn[m].mode
      /\ turn'[m].conv <= conv.id
  BY MovedTurn
<1>2. LeadIfHaggled(m) /\ turn[m].at \in Stages
  <2>1. LeadIfHaggled(m) /\ turn[m] \in TurnType(m)
    BY BusyTurn
  <2> QED
    BY <2>1 DEF TurnType
<1>3. LeadIfHaggled(m)'
  BY <1>1, <1>2 DEF LeadIfHaggled, Alive, Stages
<1>4. ConvIsTyped' /\ NoAmountFromBot'
  BY DEF TurnInvariant, ConvIsTyped, NoAmountFromBot
<1> QED
  BY <1>1, <1>3, <1>4, TurnKept

\* The handler reads the message and hands the conversation over; if it bargains,
\* as a sales lead.
LEMMA HandOverStep ==
  ASSUME TurnInvariant, NEW m \in Messages, turn[m].at = "route",
         NEW tag \in {"none", "sales_lead"}, HandOver(m, tag), cache' = cache,
         tag = "sales_lead" \/ ~ is_negotiating(turn[m].input.text)
  PROVE  TurnInvariant'
<1>1. CASE ~ Alive(m)
  <2>1. /\ turn' = [turn EXCEPT ![m].at = "done", ![m].first = FALSE, ![m].reply = NoText,
                                ![m].history = <<>>, ![m].prompt = NoPrompt]
        /\ conv' = conv
    BY <1>1 DEF HandOver, Return
  <2>2. cache' \in [Messages -> Texts] /\ "done" \in Stages
        /\ Moves(m, "done", FALSE, NoText, <<>>, NoPrompt)
    BY <2>1 DEF TurnInvariant, Stages, Moves
  <2> QED
    BY <1>1, <2>1, <2>2, CopyIsClean, QuietMove
<1>2. CASE Alive(m)
  <2>1. /\ turn' = [turn EXCEPT ![m].at = "fixed", ![m].first = FALSE]
        /\ conv' = [conv EXCEPT !.mode = "human",
                                !.tag = IF tag = "none" THEN conv.tag ELSE tag]
    BY <1>2 DEF HandOver, SendCopy
  <2>2. "fixed" \in Stages /\ Moves(m, "fixed", FALSE, NoText, <<>>, NoPrompt)
    BY <2>1 DEF Stages, Moves
  <2>3. /\ turn' = [k \in Messages |-> IF k = m THEN turn'[m] ELSE turn[k]]
        /\ turn'[m] \in TurnType(m)'
        /\ turn'[m].at = "fixed" /\ turn'[m].conv = turn[m].conv
        /\ turn'[m].input = turn[m].input /\ turn'[m].mode = turn[m].mode
        /\ turn'[m].conv <= conv.id
    BY <2>2, CopyIsClean, MovedTurn
  <2>4. conv \in [id : Nat, mode : Modes, tag : {"none", "sales_lead"}, welcomed : BOOLEAN,
                  rows : Seq(RowType)]
    BY DEF TurnInvariant, ConvIsTyped
  <2>5. /\ conv' \in [id : Nat, mode : Modes, tag : {"none", "sales_lead"}, welcomed : BOOLEAN,
                      rows : Seq(RowType)]
        /\ conv'.id = conv.id /\ conv'.rows = conv.rows
        /\ conv'.tag = IF tag = "none" THEN conv.tag ELSE tag
    BY <2>1, <2>4 DEF Modes
  <2>6. ConvIsTyped' /\ NoAmountFromBot' /\ cache' \in [Messages -> Texts]
    BY <2>5 DEF TurnInvariant, ConvIsTyped, NoAmountFromBot
  <2>7. LeadIfHaggled(m)'
    BY <2>3, <2>5 DEF LeadIfHaggled
  <2> QED
    BY <2>3, <2>5, <2>6, <2>7, TurnKept
<1> QED
  BY <1>1, <1>2

\* A text of the bot without an amount is recorded, or nothing if the conversation
\* is gone, and the turn is over.
LEMMA SendStep ==
  ASSUME TurnInvariant, NEW m \in Messages, turn[m].at \in {"check", "fixed"},
         NEW text \in Texts, ~ mentions_amount(text, TRUE), NEW sent \in BOOLEAN,
         SendOnce(m, text, sent), cache' \in [Messages -> Texts]
  PROVE  TurnInvariant'
<1>1. Moves(m, "done", FALSE, NoText, <<>>, NoPrompt)
  BY DEF SendOnce, Return, Moves
<1>2. "done" \in Stages /\ turn[m].at # "none"
  BY DEF Stages
<1>3. CASE ~ Alive(m)
  <2>1. conv' = conv
    BY <1>3 DEF SendOnce
  <2> QED
    BY <1>1, <1>2, <2>1, CopyIsClean, QuietMove
<1>4. CASE Alive(m)
  <2>1. /\ turn' = [k \in Messages |-> IF k = m THEN turn'[m] ELSE turn[k]]
        /\ turn'[m] \in TurnType(m)'
        /\ turn'[m].at = "done" /\ turn'[m].conv = turn[m].conv
        /\ turn'[m].input = turn[m].input /\ turn'[m].mode = turn[m].mode
        /\ turn'[m].conv <= conv.id
    BY <1>1, <1>2, CopyIsClean, MovedTurn
  <2>2. PICK rows \in Seq(RowType) :
          /\ rows = Append(conv.rows, [from |-> "bot", text |-> text])
          /\ \A i \in DOMAIN rows : rows[i].from = "bot" => ~ mentions_amount(rows[i].text, TRUE)
    BY AppendRow DEF TurnInvariant
  <2>3. turn[m].first \in BOOLEAN /\ conv.welcomed \in BOOLEAN
    BY <1>2, BusyTurn DEF TurnType, TurnInvariant, ConvIsTyped
  <2>4. PICK w \in BOOLEAN : w = (conv.welcomed \/ (sent /\ turn[m].first))
    BY <2>3
  <2>5. conv' = [conv EXCEPT !.rows = rows, !.welcomed = w]
    BY <1>4, <2>2, <2>4 DEF SendOnce
  <2>6. conv \in [id : Nat, mode : Modes, tag : {"none", "sales_lead"}, welcomed : BOOLEAN,
                  rows : Seq(RowType)]
    BY DEF TurnInvariant, ConvIsTyped
  <2>7. /\ conv' \in [id : Nat, mode : Modes, tag : {"none", "sales_lead"}, welcomed : BOOLEAN,
                      rows : Seq(RowType)]
        /\ conv'.id = conv.id /\ conv'.rows = rows /\ conv'.tag = conv.tag
    BY <2>5, <2>6
  <2>8. ConvIsTyped' /\ NoAmountFromBot'
    BY <2>2, <2>7 DEF ConvIsTyped, NoAmountFromBot
  <2>9. LeadIfHaggled(m)'
    BY <1>2, <2>1, <2>7, BusyTurn DEF LeadIfHaggled, Alive
  <2> QED
    BY <2>1, <2>7, <2>8, <2>9, TurnKept
<1> QED
  BY <1>3, <1>4

\* A message is recorded and its handler starts from the conversation as it is.
LEMMA ReceiveStep ==
  ASSUME TurnInvariant, NEW m \in Messages, NEW input \in InputsOf[m], Receive(m, input)
  PROVE  TurnInvariant'
<1>1. /\ conv' = [conv EXCEPT !.rows = Append(conv.rows, [from |-> m, text |-> input.text])]
      /\ turn' = [turn EXCEPT ![m] =
                    [at |-> "route", conv |-> conv.id, input |-> input, mode |-> conv.mode,
                     first |-> ~ conv.welcomed, reply |-> NoText, history |-> <<>>,
                     prompt |-> NoPrompt]]
      /\ cache' = cache
  BY DEF Receive
<1>2. m # "bot"
  BY AnsweringAssumption
<1>3. PICK rows \in Seq(RowType) :
        /\ rows = Append(conv.rows, [from |-> m, text |-> input.text])
        /\ \A i \in DOMAIN rows : rows[i].from = "bot" => ~ mentions_amount(rows[i].text, TRUE)
  BY <1>2, AppendRow, InputText DEF TurnInvariant
<1>4. conv \in [id : Nat, mode : Modes, tag : {"none", "sales_lead"}, welcomed : BOOLEAN,
                rows : Seq(RowType)]
  BY DEF TurnInvariant, ConvIsTyped
<1>5. /\ conv' \in [id : Nat, mode : Modes, tag : {"none", "sales_lead"}, welcomed : BOOLEAN,
                    rows : Seq(RowType)]
      /\ conv'.id = conv.id /\ conv'.rows = rows /\ conv'.tag = conv.tag
  BY <1>1, <1>3, <1>4
<1>6. ConvIsTyped' /\ NoAmountFromBot' /\ cache' \in [Messages -> Texts]
  BY <1>1, <1>3, <1>5 DEF TurnInvariant, ConvIsTyped, NoAmountFromBot
<1>7. PICK b \in BOOLEAN : b = ~ conv.welcomed
  BY <1>4
<1>8. turn' = [k \in Messages |-> IF k = m THEN turn'[m] ELSE turn[k]]
      /\ turn'[m] = [at |-> "route", conv |-> conv.id, input |-> input, mode |-> conv.mode,
                     first |-> b, reply |-> NoText, history |-> <<>>, prompt |-> NoPrompt]
  BY <1>1, <1>7 DEF TurnInvariant
<1>9. turn'[m] \in TurnType(m)' /\ turn'[m].at = "route" /\ turn'[m].conv <= conv.id
  BY <1>4, <1>8, CopyIsClean DEF TurnType, Stages
<1>10. LeadIfHaggled(m)'
  BY <1>9 DEF LeadIfHaggled
<1> QED
  BY <1>5, <1>6, <1>8, <1>9, <1>10, TurnKept

\* Routing: a message that bargains goes to a person or, when its conversation is
\* gone or with a person already, nowhere.
LEMMA RouteStep ==
  ASSUME TurnInvariant, NEW m \in Messages,
         \/ LeaveToOperator(m) \/ BeginHandoff(m) \/ RefuseByQuota(m)
         \/ RouteText(m) \/ RouteSelection(m) \/ RouteMedia(m) \/ RouteUnsupported(m)
  PROVE  TurnInvariant'
<1>1. turn[m].at = "route" /\ cache' = cache
  BY DEF LeaveToOperator, BeginHandoff, RefuseByQuota, RouteText, RouteSelection, RouteMedia,
         RouteUnsupported, Routing
<1>2. turn[m].at # "none"
  BY <1>1
<1>3. Reads(turn[m].input) = turn[m].input.text /\ turn[m].first \in BOOLEAN
  BY <1>2, BusyTurn, AllIsRead DEF TurnType
<1>4. {"done", "fixed", "prepare"} \subseteq Stages /\ cache' \in [Messages -> Texts]
      /\ NoText \in Texts
  BY <1>1, CopyIsClean DEF Stages, TurnInvariant
<1>5. CASE LeaveToOperator(m)
  <2>1. /\ Moves(m, "done", FALSE, NoText, <<>>, NoPrompt)
        /\ conv' = conv /\ turn[m].mode = "human"
    BY <1>5 DEF LeaveToOperator, Return, Moves
  <2> QED
    BY <1>2, <1>4, <2>1, QuietMove
<1>6. CASE BeginHandoff(m)
  <2>1. \/ HandOver(m, "sales_lead")
        \/ /\ ~ is_negotiating(turn[m].input.text)
           /\ HandOver(m, IF is_sales_lead(turn[m].input.text) THEN "sales_lead" ELSE "none")
    BY <1>3, <1>6 DEF BeginHandoff
  <2>2. CASE HandOver(m, "sales_lead")
    BY <1>1, <2>2, HandOverStep
  <2>3. CASE ~ HandOver(m, "sales_lead")
    <3>1. ~ is_negotiating(turn[m].input.text) /\ HandOver(m, "none")
      BY <2>1, <2>3
    <3> QED
      BY <1>1, <3>1, HandOverStep
  <2> QED
    BY <2>2, <2>3
<1>7. ASSUME Unhanded(m) PROVE ~ is_negotiating(turn[m].input.text)
  BY <1>3, <1>7 DEF Unhanded
<1>8. ASSUME ~ is_negotiating(turn[m].input.text), conv' = conv, NEW first \in BOOLEAN,
             Return(m, "done") \/ SendCopy(m, first) \/ Goto(m, "prepare")
               \/ turn' = [turn EXCEPT ![m].at = "prepare", ![m].first = first]
      PROVE  TurnInvariant'
  <2>1. \/ Moves(m, "done", FALSE, NoText, <<>>, NoPrompt)
        \/ Moves(m, "fixed", first, NoText, <<>>, NoPrompt)
        \/ Moves(m, "prepare", first, NoText, <<>>, NoPrompt)
    BY <1>8 DEF Return, SendCopy, Goto, Moves
  <2>2. CASE Moves(m, "done", FALSE, NoText, <<>>, NoPrompt)
    BY <1>2, <1>4, <1>8, <2>2, QuietMove
  <2>3. CASE Moves(m, "fixed", first, NoText, <<>>, NoPrompt)
    BY <1>2, <1>4, <1>8, <2>3, QuietMove
  <2>4. CASE Moves(m, "prepare", first, NoText, <<>>, NoPrompt)
    BY <1>2, <1>4, <1>8, <2>4, QuietMove
  <2> QED
    BY <2>1, <2>2, <2>3, <2>4
<1>9. CASE RefuseByQuota(m)
  <2>1. Unhanded(m) /\ conv' = conv /\ (Return(m, "done") \/ SendCopy(m, FALSE))
    BY <1>9 DEF RefuseByQuota
  <2> QED
    BY <1>7, <1>8, <2>1
<1>10. CASE RouteText(m)
  <2>1. PICK first \in BOOLEAN :
          first = (turn[m].first /\ ~ is_courtesy_only(turn[m].input.text))
    BY <1>3
  <2>2. /\ Unhanded(m) /\ conv' = conv
        /\ \/ SendCopy(m, first)
           \/ turn' = [turn EXCEPT ![m].at = "prepare", ![m].first = first]
    BY <1>10, <2>1 DEF RouteText
  <2> QED
    BY <1>7, <1>8, <2>2
<1>11. CASE RouteSelection(m)
  <2>1. /\ Unhanded(m)
        /\ \/ HandOver(m, "sales_lead") \/ HandOver(m, "none")
           \/ SendCopy(m, turn[m].first) /\ conv' = conv
           \/ Goto(m, "prepare") /\ conv' = conv
    BY <1>11 DEF RouteSelection
  <2>2. CASE HandOver(m, "sales_lead") \/ HandOver(m, "none")
    BY <1>1, <1>7, <2>1, <2>2, HandOverStep
  <2>3. CASE (SendCopy(m, turn[m].first) \/ Goto(m, "prepare")) /\ conv' = conv
    BY <1>3, <1>7, <1>8, <2>1, <2>3
  <2> QED
    BY <2>1, <2>2, <2>3
<1>12. CASE RouteMedia(m)
  <2>1. Unhanded(m) /\ conv' = conv /\ Goto(m, "prepare")
    BY <1>12 DEF RouteMedia
  <2> QED
    BY <1>3, <1>7, <1>8, <2>1
<1>13. CASE RouteUnsupported(m)
  <2>1. Unhanded(m) /\ conv' = conv /\ SendCopy(m, turn[m].first)
    BY <1>13 DEF RouteUnsupported
  <2> QED
    BY <1>3, <1>7, <1>8, <2>1
<1> QED
  BY <1>5, <1>6, <1>9, <1>10, <1>11, <1>12, <1>13

\* Preparing, completing and failing leave the conversation alone.
LEMMA AnswerStep ==
  ASSUME TurnInvariant, NEW m \in Messages,
         \/ BuildHistory(m) \/ Replay(m) \/ Prepare(m) \/ GenerationFails(m) \/ Crash(m)
         \/ \E text \in Replies : Generate(m, text)
  PROVE  TurnInvariant'
<1>1. {"lookup", "check", "generate", "done", "lost"} \subseteq Stages /\ NoText \in Texts
      /\ Fixed \in Texts /\ cache \in [Messages -> Texts]
  BY CopyIsClean DEF Stages, TurnInvariant
<1>2. CASE Replay(m)
  <2>1. PICK reply \in Texts : reply = cache[m]
    BY <1>1
  <2>2. turn[m].at = "lookup" /\ conv' = conv /\ cache' \in [Messages -> Texts]
        /\ Moves(m, "check", FALSE, reply, <<>>, NoPrompt)
    BY <1>1, <1>2, <2>1 DEF Replay, Moves
  <2> QED
    BY <1>1, <2>2, QuietMove
<1>3. CASE Prepare(m)
  <2>1. PICK p : turn' = [turn EXCEPT ![m].at = "generate", ![m].prompt = p]
    BY <1>3, Zenon DEF Prepare
  <2>2. turn[m].at = "lookup" /\ conv' = conv /\ cache' \in [Messages -> Texts]
        /\ Moves(m, "generate", FALSE, NoText, <<>>, p)
    BY <1>1, <1>3, <2>1 DEF Prepare, Moves
  <2> QED
    BY <1>1, <2>2, QuietMove
<1>7. CASE BuildHistory(m)
  <2>1. PICK h : turn' = [turn EXCEPT ![m].at = "lookup", ![m].history = h]
    BY <1>7, Zenon DEF BuildHistory
  <2>2. turn[m].at = "prepare" /\ conv' = conv /\ cache' \in [Messages -> Texts]
        /\ Moves(m, "lookup", FALSE, NoText, h, NoPrompt)
    BY <1>1, <1>7, <2>1 DEF BuildHistory, Moves
  <2> QED
    BY <1>1, <2>2, QuietMove
<1>4. CASE GenerationFails(m)
  <2>1. turn[m].at = "generate" /\ conv' = conv /\ cache' \in [Messages -> Texts]
        /\ Moves(m, "check", FALSE, Fixed, <<>>, NoPrompt)
    BY <1>1, <1>4 DEF GenerationFails, Moves
  <2> QED
    BY <1>1, <2>1, QuietMove
<1>5. ASSUME NEW text \in Replies, Generate(m, text) PROVE TurnInvariant'
  <2>1. PICK reply \in Texts : reply = IF text = {} THEN Fixed ELSE text
    BY <1>1 DEF Texts
  <2>2. turn[m].at = "generate" /\ conv' = conv
        /\ (cache' = [cache EXCEPT ![m] = reply] \/ cache' = cache)
        /\ turn' = [turn EXCEPT ![m].at = "check", ![m].reply = reply,
                                ![m].history = <<>>, ![m].prompt = NoPrompt]
    BY <1>5, <2>1 DEF Generate
  <2>3. cache' \in [Messages -> Texts] /\ Moves(m, "check", FALSE, reply, <<>>, NoPrompt)
    BY <1>1, <2>2 DEF Moves
  <2> QED
    BY <1>1, <2>2, <2>3, QuietMove
<1>6. CASE Crash(m)
  <2>1. /\ turn[m].at \in {"route", "prepare", "lookup", "generate", "check", "fixed"}
        /\ conv' = conv /\ cache' = cache
        /\ Return(m, IF turn[m].at = "route" THEN "lost" ELSE "done")
    BY <1>6 DEF Crash, Busy
  <2>2. CASE turn[m].at = "route"
    <3>1. Moves(m, "lost", FALSE, NoText, <<>>, NoPrompt)
      BY <2>1, <2>2 DEF Return, Moves
    <3> QED
      BY <1>1, <2>1, <2>2, <3>1, QuietMove
  <2>3. CASE turn[m].at # "route"
    <3>1. Moves(m, "done", FALSE, NoText, <<>>, NoPrompt)
      BY <2>1, <2>3 DEF Return, Moves
    <3> QED
      BY <1>1, <2>1, <2>3, <3>1, QuietMove
  <2> QED
    BY <2>2, <2>3
<1> QED
  BY <1>2, <1>3, <1>4, <1>5, <1>6, <1>7

\* What is sent: a reply that was searched, its replacement, or fixed copy.
LEMMA SendingStep ==
  ASSUME TurnInvariant, NEW m \in Messages, CheckAndSend(m) \/ SendFixed(m)
  PROVE  TurnInvariant'
<1>1. NoText \in Texts /\ Fixed \in Texts /\ cache \in [Messages -> Texts]
  BY CopyIsClean DEF TurnInvariant
<1>2. CASE CheckAndSend(m)
  <2>1. turn[m].at = "check" /\ turn[m].at # "none"
    BY <1>2 DEF CheckAndSend
  <2>2. turn[m].reply \in Texts
    BY <2>1, BusyTurn
  <2>3. PICK text \in Texts :
          text = IF mentions_amount(turn[m].reply, TRUE) THEN deflection ELSE turn[m].reply
    BY <2>2, CopyIsClean
  <2>4. ~ mentions_amount(text, TRUE)
    BY <2>3, CopyIsClean
  <2>5. PICK sent \in BOOLEAN :
          /\ SendOnce(m, text, sent)
          /\ cache' = IF sent /\ Alive(m) THEN [cache EXCEPT ![m] = NoText] ELSE cache
    BY <1>2, <2>3 DEF CheckAndSend
  <2>6. cache' \in [Messages -> Texts]
    BY <1>1, <2>5
  <2> QED
    BY <2>1, <2>4, <2>5, <2>6, SendStep
<1>3. CASE SendFixed(m)
  <2>1. turn[m].at = "fixed" /\ cache' \in [Messages -> Texts]
    BY <1>1, <1>3 DEF SendFixed
  <2>2. PICK sent \in BOOLEAN : SendOnce(m, Fixed, sent)
    BY <1>3 DEF SendFixed
  <2> QED
    BY <1>1, <2>1, <2>2, CopyIsClean, SendStep
<1> QED
  BY <1>2, <1>3

\* An operator writes, switches the mode or deletes the conversation; the
\* handlers that run meanwhile keep what they loaded.
LEMMA OperatorStep ==
  ASSUME TurnInvariant,
         \/ \E text \in OperatorTexts : OperatorReply(text)
         \/ \E mode \in {"bot", "human"} : SwitchMode(mode)
         \/ DeleteConversation
  PROVE  TurnInvariant'
<1>1. /\ turn' = turn /\ cache' = cache
      /\ conv \in [id : Nat, mode : Modes, tag : {"none", "sales_lead"}, welcomed : BOOLEAN,
                   rows : Seq(RowType)]
      /\ turn = [m \in Messages |-> turn[m]] /\ cache \in [Messages -> Texts]
  BY DEF TurnInvariant, ConvIsTyped, OperatorReply, SwitchMode, DeleteConversation
<1>2. ASSUME ConvIsTyped', NoAmountFromBot',
             \/ conv'.id = conv.id /\ (conv.tag = "sales_lead" => conv'.tag = "sales_lead")
             \/ conv'.id = conv.id + 1
      PROVE  TurnInvariant'
  <2>1. \A k \in Messages : TurnIsSound(k)'
    BY <1>1, <1>2, OthersSound
  <2> QED
    BY <1>1, <1>2, <2>1 DEF TurnInvariant
<1>3. ASSUME NEW text \in OperatorTexts, OperatorReply(text) PROVE TurnInvariant'
  <2>1. text \in Texts
    BY DEF Texts
  <2>2. PICK rows \in Seq(RowType) :
          /\ rows = Append(conv.rows, [from |-> "operator", text |-> text])
          /\ \A i \in DOMAIN rows : rows[i].from = "bot" => ~ mentions_amount(rows[i].text, TRUE)
    BY <2>1, AppendRow DEF TurnInvariant
  <2>3. conv' = [conv EXCEPT !.rows = rows]
    BY <1>3, <2>2 DEF OperatorReply
  <2>4. /\ conv' \in [id : Nat, mode : Modes, tag : {"none", "sales_lead"}, welcomed : BOOLEAN,
                      rows : Seq(RowType)]
        /\ conv'.id = conv.id /\ conv'.rows = rows /\ conv'.tag = conv.tag
    BY <1>1, <2>3
  <2> QED
    BY <1>2, <2>2, <2>4 DEF ConvIsTyped, NoAmountFromBot
<1>4. ASSUME NEW mode \in {"bot", "human"}, SwitchMode(mode) PROVE TurnInvariant'
  <2>1. conv' = [conv EXCEPT !.mode = mode]
    BY <1>4 DEF SwitchMode
  <2>2. /\ conv' \in [id : Nat, mode : Modes, tag : {"none", "sales_lead"}, welcomed : BOOLEAN,
                      rows : Seq(RowType)]
        /\ conv'.id = conv.id /\ conv'.rows = conv.rows /\ conv'.tag = conv.tag
    BY <1>1, <2>1 DEF Modes
  <2> QED
    BY <1>2, <2>2 DEF ConvIsTyped, NoAmountFromBot, TurnInvariant
<1>5. CASE DeleteConversation
  <2>1. PICK n \in Nat : n = conv.id + 1
    BY <1>1
  <2>2. conv' = [id |-> n, mode |-> "bot", tag |-> "none", welcomed |-> FALSE, rows |-> <<>>]
    BY <1>5, <2>1 DEF DeleteConversation, NewConversation
  <2>3. <<>> \in Seq(RowType) /\ DOMAIN <<>> = {}
    OBVIOUS
  <2>4. conv' \in [id : Nat, mode : Modes, tag : {"none", "sales_lead"}, welcomed : BOOLEAN,
                   rows : Seq(RowType)]
    BY <2>2, <2>3 DEF Modes
  <2>5. NoAmountFromBot'
    BY <2>2, <2>3 DEF NoAmountFromBot
  <2> QED
    BY <1>2, <2>1, <2>2, <2>4, <2>5 DEF ConvIsTyped
<1> QED
  BY <1>3, <1>4, <1>5

-----------------------------------------------------------------------------
(***************************************************************************)
(* The two together.                                                       *)
(***************************************************************************)

Consistent == IndexInvariant /\ TurnInvariant

LEMMA InitConsistent ==
  ASSUME Init
  PROVE  Consistent
<1>1. IndexInvariant
  <2>1. /\ folder = [s \in Sources |-> NoFile] /\ document = [s \in Sources |-> NoDocument]
        /\ run = NotRunning
    BY DEF Init, InitIndex
  <2>2. /\ run.at = "idle" /\ run.quiet = FALSE /\ run.result = [s \in Sources |-> "none"]
        /\ run \in [at : {"idle"}, force : {FALSE}, prune : {FALSE}, todo : {<<>>}, listed : {{}},
                    hash : {run.hash}, pages : {run.pages}, result : {run.result},
                    quiet : {FALSE}]
    BY <2>1 DEF NotRunning
  <2>3. <<>> \in Seq(Sources)
    OBVIOUS
  <2>4. run \in [at : {"idle", "file", "read", "embed", "done"}, force : BOOLEAN,
                 prune : BOOLEAN, todo : Seq(Sources), listed : SUBSET Sources,
                 hash : {run.hash}, pages : {run.pages}, result : {run.result},
                 quiet : BOOLEAN]
    BY <2>2, <2>3
  <2>5. /\ folder = [s \in Sources |-> folder[s]] /\ document = [s \in Sources |-> document[s]]
        /\ run.result = [s \in Sources |-> run.result[s]]
    BY <2>1, <2>2
  <2>6. IndexIsTyped
    BY <2>4, <2>5 DEF IndexIsTyped
  <2>7. RunIsOnCourse
    BY <2>2 DEF RunIsOnCourse
  <2> QED
    BY <2>6, <2>7 DEF IndexInvariant
<1>2. TurnInvariant
  <2>1. /\ conv = [id |-> 0, mode |-> "bot", tag |-> "none", welcomed |-> FALSE, rows |-> <<>>]
        /\ turn = [m \in Messages |-> NoTurn] /\ cache = [m \in Messages |-> NoText]
    BY DEF Init, InitTurns, NewConversation
  <2>2. <<>> \in Seq(RowType) /\ DOMAIN <<>> = {}
    OBVIOUS
  <2>3. ConvIsTyped
    BY <2>1, <2>2 DEF ConvIsTyped, Modes
  <2>4. NoAmountFromBot
    BY <2>1, <2>2 DEF NoAmountFromBot
  <2>5. turn = [m \in Messages |-> turn[m]] /\ \A m \in Messages : turn[m] = NoTurn
    BY <2>1
  <2> QED
    BY <2>1, <2>3, <2>4, <2>5, CopyIsClean DEF TurnInvariant, TurnIsSound
<1> QED
  BY <1>1, <1>2 DEF Consistent

\* The steps of index and turns do not meet: a search reads the index, and leaves it.
LEMMA NextConsistent ==
  ASSUME Consistent, [Next]_vars
  PROVE  Consistent'
<1>1. ASSUME UNCHANGED indexVars PROVE IndexInvariant'
  BY <1>1 DEF Consistent, IndexInvariant, IndexIsTyped, RunIsOnCourse, Awaits, Settled,
              IsCurrent, Present, indexVars
<1>2. ASSUME UNCHANGED turnVars PROVE TurnInvariant'
  BY <1>2 DEF Consistent, TurnInvariant, ConvIsTyped, TurnIsSound, TurnType, LeadIfHaggled,
              Alive, NoAmountFromBot, turnVars
<1>3. CASE NextIndex /\ UNCHANGED turnVars
  BY <1>2, <1>3, NextIndexStep DEF Consistent
<1>4. ASSUME NEW m \in Messages, TurnStep(m) PROVE Consistent'
  <2>1. UNCHANGED indexVars
    BY <1>4 DEF TurnStep, Receive, LeaveToOperator, BeginHandoff, RefuseByQuota, RouteText,
                RouteSelection, RouteMedia, RouteUnsupported, Routing, BuildHistory, Replay, Prepare,
                GenerationFails, CheckAndSend, SendFixed, Generate, Crash
  <2>2. TurnInvariant'
    BY <1>4, ReceiveStep, RouteStep, AnswerStep, SendingStep DEF TurnStep, Consistent
  <2> QED
    BY <1>1, <2>1, <2>2 DEF Consistent
<1>5. CASE \/ \E text \in OperatorTexts : OperatorReply(text)
           \/ \E mode \in {"bot", "human"} : SwitchMode(mode)
           \/ DeleteConversation
  <2>1. UNCHANGED indexVars
    BY <1>5 DEF OperatorReply, SwitchMode, DeleteConversation
  <2>2. TurnInvariant'
    BY <1>5, OperatorStep DEF Consistent
  <2> QED
    BY <1>1, <2>1, <2>2 DEF Consistent
<1>6. CASE UNCHANGED vars
  BY <1>1, <1>2, <1>6 DEF vars, Consistent
<1> QED
  BY <1>3, <1>4, <1>5, <1>6 DEF Next

\* Index, run, conversation, turns and cached completions hold together: a forced
\* run of an untouched folder is on course, a turn belongs to its conversation or an
\* earlier one and carries one of the texts there are (ingestion.py, chat_service.py).
THEOREM AnsweringConsistent == Spec => [](IndexInvariant /\ TurnInvariant)
<1>1. Init => Consistent
  BY InitConsistent
<1>2. Consistent /\ [Next]_vars => Consistent'
  BY NextConsistent
<1> QED
  BY <1>1, <1>2, PTL DEF Spec, Consistent

\* Whatever the model returns, whenever a message is redelivered and its completion
\* replayed, no reply of the bot names an amount (chat_service.py, the scan of every
\* reply before it is recorded and sent).
THEOREM NoAmountLeaves == Spec => []NoAmountFromBot
<1>1. TurnInvariant => NoAmountFromBot
  BY DEF TurnInvariant
<1> QED
  BY <1>1, AnsweringConsistent, PTL

\* A message in which the customer bargains never reaches the model, and once it is
\* read its conversation is a sales lead for good, whatever operators do meanwhile
\* (_handled_by_human and set_mode, which never clears a tag).
THEOREM HaggledBecomesLead == Spec => []HaggledIsALead
<1>1. TurnInvariant => HaggledIsALead
  <2> SUFFICES ASSUME TurnInvariant, NEW m \in Messages,
                      turn[m].at \in {"prepare", "lookup", "generate", "check", "fixed", "done"}
               PROVE  LeadIfHaggled(m)
    BY DEF HaggledIsALead, LeadIfHaggled
  <2> QED
    BY BusyTurn
<1> QED
  BY <1>1, AnsweringConsistent, PTL

\* A forced and pruning run in which nothing failed and nobody edited the folder
\* leaves the index as the folder is, whatever earlier runs and edits left in it
\* (ingest_directory, ingest_file, delete_by_source).
THEOREM ForcedRunCurrent == Spec => []ForcedRunIsCurrent
<1>1. IndexInvariant => ForcedRunIsCurrent
  BY DEF IndexInvariant, RunIsOnCourse, ForcedRunIsCurrent, Settled, IsCurrent, Present
<1> QED
  BY <1>1, AnsweringConsistent, PTL

-----------------------------------------------------------------------------
(***************************************************************************)
(* What the model is shown.                                                *)
(***************************************************************************)

FolderHasContents == \A s \in Sources : folder[s] \in Contents \cup {NoFile}

\* A chunk that is stored, or about to be, is of a page of a finished file.
IndexedIsFinished ==
  /\ \A s \in Sources : document[s].stored =>
       \A chunk \in document[s].chunks :
         \E text \in FinishedTexts : chunk.text = normalize_text(text)
  /\ run.at = "embed" => \A i \in DOMAIN run.pages : run.pages[i].text \in FinishedTexts

PromptIsClean(prompt) ==
  /\ Len(prompt.excerpts) <= TopK
  /\ \A i \in DOMAIN prompt.excerpts :
       \E text \in FinishedTexts : ExcerptOf(prompt.excerpts[i], text)

PromptsAreClean == \A m \in Messages : Busy(m) => PromptIsClean(turn[m].prompt)

\* A set of numbers that is not empty has a least one.
LEMMA LeastNumber ==
  ASSUME NEW S, S \subseteq Nat, S # {}
  PROVE  Min(S) \in S /\ \A n \in S : Min(S) <= n
<1>1. \E x \in S : \A y \in S : ~ <<y, x>> \in OpToRel(<, Nat)
  BY WFMin, NatLessThanWellFounded
<1>2. PICK x \in S : \A y \in S : ~ y < x
  BY <1>1 DEF OpToRel
<1>3. \A y \in S : x <= y
  BY <1>2
<1>4. \E z \in S : \A y \in S : z <= y
  BY <1>3
<1> QED
  BY <1>4 DEF Min

\* Retrieval returns the first of the hits.
LEMMA RetrievedAreHits ==
  ASSUME NEW hits \in Seq(Chunk)
  PROVE  /\ Len(retrieve(hits)) \in Nat /\ DOMAIN retrieve(hits) = 1 .. Len(retrieve(hits))
         /\ Len(retrieve(hits)) <= Len(hits)
         /\ \A i \in DOMAIN retrieve(hits) : retrieve(hits)[i] \in Chunk
<1>1. PICK S : S = {n \in 1 .. Len(hits) : ~ Fits(hits, n)} \cup {Len(hits) + 1}
  OBVIOUS
<1>2. S \subseteq 1 .. Len(hits) + 1 /\ Len(hits) + 1 \in S /\ Len(hits) \in Nat
  BY <1>1
<1>3. PICK first \in 1 .. Len(hits) + 1 : first = Min(S)
  <2>1. S \subseteq Nat /\ S # {}
    BY <1>2
  <2>2. Min(S) \in S
    BY <2>1, LeastNumber
  <2> QED
    BY <1>2, <2>2
<1>4. retrieve(hits) = SubSeq(hits, 1, first - 1)
  BY <1>1, <1>3 DEF retrieve
<1>5. /\ SubSeq(hits, 1, first - 1) \in Seq(Chunk) /\ Len(SubSeq(hits, 1, first - 1)) = first - 1
      /\ DOMAIN SubSeq(hits, 1, first - 1) = 1 .. first - 1
      /\ \A i \in 1 .. first - 1 : SubSeq(hits, 1, first - 1)[i] = hits[i]
  BY <1>2, <1>3
<1>6. \A i \in 1 .. first - 1 : hits[i] \in Chunk
  BY <1>2, <1>3
<1> QED
  BY <1>2, <1>3, <1>4, <1>5, <1>6

\* A page of a file that is not unfinished.
LEMMA PageOfFinished ==
  ASSUME NEW content \in Contents, NEW pages, pages = read_pages(content),
         ~ is_unfilled(pages), NEW i \in DOMAIN pages
  PROVE  pages[i].text \in FinishedTexts /\ "todo" \notin pages[i].text
BY DEF FinishedTexts, is_unfilled

\* What a text of a finished file is made into.
LEMMA PreparedExcerpt ==
  ASSUME NEW text \in FinishedTexts
  PROVE  ExcerptOf(_prepare(normalize_text(text)), text)
<1>1. "todo" \notin text
  BY DEF FinishedTexts
<1>2. PICK joined : joined = normalize_text(text)
  OBVIOUS
<1>3. /\ "broken" \notin joined
      /\ "todo" \in joined => "broken" \in text
      /\ joined \ {"todo"} \subseteq text
  BY <1>1, <1>2 DEF normalize_text, Becomes
<1>4. PICK redacted : redacted = redact(joined)
  OBVIOUS
<1>5. /\ redacted \cap {"range", "discount", "phone"} = {}
      /\ "amount" \in redacted => "range" \in joined
      /\ redacted \ {"amount"} \subseteq joined
  BY <1>4 DEF redact, Becomes
<1>6. PICK excerpt : excerpt = _neutralise(redacted)
  OBVIOUS
<1>7. /\ "nested" \notin excerpt
      /\ "fence" \in excerpt => "nested" \in redacted
      /\ excerpt \ {"fence"} \subseteq redacted
  BY <1>6 DEF _neutralise, Becomes
<1>8. excerpt = _prepare(normalize_text(text))
  BY <1>2, <1>4, <1>6 DEF _prepare
<1>9. ExcerptOf(excerpt, text)
  BY <1>3, <1>5, <1>7 DEF ExcerptOf
<1> QED
  BY <1>8, <1>9

\* The excerpts of instructions built from an index of finished documents.
LEMMA ExcerptsOfHits ==
  ASSUME IndexedIsFinished, NEW hits \in Seq(Chunk), Len(hits) <= TopK,
         NEW attempted, NEW general
  PROVE  PromptIsClean(build_instructions(retrieve(hits), attempted, general))
<1>1. PICK docs : docs = retrieve(hits)
  OBVIOUS
<1>2. /\ Len(docs) \in Nat /\ DOMAIN docs = 1 .. Len(docs) /\ Len(docs) <= Len(hits)
      /\ \A i \in DOMAIN docs : docs[i] \in Chunk
  BY <1>1, RetrievedAreHits
<1>3. PICK excerpts : excerpts = [i \in DOMAIN docs |-> _prepare(docs[i].text)]
  OBVIOUS
<1>4. build_instructions(docs, attempted, general).excerpts = excerpts
  BY <1>3 DEF build_instructions
<1>5. Len(excerpts) = Len(docs) /\ DOMAIN excerpts = DOMAIN docs
  BY <1>2, <1>3
<1>6. \A chunk \in Chunk : \E text \in FinishedTexts : chunk.text = normalize_text(text)
  BY DEF IndexedIsFinished, Chunk
<1>7. ASSUME NEW i \in DOMAIN docs
      PROVE  \E text \in FinishedTexts : ExcerptOf(excerpts[i], text)
  <2>1. PICK text \in FinishedTexts : docs[i].text = normalize_text(text)
    BY <1>2, <1>6, <1>7
  <2>2. excerpts[i] = _prepare(normalize_text(text))
    BY <1>3, <1>7, <2>1
  <2> QED
    BY <2>2, PreparedExcerpt
<1>8. Len(docs) <= TopK
  BY <1>2, AnsweringAssumption
<1> QED
  BY <1>1, <1>4, <1>5, <1>7, <1>8 DEF PromptIsClean

\* Only staff write files.
LEMMA FolderStep ==
  ASSUME IndexIsTyped, FolderHasContents, [NextIndex]_indexVars
  PROVE  FolderHasContents'
<1>1. ASSUME NEW s \in Sources, NEW content \in Contents \cup {NoFile}, Edit(s, content)
      PROVE  FolderHasContents'
  <2>1. \A t \in Sources : folder'[t] = content \/ folder'[t] = folder[t]
    BY <1>1 DEF Edit, IndexIsTyped
  <2> QED
    BY <2>1 DEF FolderHasContents
<1>2. ASSUME folder' = folder PROVE FolderHasContents'
  BY <1>2 DEF FolderHasContents
<1>3. \/ folder' = folder
      \/ \E s \in Sources, content \in Contents \cup {NoFile} : Edit(s, content)
  BY DEF NextIndex, StartRun, HashFile, ReadFile, FileGone, IndexFile, IndexFails, EndRun, indexVars
<1> QED
  BY <1>1, <1>2, <1>3

\* The script reads a file, refuses it if it is unfinished, and indexes the rest.
LEMMA FinishedStep ==
  ASSUME IndexInvariant, FolderHasContents, IndexedIsFinished, [NextIndex]_indexVars
  PROVE  IndexedIsFinished'
<1>1. /\ run \in [at : {"idle", "file", "read", "embed", "done"}, force : BOOLEAN,
                  prune : BOOLEAN, todo : Seq(Sources), listed : SUBSET Sources,
                  hash : {run.hash}, pages : {run.pages}, result : {run.result},
                  quiet : BOOLEAN]
      /\ document = [s \in Sources |-> document[s]]
  BY DEF IndexInvariant, IndexIsTyped
<1>2. NoDocument.stored = FALSE
  BY DEF NoDocument
<1>3. ASSUME document' = document, run'.at = "embed" => run.at = "embed" /\ run'.pages = run.pages
      PROVE  IndexedIsFinished'
  BY <1>3 DEF IndexedIsFinished
<1>4. ASSUME NEW s \in Sources, NEW content \in Contents \cup {NoFile}, Edit(s, content)
      PROVE  IndexedIsFinished'
  <2>1. run' = [run EXCEPT !.quiet = FALSE] /\ document' = document
    BY <1>4 DEF Edit
  <2>2. run'.at = run.at /\ run'.pages = run.pages
    BY <1>1, <2>1
  <2> QED
    BY <1>3, <2>1, <2>2
<1>5. ASSUME NEW force \in BOOLEAN, NEW prune \in BOOLEAN, StartRun(force, prune)
      PROVE  IndexedIsFinished'
  <2>1. run'.at = "file" /\ document' = document
    BY <1>5 DEF StartRun, NotRunning
  <2> QED
    BY <1>3, <2>1
<1>6. ASSUME NEW result, Report(result) PROVE run'.at = "file"
  BY <1>1, <1>6 DEF Report
<1>7. CASE HashFile
  <2>1. document' = document /\ run'.at \in {"file", "read"}
    BY <1>1, <1>6, <1>7 DEF HashFile
  <2> QED
    BY <1>3, <2>1
<1>8. CASE FileGone \/ IndexFails
  <2>1. document' = document /\ run'.at = "file"
    BY <1>6, <1>8 DEF FileGone, IndexFails
  <2> QED
    BY <1>3, <2>1
<1>9. CASE ReadFile
  <2>1. PICK h, pages : h = Head(run.todo) /\ pages = read_pages(folder[h])
    OBVIOUS
  <2>2. \/ Report("failed") /\ document' = document
        \/ document' = [document EXCEPT ![h] = NoDocument] /\ Report("skipped")
        \/ /\ ~ is_unfilled(pages) /\ run' = [run EXCEPT !.at = "embed", !.pages = pages]
           /\ document' = document
    BY <1>9, <2>1 DEF ReadFile
  <2>3. CASE Report("failed") /\ document' = document
    BY <1>3, <1>6, <2>3
  <2>4. CASE document' = [document EXCEPT ![h] = NoDocument] /\ Report("skipped")
    <3>1. \A s \in Sources : document'[s] = document[s] \/ document'[s] = NoDocument
      BY <1>1, <2>4
    <3>2. run'.at = "file"
      BY <1>6, <2>4
    <3> QED
      BY <1>2, <3>1, <3>2 DEF IndexedIsFinished
  <2>5. CASE /\ ~ is_unfilled(pages) /\ run' = [run EXCEPT !.at = "embed", !.pages = pages]
             /\ document' = document
    <3>1. run'.pages = pages
      BY <1>1, <2>5
    <3>2. folder[h] \in Contents
      <4>1. run.at = "read" /\ folder[h] # NoFile
        BY <1>9, <2>1 DEF ReadFile
      <4>2. h \in Sources
        <5>1. run.todo # <<>>
          BY <4>1 DEF IndexInvariant, RunIsOnCourse
        <5> QED
          BY <1>1, <2>1, <5>1
      <4> QED
        BY <4>1, <4>2 DEF FolderHasContents
    <3>3. \A i \in DOMAIN pages : pages[i].text \in FinishedTexts
      BY <2>1, <2>5, <3>2, PageOfFinished
    <3> QED
      BY <2>5, <3>1, <3>3 DEF IndexedIsFinished
  <2> QED
    BY <2>2, <2>3, <2>4, <2>5
<1>10. CASE IndexFile
  <2>1. PICK h, pages : h = Head(run.todo) /\ pages = run.pages
    OBVIOUS
  <2>2. PICK chunks : chunks = Chunks(pages)
    OBVIOUS
  <2>3. /\ run.at = "embed" /\ Report("indexed")
        /\ document' = [document EXCEPT ![h] = [stored |-> TRUE, hash |-> run.hash,
                                                pages |-> pages, chunks |-> chunks]]
    BY <1>10, <2>1, <2>2 DEF IndexFile
  <2>4. \A i \in DOMAIN pages : pages[i].text \in FinishedTexts
    BY <2>1, <2>3 DEF IndexedIsFinished
  <2>5. \A chunk \in chunks : \E text \in FinishedTexts : chunk.text = normalize_text(text)
    <3>1. \A chunk \in chunks : \E i \in DOMAIN pages : chunk.text = normalize_text(pages[i].text)
      BY <2>2 DEF Chunks
    <3> QED
      BY <2>4, <3>1
  <2>6. \A s \in Sources : document'[s] = document[s] \/ document'[s].chunks = chunks
    BY <1>1, <2>3
  <2>7. run'.at = "file"
    BY <1>6, <2>3
  <2> QED
    BY <2>5, <2>6, <2>7 DEF IndexedIsFinished
<1>11. CASE EndRun
  <2>1. \A s \in Sources : document'[s] = document[s] \/ document'[s] = NoDocument
    BY <1>11 DEF EndRun
  <2>2. run'.at = "done"
    BY <1>1, <1>11 DEF EndRun
  <2> QED
    BY <1>2, <2>1, <2>2 DEF IndexedIsFinished
<1>12. CASE UNCHANGED indexVars
  BY <1>3, <1>12 DEF indexVars
<1> QED
  BY <1>4, <1>5, <1>7, <1>8, <1>9, <1>10, <1>11, <1>12 DEF NextIndex

LEMMA NoPromptIsClean == PromptIsClean(NoPrompt)
<1>1. Len(<<>>) = 0 /\ DOMAIN <<>> = {}
  OBVIOUS
<1>2. NoPrompt.excerpts = <<>>
  BY DEF NoPrompt
<1> QED
  BY <1>1, <1>2, AnsweringAssumption DEF PromptIsClean

\* A handler that moves on keeps its history and prompt or takes those that are named.
LEMMA LocalsKept ==
  ASSUME TurnInvariant, NEW m \in Messages, turn[m].at # "none",
         NEW at, NEW first, NEW reply, NEW h, NEW p, Moves(m, at, first, reply, h, p)
  PROVE  /\ turn'[m].history = turn[m].history \/ turn'[m].history = h
         /\ turn'[m].prompt = turn[m].prompt \/ turn'[m].prompt = p
         /\ \A k \in Messages \ {m} : turn'[k] = turn[k]
<1>1. turn = [k \in Messages |-> turn[k]]
  BY DEF TurnInvariant
<1>2. PICK r : r = turn[m]
  OBVIOUS
<1>3. r \in [at : Stages, conv : Nat, input : InputsOf[m], mode : Modes, first : BOOLEAN,
             reply : Texts, history : {r.history}, prompt : {r.prompt}]
  BY <1>2, BusyTurn DEF TurnType
<1>4. \/ turn'[m] = [r EXCEPT !.at = at, !.first = first, !.reply = reply,
                              !.history = h, !.prompt = p]
      \/ turn'[m] = [r EXCEPT !.at = at, !.reply = reply, !.history = h, !.prompt = p]
      \/ turn'[m] = [r EXCEPT !.at = at, !.history = h, !.prompt = p]
      \/ turn'[m] = [r EXCEPT !.at = at, !.reply = reply]
      \/ turn'[m] = [r EXCEPT !.at = at, !.history = h]
      \/ turn'[m] = [r EXCEPT !.at = at, !.prompt = p]
      \/ turn'[m] = [r EXCEPT !.at = at, !.first = first]
      \/ turn'[m] = [r EXCEPT !.at = at]
  BY <1>1, <1>2 DEF Moves
<1>5. turn'[m].history = r.history \/ turn'[m].history = h
  BY <1>3, <1>4
<1>6. turn'[m].prompt = r.prompt \/ turn'[m].prompt = p
  BY <1>3, <1>4
<1>7. \A k \in Messages \ {m} : turn'[k] = turn[k]
  BY <1>1 DEF Moves
<1> QED
  BY <1>2, <1>5, <1>6, <1>7

\* A busy handler moves on without history and prompt ...
MovesOn(m) == Busy(m) /\ \E at, first, reply : Moves(m, at, first, reply, <<>>, NoPrompt)

\* ... except where it prepares them.
LEMMA StepMoves ==
  ASSUME NEW m \in Messages, TurnStep(m)
  PROVE  \/ \E input \in InputsOf[m] : Receive(m, input)
         \/ BuildHistory(m) \/ Prepare(m) \/ MovesOn(m)
<1>1. ASSUME NEW at, NEW first, NEW reply, Busy(m), Moves(m, at, first, reply, <<>>, NoPrompt)
      PROVE  MovesOn(m)
  BY <1>1 DEF MovesOn
<1>2. ASSUME NEW how, Return(m, how) PROVE Moves(m, how, FALSE, NoText, <<>>, NoPrompt)
  BY <1>2 DEF Return, Moves
<1>3. ASSUME NEW first, SendCopy(m, first) PROVE Moves(m, "fixed", first, NoText, <<>>, NoPrompt)
  BY <1>3 DEF SendCopy, Moves
<1>4. ASSUME Goto(m, "prepare") PROVE Moves(m, "prepare", FALSE, NoText, <<>>, NoPrompt)
  BY <1>4 DEF Goto, Moves
<1>5. ASSUME NEW tag, HandOver(m, tag), Busy(m) PROVE MovesOn(m)
  <2>1. Return(m, "done") \/ SendCopy(m, FALSE)
    BY <1>5 DEF HandOver
  <2> QED
    BY <1>1, <1>2, <1>3, <1>5, <2>1
<1>6. ASSUME Routing(m) PROVE Busy(m)
  BY <1>6 DEF Routing, Busy
<1>7. CASE LeaveToOperator(m) \/ RefuseByQuota(m) \/ RouteMedia(m) \/ RouteUnsupported(m)
  <2>1. Busy(m) /\ \/ Return(m, "done") \/ SendCopy(m, FALSE) \/ Goto(m, "prepare")
                   \/ SendCopy(m, turn[m].first)
    BY <1>6, <1>7 DEF LeaveToOperator, RefuseByQuota, RouteMedia, RouteUnsupported
  <2> QED
    BY <1>1, <1>2, <1>3, <1>4, <2>1
<1>8. CASE BeginHandoff(m)
  <2>1. Routing(m) /\ \E tag \in {"none", "sales_lead"} : HandOver(m, tag)
    BY <1>8 DEF BeginHandoff
  <2> QED
    BY <1>5, <1>6, <2>1
<1>9. CASE RouteText(m)
  <2>1. PICK first : first = (turn[m].first /\ ~ is_courtesy_only(turn[m].input.text))
    OBVIOUS
  <2>2. Routing(m) /\ \/ SendCopy(m, first)
                      \/ turn' = [turn EXCEPT ![m].at = "prepare", ![m].first = first]
    BY <1>9, <2>1 DEF RouteText
  <2>3. \/ Moves(m, "fixed", first, NoText, <<>>, NoPrompt)
        \/ Moves(m, "prepare", first, NoText, <<>>, NoPrompt)
    BY <2>2 DEF SendCopy, Moves
  <2> QED
    BY <1>1, <1>6, <2>2, <2>3
<1>10. CASE RouteSelection(m)
  <2>1. Routing(m) /\ \/ HandOver(m, "sales_lead") \/ HandOver(m, "none")
                      \/ SendCopy(m, turn[m].first) \/ Goto(m, "prepare")
    BY <1>10 DEF RouteSelection
  <2> QED
    BY <1>1, <1>3, <1>4, <1>5, <1>6, <2>1
<1>11. CASE Replay(m)
  <2>1. Busy(m) /\ Moves(m, "check", FALSE, cache[m], <<>>, NoPrompt)
    BY <1>11 DEF Replay, Busy, Moves
  <2> QED
    BY <1>1, <2>1
<1>12. CASE GenerationFails(m)
  <2>1. Busy(m) /\ Moves(m, "check", FALSE, Fixed, <<>>, NoPrompt)
    BY <1>12 DEF GenerationFails, Busy, Moves
  <2> QED
    BY <1>1, <2>1
<1>13. ASSUME NEW text \in Replies, Generate(m, text) PROVE MovesOn(m)
  <2>1. PICK reply : reply = IF text = {} THEN Fixed ELSE text
    OBVIOUS
  <2>2. Busy(m) /\ Moves(m, "check", FALSE, reply, <<>>, NoPrompt)
    BY <1>13, <2>1 DEF Generate, Busy, Moves
  <2> QED
    BY <1>1, <2>2
<1>14. CASE CheckAndSend(m) \/ SendFixed(m) \/ Crash(m)
  <2>1. Busy(m) /\ \E how \in {"done", "lost"} : Return(m, how)
    BY <1>14 DEF CheckAndSend, SendFixed, Crash, SendOnce, Busy
  <2> QED
    BY <1>1, <1>2, <2>1
<1> QED
  BY <1>7, <1>8, <1>9, <1>10, <1>11, <1>12, <1>13, <1>14 DEF TurnStep

\* The prompt of a turn is built once, from the index as it is at that moment.
LEMMA PromptStep ==
  ASSUME TurnInvariant, PromptsAreClean, IndexedIsFinished, NEW m \in Messages, TurnStep(m)
  PROVE  PromptsAreClean'
<1>1. ASSUME NEW input \in InputsOf[m], Receive(m, input) PROVE PromptsAreClean'
  <2>1. turn'[m].prompt = NoPrompt /\ \A k \in Messages \ {m} : turn'[k] = turn[k]
    BY <1>1 DEF Receive, TurnInvariant
  <2> QED
    BY <2>1, NoPromptIsClean DEF PromptsAreClean, Busy
<1>2. CASE Prepare(m)
  <2>1. PICK hits \in IF Query(m) THEN search ELSE {<<>>} : turn' = [turn EXCEPT
          ![m].at = "generate",
          ![m].prompt = build_instructions(retrieve(hits), Query(m),
                          turn[m].input.kind = "text" /\ classify(turn[m].input.text) = "domain")]
    BY <1>2, Zenon DEF Prepare
  <2>2. hits \in search \/ hits = <<>>
    BY <2>1
  <2>3. hits \in Seq(Chunk) /\ Len(hits) <= TopK
    <3>1. CASE hits = <<>>
      <4>1. <<>> \in Seq(Chunk) /\ Len(<<>>) = 0
        OBVIOUS
      <4> QED
        BY <3>1, <4>1, AnsweringAssumption
    <3>2. CASE hits \in search
      <4>1. PICK n \in 0 .. TopK : hits \in [1 .. n -> Chunk]
        BY <3>2 DEF search
      <4>2. n \in Nat /\ n <= TopK
        BY AnsweringAssumption
      <4>3. hits \in Seq(Chunk) /\ Len(hits) = n
        BY <4>1, <4>2
      <4> QED
        BY <4>2, <4>3
    <3> QED
      BY <2>2, <3>1, <3>2
  <2>5. PICK attempted, general :
          /\ attempted = Query(m)
          /\ general = (turn[m].input.kind = "text" /\ classify(turn[m].input.text) = "domain")
    OBVIOUS
  <2>6. PICK p : p = build_instructions(retrieve(hits), attempted, general)
    OBVIOUS
  <2>7. turn' = [turn EXCEPT ![m].at = "generate", ![m].prompt = p]
    BY <2>1, <2>5, <2>6
  <2>8. PromptIsClean(p)
    BY <2>3, <2>6, ExcerptsOfHits
  <2>9. turn[m].at # "none" /\ Moves(m, "generate", FALSE, NoText, <<>>, p)
    BY <1>2, <2>7 DEF Prepare, Moves
  <2>10. PromptIsClean(turn[m].prompt)
    BY <1>2 DEF PromptsAreClean, Prepare, Busy
  <2>11. PICK at, first, reply : Moves(m, at, first, reply, <<>>, p)
    BY <2>9
  <2>12. PromptIsClean(turn'[m].prompt) /\ \A k \in Messages \ {m} : turn'[k] = turn[k]
    BY <2>8, <2>9, <2>10, <2>11, LocalsKept
  <2> QED
    BY <2>12 DEF PromptsAreClean, Busy
<1>4. CASE BuildHistory(m)
  <2>1. PICK h : turn' = [turn EXCEPT ![m].at = "lookup", ![m].history = h]
    BY <1>4, Zenon DEF BuildHistory
  <2>2. \E at, first, reply : Moves(m, at, first, reply, h, NoPrompt)
    BY <2>1 DEF Moves
  <2>3. turn[m].at # "none" /\ PromptIsClean(turn[m].prompt)
    BY <1>4 DEF BuildHistory, Busy, PromptsAreClean
  <2>4. PromptIsClean(turn'[m].prompt) /\ \A k \in Messages \ {m} : turn'[k] = turn[k]
    BY <2>2, <2>3, LocalsKept, NoPromptIsClean
  <2> QED
    BY <2>4 DEF PromptsAreClean, Busy
<1>3. CASE MovesOn(m)
  <2>1. PICK at, first, reply : Moves(m, at, first, reply, <<>>, NoPrompt)
    BY <1>3 DEF MovesOn
  <2>2. turn[m].at # "none" /\ PromptIsClean(turn[m].prompt)
    BY <1>3 DEF MovesOn, Busy, PromptsAreClean
  <2>3. PromptIsClean(turn'[m].prompt) /\ \A k \in Messages \ {m} : turn'[k] = turn[k]
    BY <2>1, <2>2, LocalsKept, NoPromptIsClean
  <2> QED
    BY <2>3 DEF PromptsAreClean, Busy
<1> QED
  BY <1>1, <1>2, <1>3, <1>4, StepMoves

LEMMA NextClean ==
  ASSUME IndexInvariant, TurnInvariant, FolderHasContents, IndexedIsFinished, PromptsAreClean,
         [Next]_vars
  PROVE  FolderHasContents' /\ IndexedIsFinished' /\ PromptsAreClean'
<1>1. ASSUME UNCHANGED indexVars PROVE FolderHasContents' /\ IndexedIsFinished'
  BY <1>1, FinishedStep, FolderStep DEF IndexInvariant
<1>2. ASSUME turn' = turn PROVE PromptsAreClean'
  BY <1>2 DEF PromptsAreClean, Busy
<1>3. CASE NextIndex /\ UNCHANGED turnVars
  BY <1>2, <1>3, FinishedStep, FolderStep DEF IndexInvariant, turnVars
<1>4. ASSUME NEW m \in Messages, TurnStep(m)
      PROVE  FolderHasContents' /\ IndexedIsFinished' /\ PromptsAreClean'
  <2>1. UNCHANGED indexVars
    BY <1>4 DEF TurnStep, Receive, LeaveToOperator, BeginHandoff, RefuseByQuota, RouteText,
                RouteSelection, RouteMedia, RouteUnsupported, Routing, BuildHistory, Replay, Prepare,
                GenerationFails, CheckAndSend, SendFixed, Generate, Crash
  <2> QED
    BY <1>1, <1>4, <2>1, PromptStep
<1>5. CASE \/ \E text \in OperatorTexts : OperatorReply(text)
           \/ \E mode \in {"bot", "human"} : SwitchMode(mode)
           \/ DeleteConversation
  <2>1. UNCHANGED <<indexVars, turn>>
    BY <1>5 DEF OperatorReply, SwitchMode, DeleteConversation
  <2> QED
    BY <1>1, <1>2, <2>1
<1>6. CASE UNCHANGED vars
  BY <1>1, <1>2, <1>6 DEF vars, turnVars
<1> QED
  BY <1>3, <1>4, <1>5, <1>6 DEF Next

\* An excerpt the model is shown comes from a file that was finished when the script
\* read it; it names an amount only where a page has a range, or a discount with its
\* figure first, ends the document fence only where a page has a marker inside a
\* marker, and shows a placeholder only where one was broken over a line.  No prompt
\* has more excerpts than were asked for (ingestion.py, the test before a document
\* is cut up; retrieval.py; prompt_builder.py, _prepare).
THEOREM PromptsClean == Spec => [](PromptsAreClean /\ ExcerptsAreClean)
<1>1. Init => FolderHasContents /\ IndexedIsFinished /\ PromptsAreClean
  BY DEF FolderHasContents, Init, InitIndex, InitTurns, NotRunning, NoDocument, NoTurn, IndexedIsFinished,
         PromptsAreClean, Busy
<1>2. /\ IndexInvariant /\ TurnInvariant /\ FolderHasContents /\ IndexedIsFinished
      /\ PromptsAreClean /\ [Next]_vars
      => FolderHasContents' /\ IndexedIsFinished' /\ PromptsAreClean'
  BY NextClean
<1>3. PromptsAreClean => ExcerptsAreClean
  BY DEF PromptsAreClean, PromptIsClean, ExcerptsAreClean
<1> QED
  BY <1>1, <1>2, <1>3, AnsweringConsistent, PTL DEF Spec
-----------------------------------------------------------------------------
(***************************************************************************)
(* Induction over positions.  The recursion behind a fold has a solution,  *)
(* so the function TLA+ chooses for it is one, and what the fold has come to*)
(* after each position follows by induction, from the least number.        *)
(***************************************************************************)

\* A set that has zero, and the successor of each number in it, has every number.
LEMMA AllNumbers ==
  ASSUME NEW T, 0 \in T, \A k \in Nat : k \in T => k + 1 \in T
  PROVE  Nat \subseteq T
<1> SUFFICES ASSUME Nat \ T # {} PROVE FALSE
  OBVIOUS
<1>1. PICK n \in Nat \ T : \A k \in Nat \ T : n <= k
  <2>1. Nat \ T \subseteq Nat
    OBVIOUS
  <2> QED
    BY <2>1, LeastNumber
<1>2. n # 0 /\ n - 1 \in Nat
  BY <1>1
<1>3. n - 1 \in T
  BY <1>1, <1>2
<1> QED
  BY <1>1, <1>2, <1>3

\* The greatest of some positions.
LEMMA LastPosition ==
  ASSUME NEW n \in Nat, NEW s \in SUBSET (1 .. n), s # {}
  PROVE  Max(s) \in s /\ \A i \in s : i <= Max(s)
<1>1. PICK D : D = {d \in Nat : n - d \in s}
  OBVIOUS
<1>2. \A i \in s : n - i \in D
  BY <1>1
<1>3. D \subseteq Nat /\ D # {}
  BY <1>1, <1>2
<1>4. PICK d \in D : \A e \in D : d <= e
  BY <1>3, LeastNumber
<1>5. n - d \in s
  BY <1>1, <1>4
<1>6. \A k \in s : k <= n - d
  <2>1. \A k \in s : d <= n - k /\ k \in Int /\ d \in Int
    BY <1>2, <1>3, <1>4
  <2> QED
    BY <2>1
<1>7. \E x \in s : \A y \in s : x >= y
  BY <1>5, <1>6
<1>8. PICK x : x = CHOOSE z \in s : \A y \in s : z >= y
  OBVIOUS
<1>9. x \in s /\ \A y \in s : x >= y
  BY <1>7, <1>8
<1> QED
  BY <1>8, <1>9 DEF Max

\* A function of the sets of positions up to n whose last position is done last:
\* step[k] is what is done at position k.
Iterates(it, n, A, base, step) ==
  /\ it \in [SUBSET (1 .. n) -> A]
  /\ \A s \in SUBSET (1 .. n) :
       it[s] = IF s = {} THEN base ELSE step[Max(s)][it[s \ {Max(s)}]]

\* The recursion behind a fold over the positions 1 .. n has a solution.
LEMMA Iteration ==
  ASSUME NEW n \in Nat, NEW A, NEW base \in A, NEW step \in [1 .. n -> [A -> A]]
  PROVE  \E it : Iterates(it, n, A, base, step)
<1> DEFINE P(k) == k <= n => \E it : Iterates(it, k, A, base, step)
<1>1. P(0)
  <2>1. PICK it : it = [s \in SUBSET (1 .. 0) |-> base]
    OBVIOUS
  <2>2. 1 .. 0 = {}
    OBVIOUS
  <2>3. Iterates(it, 0, A, base, step)
    BY <2>1, <2>2 DEF Iterates
  <2> QED
    BY <2>3
<1>2. ASSUME NEW k \in Nat, P(k) PROVE P(k + 1)
  <2> SUFFICES ASSUME k + 1 <= n
               PROVE  \E it : Iterates(it, k + 1, A, base, step)
    OBVIOUS
  <2>1. PICK it \in [SUBSET (1 .. k) -> A] :
          \A s \in SUBSET (1 .. k) :
            it[s] = IF s = {} THEN base ELSE step[Max(s)][it[s \ {Max(s)}]]
    <3>1. PICK it : Iterates(it, k, A, base, step)
      BY <1>2
    <3> QED
      BY <3>1 DEF Iterates
  <2>2. PICK new : new = [s \in SUBSET (1 .. k + 1) |->
                            IF k + 1 \in s THEN step[k + 1][it[s \ {k + 1}]] ELSE it[s]]
    OBVIOUS
  <2>3. step[k + 1] \in [A -> A]
    OBVIOUS
  <2>4. ASSUME NEW s \in SUBSET (1 .. k + 1)
        PROVE  /\ k + 1 \in s => s \ {k + 1} \in SUBSET (1 .. k)
               /\ k + 1 \notin s => s \in SUBSET (1 .. k)
    OBVIOUS
  <2>5. new \in [SUBSET (1 .. k + 1) -> A]
    BY <2>1, <2>2, <2>3, <2>4
  <2>6. ASSUME NEW s \in SUBSET (1 .. k + 1), s # {}
        PROVE  Max(s) \in s /\ \A i \in s : i <= Max(s)
    <3>1. k + 1 \in Nat
      OBVIOUS
    <3> QED
      BY <2>6, <3>1, LastPosition
  <2>7. ASSUME NEW s \in SUBSET (1 .. k) PROVE new[s] = it[s]
    <3>1. s \in SUBSET (1 .. k + 1) /\ k + 1 \notin s
      OBVIOUS
    <3> QED
      BY <2>2, <3>1
  <2>8. ASSUME NEW s \in SUBSET (1 .. k + 1)
        PROVE  new[s] = IF s = {} THEN base ELSE step[Max(s)][new[s \ {Max(s)}]]
    <3>1. CASE k + 1 \in s
      <4>1. Max(s) \in s /\ \A i \in s : i <= Max(s)
        BY <2>6, <3>1
      <4>2. Max(s) \in 1 .. k + 1
        BY <4>1
      <4>3. Max(s) = k + 1
        BY <3>1, <4>1, <4>2
      <4>4. new[s] = step[k + 1][it[s \ {k + 1}]]
        BY <2>2, <3>1
      <4>5. new[s \ {k + 1}] = it[s \ {k + 1}]
        BY <2>4, <2>7, <3>1
      <4> QED
        BY <3>1, <4>3, <4>4, <4>5
    <3>2. CASE k + 1 \notin s
      <4>1. s \in SUBSET (1 .. k) /\ s \ {Max(s)} \in SUBSET (1 .. k)
        BY <2>4, <3>2
      <4>2. new[s] = it[s] /\ new[s \ {Max(s)}] = it[s \ {Max(s)}]
        BY <2>7, <4>1
      <4>3. it[s] = IF s = {} THEN base ELSE step[Max(s)][it[s \ {Max(s)}]]
        BY <2>1, <4>1
      <4> QED
        BY <4>2, <4>3
    <3> QED
      BY <3>1, <3>2
  <2>9. Iterates(new, k + 1, A, base, step)
    BY <2>5, <2>8 DEF Iterates
  <2> QED
    BY <2>9
<1> DEFINE T == {k \in Nat : P(k)}
<1> HIDE DEF P
<1>3. 0 \in T /\ \A k \in Nat : k \in T => k + 1 \in T
  BY <1>1, <1>2
<1>4. n \in T
  <2> HIDE DEF T
  <2> QED
    BY <1>3, AllNumbers
<1>5. P(n)
  BY <1>4
<1>6. n <= n
  OBVIOUS
<1> QED
  BY <1>5, <1>6, Zenon DEF P

\* What the positions 1 .. k have come to, for a recursion that ends with the
\* last position of a set.
LEMMA FirstPositions ==
  ASSUME NEW k \in Nat, k # 0
  PROVE  Max(1 .. k) = k /\ (1 .. k) \ {k} = 1 .. k - 1 /\ 1 .. k # {}
<1>1. k \in 1 .. k
  OBVIOUS
<1>2. 1 .. k \in SUBSET (1 .. k) /\ 1 .. k # {}
  BY <1>1
<1>3. Max(1 .. k) \in 1 .. k /\ \A i \in 1 .. k : i <= Max(1 .. k)
  BY <1>2, LastPosition
<1>4. Max(1 .. k) = k
  BY <1>1, <1>3
<1>5. \A i : i \in (1 .. k) \ {k} <=> i \in 1 .. k - 1
  OBVIOUS
<1>6. (1 .. k) \ {k} = 1 .. k - 1
  BY <1>5, Zenon
<1> QED
  BY <1>2, <1>4, <1>6

\* Induction over the positions 0 .. n.
LEMMA UpTo ==
  ASSUME NEW n \in Nat, NEW T, 0 \in T, \A k \in 1 .. n : k - 1 \in T => k \in T
  PROVE  0 .. n \subseteq T
<1>1. PICK U : U = {k \in Nat : k <= n => k \in T}
  OBVIOUS
<1>2. 0 \in U
  BY <1>1
<1>3. ASSUME NEW k \in Nat, k \in U PROVE k + 1 \in U
  <2>1. k + 1 <= n => k + 1 \in 1 .. n /\ k \in T /\ (k + 1) - 1 = k
    BY <1>1, <1>3
  <2>2. k + 1 <= n => k + 1 \in T
    BY <2>1
  <2> QED
    BY <1>1, <2>2
<1>4. Nat \subseteq U
  BY <1>2, <1>3, AllNumbers
<1> QED
  BY <1>1, <1>4

-----------------------------------------------------------------------------
(***************************************************************************)
(* The history given to the model.                                         *)
(***************************************************************************)

\* The newest j rows of a history, by position.
LEMMA Newest ==
  ASSUME NEW S, NEW rows \in Seq(S), NEW j \in 0 .. Len(rows)
  PROVE  /\ LastOf(rows, j) \in Seq(S) /\ Len(LastOf(rows, j)) = j
         /\ DOMAIN LastOf(rows, j) = 1 .. j
         /\ \A i \in 1 .. j : LastOf(rows, j)[i] = rows[Len(rows) - j + i]
<1>1. CASE Len(rows) <= j
  <2>1. LastOf(rows, j) = rows /\ Len(rows) = j
    BY <1>1 DEF LastOf
  <2>2. \A i \in 1 .. j : Len(rows) - j + i = i
    BY <2>1
  <2> QED
    BY <2>1, <2>2, LenProperties
<1>2. CASE ~ Len(rows) <= j
  <2>1. PICK m \in Int : m = Len(rows) - j + 1
    OBVIOUS
  <2>2. PICK n \in Nat : n = Len(rows)
    OBVIOUS
  <2>3. m <= n + 1 /\ n - m + 1 = j /\ 1 <= m
    BY <1>2, <2>1, <2>2
  <2>4. LastOf(rows, j) = SubSeq(rows, m, n)
    BY <1>2, <2>1, <2>2 DEF LastOf
  <2>5. \A i \in m .. n : rows[i] \in S
    BY <2>2, <2>3, ElementOfSeq
  <2>6. /\ SubSeq(rows, m, n) \in Seq(S)
        /\ Len(SubSeq(rows, m, n)) = IF m <= n THEN n - m + 1 ELSE 0
        /\ \A i \in 1 .. n - m + 1 : SubSeq(rows, m, n)[i] = rows[m + i - 1]
    BY <2>5, SubSeqProperties
  <2>7. Len(SubSeq(rows, m, n)) = j
    BY <2>3, <2>6
  <2>8. \A i \in 1 .. j : m + i - 1 = Len(rows) - j + i
    BY <2>1
  <2>9. DOMAIN SubSeq(rows, m, n) = 1 .. j
    BY <2>6, <2>7, LenProperties
  <2>10. \A i \in 1 .. j : SubSeq(rows, m, n)[i] = rows[Len(rows) - j + i]
    BY <2>3, <2>6, <2>8
  <2> QED
    BY <2>4, <2>6, <2>7, <2>9, <2>10
<1> QED
  BY <1>1, <1>2

\* One more of the newest rows goes in front.
LEMMA OneMore ==
  ASSUME NEW S, NEW rows \in Seq(S), NEW j \in 0 .. Len(rows) - 1
  PROVE  LastOf(rows, j + 1) = <<rows[Len(rows) - j]>> \o LastOf(rows, j)
<1>1. PICK n : n = Len(rows)
  OBVIOUS
<1>2. n \in Nat /\ j \in Nat /\ j \in 0 .. n /\ j + 1 \in 0 .. n /\ n - j \in 1 .. n
  BY <1>1
<1>3. rows[n - j] \in S
  BY <1>1, <1>2, ElementOfSeq
<1>4. PICK one : one = <<rows[n - j]>>
  OBVIOUS
<1>5. one \in Seq(S) /\ Len(one) = 1 /\ one[1] = rows[n - j]
  BY <1>3, <1>4
<1>6. PICK t : t = LastOf(rows, j)
  OBVIOUS
<1>7. t \in Seq(S) /\ Len(t) = j /\ \A i \in 1 .. j : t[i] = rows[n - j + i]
  BY <1>1, <1>2, <1>6, Newest
<1>8. PICK u : u = LastOf(rows, j + 1)
  OBVIOUS
<1>9. u \in Seq(S) /\ Len(u) = j + 1 /\ \A i \in 1 .. j + 1 : u[i] = rows[n - (j + 1) + i]
  BY <1>1, <1>2, <1>8, Newest
<1>10. PICK v : v = one \o t
  OBVIOUS
<1>11. /\ v \in Seq(S) /\ Len(v) = Len(one) + Len(t)
       /\ \A i \in 1 .. Len(one) + Len(t) : v[i] = IF i <= Len(one) THEN one[i] ELSE t[i - Len(one)]
  BY <1>5, <1>7, <1>10, ConcatProperties
<1>12. Len(v) = j + 1 /\ \A i \in 1 .. j + 1 : v[i] = IF i <= 1 THEN one[i] ELSE t[i - 1]
  <2>1. Len(one) + Len(t) = j + 1
    BY <1>2, <1>5, <1>7
  <2> QED
    BY <1>5, <1>11, <2>1
<1>13. ASSUME NEW i \in 1 .. j + 1 PROVE u[i] = v[i]
  <2>1. CASE i = 1
    <3>1. v[i] = rows[n - j]
      BY <1>5, <1>12, <2>1
    <3>2. n - (j + 1) + i = n - j
      BY <1>2, <2>1
    <3> QED
      BY <1>9, <3>1, <3>2
  <2>2. CASE i > 1
    <3>1. i - 1 \in 1 .. j /\ n - j + (i - 1) = n - (j + 1) + i
      BY <1>2, <2>2
    <3>2. t[i - 1] = rows[n - j + (i - 1)]
      BY <1>7, <3>1
    <3>3. v[i] = t[i - 1]
      BY <1>12, <2>2
    <3> QED
      BY <1>9, <3>1, <3>2, <3>3
  <2> QED
    BY <1>2, <2>1, <2>2
<1>14. u = v
  BY <1>9, <1>11, <1>12, <1>13, SeqEqual
<1> QED
  BY <1>1, <1>4, <1>6, <1>8, <1>10, <1>14

\* The newest of the newest.
LEMMA NewestOfNewest ==
  ASSUME NEW S, NEW rows \in Seq(S), NEW a \in Nat, NEW b \in Nat, b <= a
  PROVE  LastOf(LastOf(rows, a), b) = LastOf(rows, b)
<1>1. CASE Len(rows) <= a
  BY <1>1 DEF LastOf
<1>2. CASE ~ Len(rows) <= a
  <2>1. a \in 0 .. Len(rows) /\ b \in 0 .. Len(rows) /\ Len(rows) \in Nat
    BY <1>2
  <2>2. PICK t : t = LastOf(rows, a)
    OBVIOUS
  <2>3. t \in Seq(S) /\ Len(t) = a /\ \A i \in 1 .. a : t[i] = rows[Len(rows) - a + i]
    BY <2>1, <2>2, Newest
  <2>4. PICK u : u = LastOf(t, b)
    OBVIOUS
  <2>5. b \in 0 .. Len(t)
    BY <2>3
  <2>6. u \in Seq(S) /\ Len(u) = b /\ \A i \in 1 .. b : u[i] = t[Len(t) - b + i]
    BY <2>3, <2>4, <2>5, Newest
  <2>7. PICK v : v = LastOf(rows, b)
    OBVIOUS
  <2>8. v \in Seq(S) /\ Len(v) = b /\ \A i \in 1 .. b : v[i] = rows[Len(rows) - b + i]
    BY <2>1, <2>7, Newest
  <2>9. \A i \in 1 .. b : a - b + i \in 1 .. a /\ Len(rows) - a + (a - b + i) = Len(rows) - b + i
    BY <2>1
  <2>10. \A i \in 1 .. b : u[i] = v[i]
    BY <2>3, <2>6, <2>8, <2>9
  <2>11. u = v
    BY <2>6, <2>8, <2>10, SeqEqual
  <2> QED
    BY <2>2, <2>4, <2>7, <2>11
<1> QED
  BY <1>1, <1>2

\* The tokens of a history are added up row by row: sum[k] is the cost of its first k
\* rows.
LEMMA TotalCostRun ==
  ASSUME NEW S, NEW rows \in Seq(S)
  PROVE  \E sum \in [0 .. Len(rows) -> Nat] :
           /\ sum[0] = 0
           /\ \A k \in 1 .. Len(rows) : sum[k] = sum[k - 1] + Cost(rows[k])
           /\ TotalCost(rows) = sum[Len(rows)]
<1>1. PICK n \in Nat : n = Len(rows) /\ DOMAIN rows = 1 .. n
  OBVIOUS
<1>2. PICK cost : cost = [k \in 1 .. n |-> Cost(rows[k])]
  OBVIOUS
<1>3. \A k \in 1 .. n : Cost(rows[k]) \in Nat
  BY AnsweringAssumption DEF Cost, count_tokens, MessageOverhead
<1>4. PICK step : step = [k \in 1 .. n |-> [a \in Nat |-> a + Cost(rows[k])]]
  OBVIOUS
<1>5. step \in [1 .. n -> [Nat -> Nat]]
  BY <1>3, <1>4
<1>6. PICK it \in [SUBSET (1 .. n) -> Nat] : \A s \in SUBSET (1 .. n) :
          it[s] = IF s = {} THEN 0 ELSE step[Max(s)][it[s \ {Max(s)}]]
  <2>1. 0 \in Nat
    OBVIOUS
  <2>2. PICK it : Iterates(it, n, Nat, 0, step)
    BY <1>5, <2>1, Iteration
  <2> QED
    BY <2>2 DEF Iterates
<1>7. ASSUME NEW s \in SUBSET (1 .. n)
      PROVE  it[s] = IF s = {} THEN 0 ELSE it[s \ {Max(s)}] + Cost(rows[Max(s)])
  <2>1. CASE s # {}
    <3>1. Max(s) \in 1 .. n /\ it[s \ {Max(s)}] \in Nat
      BY <1>6, <2>1, LastPosition
    <3> QED
      BY <1>4, <1>6, <2>1, <3>1
  <2> QED
    BY <1>6, <2>1
<1>8. it = [s \in SUBSET DOMAIN rows |->
              IF s = {} THEN 0 ELSE it[s \ {Max(s)}] + Cost(rows[Max(s)])]
  BY <1>1, <1>6, <1>7
<1>9. PICK c : c = CHOOSE h : h = [s \in SUBSET DOMAIN rows |->
              IF s = {} THEN 0 ELSE h[s \ {Max(s)}] + Cost(rows[Max(s)])]
  OBVIOUS
<1>10. c = [s \in SUBSET DOMAIN rows |->
              IF s = {} THEN 0 ELSE c[s \ {Max(s)}] + Cost(rows[Max(s)])]
  BY <1>8, <1>9, Zenon
<1>11. TotalCost(rows) = c[DOMAIN rows]
  BY <1>9, Zenon DEF TotalCost, FoldLeft, MapThenFoldSet
<1>12. \A k \in 1 .. n : Max(1 .. k) = k /\ (1 .. k) \ {k} = 1 .. k - 1 /\ 1 .. k # {}
  BY FirstPositions
<1>13. \A k \in 1 .. n : 1 .. k \in SUBSET DOMAIN rows
  BY <1>1
<1>14. \A k \in 1 .. n : c[1 .. k] = c[1 .. k - 1] + Cost(rows[k])
  BY <1>10, <1>12, <1>13, Zenon
<1>15. c[1 .. 0] = 0
  <2>1. 1 .. 0 = {}
    OBVIOUS
  <2> QED
    BY <1>10, <2>1
<1>16. PICK sum : sum = [k \in 0 .. n |-> c[1 .. k]]
  OBVIOUS
<1>17. sum[0] = 0 /\ \A k \in 1 .. n : sum[k] = sum[k - 1] + Cost(rows[k])
  BY <1>14, <1>15, <1>16
<1>18. TotalCost(rows) = sum[n]
  BY <1>1, <1>11, <1>16
<1>19. sum \in [0 .. n -> Nat]
  <2>1. PICK T : T = {k \in 0 .. n : sum[k] \in Nat}
    OBVIOUS
  <2>2. 0 \in T
    BY <1>17, <2>1
  <2>3. \A k \in 1 .. n : k - 1 \in T => k \in T
    BY <1>3, <1>17, <2>1
  <2>4. 0 .. n \subseteq T
    BY <2>2, <2>3, UpTo
  <2> QED
    BY <1>16, <2>1, <2>4
<1> QED
  BY <1>1, <1>17, <1>18, <1>19

\* No rows cost nothing.
LEMMA CostOfNone == TotalCost(<<>>) = 0
<1>1. PICK S : S = {0}
  OBVIOUS
<1>2. <<>> \in Seq(S) /\ Len(<<>>) = 0
  OBVIOUS
<1>3. PICK sum \in [0 .. Len(<<>>) -> Nat] : sum[0] = 0 /\ TotalCost(<<>>) = sum[Len(<<>>)]
  BY <1>2, TotalCostRun
<1> QED
  BY <1>2, <1>3

\* A row in front adds its cost.
LEMMA CostOfMore ==
  ASSUME NEW S, NEW row \in S, NEW rows \in Seq(S)
  PROVE  /\ TotalCost(rows) \in Nat /\ Cost(row) \in Nat
         /\ TotalCost(<<row>> \o rows) = Cost(row) + TotalCost(rows)
<1>1. PICK n : n = Len(rows)
  OBVIOUS
<1>2. n \in Nat /\ <<row>> \in Seq(S) /\ Len(<<row>>) = 1 /\ <<row>>[1] = row
  BY <1>1
<1>3. PICK more : more = <<row>> \o rows
  OBVIOUS
<1>4. /\ more \in Seq(S) /\ Len(more) = 1 + n
      /\ \A i \in 1 .. 1 + n : more[i] = IF i <= 1 THEN <<row>>[i] ELSE rows[i - 1]
  <2>1. /\ <<row>> \o rows \in Seq(S) /\ Len(<<row>> \o rows) = Len(<<row>>) + Len(rows)
        /\ \A i \in 1 .. Len(<<row>>) + Len(rows) :
             (<<row>> \o rows)[i] = IF i <= Len(<<row>>) THEN <<row>>[i] ELSE rows[i - Len(<<row>>)]
    BY <1>2, ConcatProperties
  <2> QED
    BY <1>1, <1>2, <1>3, <2>1
<1>5. more[1] = row /\ \A k \in 1 .. n : more[k + 1] = rows[k]
  <2>1. 1 \in 1 .. 1 + n /\ more[1] = <<row>>[1]
    BY <1>2, <1>4
  <2>2. ASSUME NEW k \in 1 .. n PROVE more[k + 1] = rows[k]
    <3>1. k + 1 \in 1 .. 1 + n /\ ~ k + 1 <= 1 /\ (k + 1) - 1 = k
      BY <1>2
    <3> QED
      BY <1>4, <3>1
  <2> QED
    BY <1>2, <2>1, <2>2
<1>6. PICK sum \in [0 .. Len(rows) -> Nat] :
        /\ sum[0] = 0
        /\ \A k \in 1 .. Len(rows) : sum[k] = sum[k - 1] + Cost(rows[k])
        /\ TotalCost(rows) = sum[Len(rows)]
  BY TotalCostRun
<1>7. PICK all \in [0 .. Len(more) -> Nat] :
        /\ all[0] = 0
        /\ \A k \in 1 .. Len(more) : all[k] = all[k - 1] + Cost(more[k])
        /\ TotalCost(more) = all[Len(more)]
  BY <1>4, TotalCostRun
<1>8. Cost(row) \in Nat
  BY AnsweringAssumption DEF Cost, count_tokens, MessageOverhead
<1>9. PICK T : T = {k \in 0 .. n : all[k + 1] = Cost(row) + sum[k]}
  OBVIOUS
<1>10. 0 \in T
  <2>1. 1 \in 1 .. Len(more) /\ all[1] = all[0] + Cost(more[1])
    BY <1>2, <1>4, <1>7
  <2>2. all[1] = Cost(row) + sum[0]
    BY <1>5, <1>6, <1>7, <1>8, <2>1
  <2> QED
    BY <1>2, <1>9, <2>2
<1>11. ASSUME NEW k \in 1 .. n, k - 1 \in T PROVE k \in T
  <2>1. k + 1 \in 1 .. Len(more) /\ k \in 1 .. Len(rows) /\ (k + 1) - 1 = k /\ (k - 1) + 1 = k
        /\ k \in 0 .. n /\ k - 1 \in 0 .. Len(rows)
    BY <1>1, <1>2, <1>4
  <2>2. all[k + 1] = all[k] + Cost(rows[k]) /\ sum[k] = sum[k - 1] + Cost(rows[k])
    BY <1>5, <1>6, <1>7, <2>1
  <2>3. all[k] = Cost(row) + sum[k - 1]
    BY <1>9, <1>11, <2>1
  <2>4. sum[k - 1] \in Nat
    BY <1>6, <2>1
  <2>5. Cost(rows[k]) \in Nat
    BY AnsweringAssumption DEF Cost, count_tokens, MessageOverhead
  <2>6. all[k + 1] = Cost(row) + sum[k]
    BY <1>8, <2>2, <2>3, <2>4, <2>5
  <2> QED
    BY <1>9, <2>1, <2>6
<1>12. n \in T
  <2>1. 0 .. n \subseteq T
    BY <1>2, <1>10, <1>11, UpTo
  <2> QED
    BY <1>2, <2>1
<1>13. TotalCost(more) = Cost(row) + TotalCost(rows)
  BY <1>1, <1>2, <1>4, <1>6, <1>7, <1>9, <1>12
<1>14. TotalCost(rows) \in Nat
  BY <1>6
<1> QED
  BY <1>3, <1>8, <1>13, <1>14

\* One step of trim_history, from a row to the one before it.
Trim(state, row) ==
  IF state.stop \/ (state.kept # <<>> /\ state.total + Cost(row) > MaxContextTokens)
  THEN [state EXCEPT !.stop = TRUE]
  ELSE [state EXCEPT !.kept = <<row>> \o @, !.total = @ + Cost(row)]
\* Where it starts ...
Untrimmed == [kept |-> <<>>, total |-> 0, stop |-> FALSE]

\* ... what it goes through, newest first, and what it may have.
Reversed(history) == Reverse(LastOf(history, MaxContextMessages))
States(S) == [kept : Seq(S), total : Nat, stop : BOOLEAN]

\* trim_history, unrolled: st[k] is what it has after the k newest rows.
LEMMA TrimRun ==
  ASSUME NEW S, NEW history, Reversed(history) \in Seq(S)
  PROVE  \E st : /\ st[0] = Untrimmed
                 /\ \A k \in 1 .. Len(Reversed(history)) :
                      st[k] = Trim(st[k - 1], Reversed(history)[k])
                 /\ trim_history(history) = st[Len(Reversed(history))].kept
<1>0. PICK rows \in Seq(S) : rows = Reversed(history)
  OBVIOUS
<1>1. PICK n \in Nat : n = Len(rows) /\ DOMAIN rows = 1 .. n
  OBVIOUS
<1>2. PICK A : A = States(S)
  OBVIOUS
<1>3. ASSUME NEW a \in A, NEW k \in 1 .. n PROVE Trim(a, rows[k]) \in A
  <2>1. rows[k] \in S /\ Cost(rows[k]) \in Nat
    BY <1>1, AnsweringAssumption DEF Cost, count_tokens, MessageOverhead
  <2>2. <<rows[k]>> \in Seq(S)
    BY <2>1
  <2>3. a.kept \in Seq(S) /\ a.total \in Nat
    BY <1>2 DEF States
  <2>4. PICK kept : kept = <<rows[k]>> \o a.kept
    OBVIOUS
  <2>5. kept \in Seq(S)
    BY <2>2, <2>3, <2>4, ConcatProperties
  <2>6. PICK total \in Nat : total = a.total + Cost(rows[k])
    BY <2>1, <2>3
  <2>7. Trim(a, rows[k]) \in {[a EXCEPT !.stop = TRUE], [a EXCEPT !.kept = kept, !.total = total]}
    BY <2>4, <2>6 DEF Trim
  <2>8. [a EXCEPT !.stop = TRUE] \in A /\ [a EXCEPT !.kept = kept, !.total = total] \in A
    BY <1>2, <2>5 DEF States
  <2> QED
    BY <2>7, <2>8
<1>4. PICK step : step = [k \in 1 .. n |-> [a \in A |-> Trim(a, rows[k])]]
  OBVIOUS
<1>5. step \in [1 .. n -> [A -> A]]
  BY <1>3, <1>4
<1>6. PICK it \in [SUBSET (1 .. n) -> A] : \A s \in SUBSET (1 .. n) :
          it[s] = IF s = {} THEN Untrimmed ELSE step[Max(s)][it[s \ {Max(s)}]]
  <2>1. Untrimmed \in A
    BY <1>2 DEF States, Untrimmed
  <2>2. PICK it : Iterates(it, n, A, Untrimmed, step)
    BY <1>5, <2>1, Iteration
  <2> QED
    BY <2>2 DEF Iterates
<1>7. ASSUME NEW s \in SUBSET (1 .. n)
      PROVE  it[s] = IF s = {} THEN Untrimmed ELSE Trim(it[s \ {Max(s)}], rows[Max(s)])
  <2>1. CASE s # {}
    <3>1. Max(s) \in 1 .. n /\ it[s \ {Max(s)}] \in A
      BY <1>6, <2>1, LastPosition
    <3> QED
      BY <1>4, <1>6, <2>1, <3>1
  <2> QED
    BY <1>6, <2>1
<1>8. it = [s \in SUBSET DOMAIN rows |->
              IF s = {} THEN Untrimmed ELSE Trim(it[s \ {Max(s)}], rows[Max(s)])]
  BY <1>1, <1>6, <1>7
<1>9. PICK c : c = CHOOSE h : h = [s \in SUBSET DOMAIN Reversed(history) |->
              IF s = {} THEN Untrimmed ELSE Trim(h[s \ {Max(s)}], Reversed(history)[Max(s)])]
  OBVIOUS
<1>10. c = [s \in SUBSET DOMAIN rows |->
              IF s = {} THEN Untrimmed ELSE Trim(c[s \ {Max(s)}], rows[Max(s)])]
  <2>1. it = [s \in SUBSET DOMAIN Reversed(history) |->
              IF s = {} THEN Untrimmed ELSE Trim(it[s \ {Max(s)}], Reversed(history)[Max(s)])]
    BY <1>0, <1>8
  <2>2. c = [s \in SUBSET DOMAIN Reversed(history) |->
              IF s = {} THEN Untrimmed ELSE Trim(c[s \ {Max(s)}], Reversed(history)[Max(s)])]
    BY <1>9, <2>1, Zenon
  <2> QED
    BY <1>0, <2>2
<1>11. trim_history(history) = c[DOMAIN rows].kept
  <2>1. trim_history(history) = c[DOMAIN Reversed(history)].kept
    BY <1>9, Zenon DEF trim_history, FoldLeft, MapThenFoldSet, Trim, Untrimmed, Reversed
  <2> QED
    BY <1>0, <2>1
<1>12. \A k \in 1 .. n : Max(1 .. k) = k /\ (1 .. k) \ {k} = 1 .. k - 1 /\ 1 .. k # {}
  BY FirstPositions
<1>13. \A k \in 1 .. n : 1 .. k \in SUBSET DOMAIN rows
  BY <1>1
<1>14. \A k \in 1 .. n : c[1 .. k] = Trim(c[1 .. k - 1], rows[k])
  BY <1>10, <1>12, <1>13, Zenon
<1>15. c[1 .. 0] = Untrimmed
  <2>1. 1 .. 0 = {}
    OBVIOUS
  <2> QED
    BY <1>10, <2>1
<1>16. PICK st : st = [k \in 0 .. n |-> c[1 .. k]]
  OBVIOUS
<1>17. st[0] = Untrimmed /\ \A k \in 1 .. n : st[k] = Trim(st[k - 1], rows[k])
  BY <1>14, <1>15, <1>16
<1>18. trim_history(history) = st[n].kept
  BY <1>1, <1>11, <1>16
<1> QED
  BY <1>0, <1>1, <1>17, <1>18

\* What has been kept of the newest rows H after a number of steps: the newest j,
\* and, once it has stopped, one more would not have fitted.
KeptAt(state, H, k) ==
  \E j \in 0 .. k :
    /\ state.kept = LastOf(H, j) /\ state.total = TotalCost(LastOf(H, j))
    /\ state.stop \in BOOLEAN
    /\ j > 1 => TotalCost(LastOf(H, j)) <= MaxContextTokens
    /\ ~ state.stop => j = k
    /\ state.stop => /\ j # 0 /\ j < Len(H)
                     /\ TotalCost(LastOf(H, j + 1)) > MaxContextTokens

\* One more row of H is looked at: it goes in front, or the budget ends.
LEMMA TrimStep ==
  ASSUME NEW S, NEW H \in Seq(S), NEW k \in 1 .. Len(H), NEW state,
         state = [kept |-> state.kept, total |-> state.total, stop |-> state.stop],
         KeptAt(state, H, k - 1)
  PROVE  KeptAt(Trim(state, H[Len(H) - k + 1]), H, k)
<1>1. PICK j \in 0 .. k - 1 :
        /\ state.kept = LastOf(H, j) /\ state.total = TotalCost(LastOf(H, j))
        /\ state.stop \in BOOLEAN
        /\ j > 1 => TotalCost(LastOf(H, j)) <= MaxContextTokens
        /\ ~ state.stop => j = k - 1
        /\ state.stop => /\ j # 0 /\ j < Len(H)
                         /\ TotalCost(LastOf(H, j + 1)) > MaxContextTokens
  BY DEF KeptAt
<1>2. k \in Nat /\ j \in Nat /\ Len(H) \in Nat /\ k - 1 \in 0 .. Len(H) - 1 /\ j \in 0 .. k
      /\ j \in 0 .. Len(H) /\ MaxContextTokens \in Nat
  BY AnsweringAssumption
<1>3. PICK row : row = H[Len(H) - k + 1]
  OBVIOUS
<1>4. CASE state.stop
  <2>1. PICK new : new = [state EXCEPT !.stop = TRUE]
    OBVIOUS
  <2>2. Trim(state, row) = new
    BY <1>4, <2>1 DEF Trim
  <2>3. new.kept = state.kept /\ new.total = state.total /\ new.stop = TRUE
    BY <2>1
  <2> QED
    BY <1>1, <1>2, <1>3, <1>4, <2>2, <2>3 DEF KeptAt
<1>5. CASE ~ state.stop
  <2>1. j = k - 1 /\ Len(H) - k + 1 = Len(H) - j /\ j + 1 = k
    BY <1>1, <1>2, <1>5
  <2>2. row \in S
    <3>1. Len(H) - k + 1 \in 1 .. Len(H)
      BY <1>2
    <3> QED
      BY <1>3, <3>1, ElementOfSeq
  <2>3. LastOf(H, k) = <<row>> \o LastOf(H, j)
    <3>1. j \in 0 .. Len(H) - 1
      BY <1>2, <2>1
    <3>2. LastOf(H, j + 1) = <<H[Len(H) - j]>> \o LastOf(H, j)
      BY <3>1, OneMore
    <3> QED
      BY <1>3, <2>1, <3>2
  <2>4. LastOf(H, j) \in Seq(S) /\ Len(LastOf(H, j)) = j
    BY <1>2, Newest
  <2>5. /\ TotalCost(LastOf(H, j)) \in Nat /\ Cost(row) \in Nat
        /\ TotalCost(LastOf(H, k)) = Cost(row) + TotalCost(LastOf(H, j))
    BY <2>2, <2>3, <2>4, CostOfMore
  <2>6. state.kept # <<>> <=> j # 0
    <3>1. LastOf(H, j) # <<>> <=> Len(LastOf(H, j)) # 0
      BY <2>4, EmptySeq
    <3> QED
      BY <1>1, <2>4, <3>1
  <2>7. CASE j # 0 /\ state.total + Cost(row) > MaxContextTokens
    <3>1. PICK new : new = [state EXCEPT !.stop = TRUE]
      OBVIOUS
    <3>2. Trim(state, row) = new
      BY <2>6, <2>7, <3>1 DEF Trim
    <3>3. new.kept = state.kept /\ new.total = state.total /\ new.stop = TRUE
      BY <3>1
    <3>4. TotalCost(LastOf(H, j + 1)) > MaxContextTokens
      BY <1>1, <1>2, <2>1, <2>5, <2>7
    <3>5. j < Len(H)
      BY <1>2, <2>1
    <3> QED
      BY <1>1, <1>2, <1>3, <2>7, <3>2, <3>3, <3>4, <3>5 DEF KeptAt
  <2>8. CASE ~ (j # 0 /\ state.total + Cost(row) > MaxContextTokens)
    <3>1. PICK new : new = [state EXCEPT !.kept = <<row>> \o state.kept,
                                         !.total = state.total + Cost(row)]
      OBVIOUS
    <3>2. Trim(state, row) = new
      BY <1>5, <2>6, <2>8, <3>1 DEF Trim
    <3>3. new.kept = LastOf(H, k) /\ new.total = state.total + Cost(row) /\ new.stop = FALSE
      BY <1>1, <1>5, <2>3, <3>1
    <3>4. new.total = TotalCost(LastOf(H, k))
      BY <1>1, <1>2, <2>5, <3>3
    <3>5. k > 1 => TotalCost(LastOf(H, k)) <= MaxContextTokens
      BY <1>1, <1>2, <2>1, <2>5, <2>8
    <3>6. k \in 0 .. k
      BY <1>2
    <3>7. KeptAt(new, H, k)
      BY <3>3, <3>4, <3>5, <3>6 DEF KeptAt
    <3> QED
      BY <1>3, <3>2, <3>7
  <2> QED
    BY <2>7, <2>8
<1> QED
  BY <1>1, <1>4, <1>5

\* trim_history keeps the newest rows of the last MaxContextMessages: at least one,
\* more only within the budget, and fewer only if the next would exceed it.
LEMMA TrimmedIsLongest ==
  ASSUME NEW S, NEW history \in Seq(S), NEW H, H = LastOf(history, MaxContextMessages)
  PROVE  \E j \in 0 .. Len(H) :
           /\ trim_history(history) = LastOf(H, j)
           /\ H # <<>> => j # 0
           /\ j > 1 => TotalCost(LastOf(H, j)) <= MaxContextTokens
           /\ j < Len(H) => TotalCost(LastOf(H, j + 1)) > MaxContextTokens
<1>1. H \in Seq(S)
  <2>1. MaxContextMessages \in Nat
    BY AnsweringAssumption
  <2>2. CASE Len(history) <= MaxContextMessages
    BY <2>2 DEF LastOf
  <2>3. CASE ~ Len(history) <= MaxContextMessages
    <3>1. MaxContextMessages \in 0 .. Len(history)
      BY <2>1, <2>3
    <3> QED
      BY <3>1, Newest
  <2> QED
    BY <2>2, <2>3
<1>2. PICK n : n = Len(H)
  OBVIOUS
<1>3. n \in Nat /\ DOMAIN H = 1 .. n /\ \A i \in 1 .. n : H[i] \in S
  BY <1>1, <1>2
<1>4. PICK rows : rows = Reversed(history)
  OBVIOUS
<1>5. rows = [i \in 1 .. n |-> H[n - i + 1]]
  BY <1>2, <1>4 DEF Reversed, Reverse
<1>6. \A i \in 1 .. n : n - i + 1 \in 1 .. n
  BY <1>3
<1>7. rows \in [1 .. n -> S]
  BY <1>3, <1>5, <1>6
<1>8. rows \in Seq(S) /\ Len(rows) = n
  BY <1>3, <1>7
<1>9. PICK st : /\ st[0] = Untrimmed
                /\ \A k \in 1 .. Len(rows) : st[k] = Trim(st[k - 1], rows[k])
                /\ trim_history(history) = st[Len(rows)].kept
  BY <1>4, <1>8, TrimRun
<1>10. PICK T : T = {k \in 0 .. n : /\ KeptAt(st[k], H, k)
                                    /\ st[k] = [kept |-> st[k].kept, total |-> st[k].total,
                                                stop |-> st[k].stop]}
  OBVIOUS
<1>11. 0 \in T
  <2>1. LastOf(H, 0) = <<>>
    <3>1. 0 \in 0 .. Len(H)
      BY <1>2, <1>3
    <3>2. LastOf(H, 0) \in Seq(S) /\ Len(LastOf(H, 0)) = 0
      BY <1>1, <3>1, Newest
    <3> QED
      BY <3>2, EmptySeq
  <2>2. st[0].kept = <<>> /\ st[0].total = 0 /\ st[0].stop = FALSE
    BY <1>9 DEF Untrimmed
  <2>3. KeptAt(st[0], H, 0)
    <3>1. TotalCost(LastOf(H, 0)) = 0 /\ 0 \in 0 .. 0
      BY <2>1, CostOfNone
    <3> SUFFICES \E j \in 0 .. 0 :
                   /\ st[0].kept = LastOf(H, j) /\ st[0].total = TotalCost(LastOf(H, j))
                   /\ st[0].stop \in BOOLEAN
                   /\ j > 1 => TotalCost(LastOf(H, j)) <= MaxContextTokens
                   /\ ~ st[0].stop => j = 0
                   /\ st[0].stop => /\ j # 0 /\ j < Len(H)
                                    /\ TotalCost(LastOf(H, j + 1)) > MaxContextTokens
      BY DEF KeptAt
    <3>2. ~ (0 > 1) /\ FALSE \in BOOLEAN
      OBVIOUS
    <3>3. /\ st[0].kept = LastOf(H, 0) /\ st[0].total = TotalCost(LastOf(H, 0))
          /\ st[0].stop \in BOOLEAN /\ ~ st[0].stop
      BY <2>1, <2>2, <3>1, <3>2, Zenon
    <3> WITNESS 0 \in 0 .. 0
    <3> QED
      BY <3>2, <3>3, Zenon
  <2>4. st[0] = [kept |-> st[0].kept, total |-> st[0].total, stop |-> st[0].stop]
    BY <1>9, <2>2 DEF Untrimmed
  <2> QED
    BY <1>3, <1>10, <2>3, <2>4
<1>12. ASSUME NEW k \in 1 .. n, k - 1 \in T PROVE k \in T
  <2>1. rows[k] = H[Len(H) - k + 1] /\ st[k] = Trim(st[k - 1], rows[k]) /\ k \in 0 .. n
    BY <1>2, <1>3, <1>5, <1>8, <1>9
  <2>2. /\ KeptAt(st[k - 1], H, k - 1)
        /\ st[k - 1] = [kept |-> st[k - 1].kept, total |-> st[k - 1].total,
                        stop |-> st[k - 1].stop]
    BY <1>10, <1>12
  <2>3. KeptAt(st[k], H, k)
    BY <1>1, <1>2, <2>1, <2>2, TrimStep
  <2>4. st[k] = [kept |-> st[k].kept, total |-> st[k].total, stop |-> st[k].stop]
    BY <2>1, <2>2 DEF Trim
  <2> QED
    BY <1>10, <2>1, <2>3, <2>4
<1>13. n \in T
  <2>1. 0 .. n \subseteq T
    BY <1>3, <1>11, <1>12, UpTo
  <2> QED
    BY <1>3, <2>1
<1>14. PICK j \in 0 .. n :
          /\ st[n].kept = LastOf(H, j)
          /\ st[n].stop \in BOOLEAN
          /\ j > 1 => TotalCost(LastOf(H, j)) <= MaxContextTokens
          /\ ~ st[n].stop => j = n
          /\ st[n].stop => j # 0 /\ TotalCost(LastOf(H, j + 1)) > MaxContextTokens
  BY <1>10, <1>13 DEF KeptAt
<1>15. H # <<>> => j # 0
  BY <1>1, <1>2, <1>3, <1>14, EmptySeq
<1>16. j < n => TotalCost(LastOf(H, j + 1)) > MaxContextTokens
  BY <1>3, <1>14
<1>17. trim_history(history) = LastOf(H, j)
  BY <1>8, <1>9, <1>14
<1> QED
  BY <1>2, <1>14, <1>15, <1>16, <1>17

\* The history of a turn, for any rows: the property HistoryIsLongestRecent.
LEMMA HistoryOfRows ==
  ASSUME NEW S, NEW rows \in Seq(S), NEW h, h = build_history(rows)
  PROVE  /\ IsSuffix(h, rows)
         /\ rows # <<>> => h # <<>>
         /\ Len(h) <= MaxContextMessages
         /\ Len(h) > 1 => TotalCost(h) <= MaxContextTokens
         /\ Len(h) < Len(rows) /\ Len(h) < MaxContextMessages
              => TotalCost(LastOf(rows, Len(h) + 1)) > MaxContextTokens
         /\ h \in Seq(S)
<1>1. PICK M \in Nat \ {0} : M = MaxContextMessages
  BY AnsweringAssumption
<1>2. PICK history : history = LastOf(rows, 2 * M)
  OBVIOUS
<1>3. history \in Seq(S)
  <2>1. 2 * M \in Nat /\ Len(rows) \in Nat
    BY <1>1
  <2>2. CASE Len(rows) <= 2 * M
    BY <1>2, <2>2 DEF LastOf
  <2>3. CASE ~ Len(rows) <= 2 * M
    <3>1. 2 * M \in 0 .. Len(rows)
      BY <2>1, <2>3
    <3> QED
      BY <1>2, <3>1, Newest
  <2> QED
    BY <2>2, <2>3
<1>4. PICK H : H = LastOf(history, M)
  OBVIOUS
<1>5. H = LastOf(rows, M)
  <2>1. M \in Nat /\ 2 * M \in Nat /\ M <= 2 * M
    BY <1>1
  <2> QED
    BY <1>2, <1>4, <2>1, NewestOfNewest
<1>6. PICK n : n = Len(rows)
  OBVIOUS
<1>7. PICK l \in 0 .. n : l = Smaller(n, M)
  BY <1>1, <1>6 DEF Smaller
<1>8. n \in Nat /\ l \in Nat /\ l <= M /\ (l < n => l = M)
  BY <1>1, <1>6, <1>7 DEF Smaller
<1>9. H = LastOf(rows, l) /\ H \in Seq(S) /\ Len(H) = l
  <2>1. H = LastOf(rows, l)
    <3>1. CASE n <= M
      <4>1. l = n \/ (l = M /\ l = n)
        BY <1>1, <1>7, <1>8, <3>1 DEF Smaller
      <4>2. LastOf(rows, M) = rows /\ LastOf(rows, n) = rows
        BY <1>6, <1>8, <3>1 DEF LastOf
      <4> QED
        BY <1>5, <4>1, <4>2
    <3>2. CASE ~ n <= M
      <4>1. l = M
        BY <1>1, <1>7, <1>8, <3>2 DEF Smaller
      <4> QED
        BY <1>5, <4>1
    <3> QED
      BY <3>1, <3>2
  <2>2. l \in 0 .. Len(rows)
    BY <1>6
  <2> QED
    BY <2>1, <2>2, Newest
<1>10. PICK j \in 0 .. Len(H) :
          /\ trim_history(history) = LastOf(H, j)
          /\ H # <<>> => j # 0
          /\ j > 1 => TotalCost(LastOf(H, j)) <= MaxContextTokens
          /\ j < Len(H) => TotalCost(LastOf(H, j + 1)) > MaxContextTokens
  BY <1>1, <1>3, <1>4, TrimmedIsLongest
<1>11. h = LastOf(H, j)
  BY <1>1, <1>2, <1>10 DEF build_history
<1>12. j \in Nat /\ j <= l /\ j \in 0 .. Len(rows)
  BY <1>6, <1>8, <1>9, <1>10
<1>13. h = LastOf(rows, j)
  BY <1>8, <1>9, <1>11, <1>12, NewestOfNewest
<1>14. h \in Seq(S) /\ Len(h) = j /\ \A i \in 1 .. j : h[i] = rows[n - j + i]
  <2>1. h \in Seq(S) /\ Len(h) = j /\ \A i \in 1 .. j : h[i] = rows[Len(rows) - j + i]
    BY <1>12, <1>13, Newest
  <2> QED
    BY <1>6, <2>1
<1>15. rows # <<>> => h # <<>>
  <2>1. ASSUME rows # <<>> PROVE j # 0
    <3>1. n # 0
      BY <1>6, <2>1, EmptySeq
    <3>2. l # 0
      BY <1>1, <1>8, <3>1
    <3> QED
      BY <1>9, <1>10, <3>2, EmptySeq
  <2> QED
    BY <1>14, <2>1, EmptySeq
<1>16. j < n /\ j < M => TotalCost(LastOf(rows, j + 1)) > MaxContextTokens
  <2>1. SUFFICES ASSUME j < n, j < M PROVE TotalCost(LastOf(rows, j + 1)) > MaxContextTokens
    OBVIOUS
  <2>2. j < l
    BY <1>8, <1>12, <2>1
  <2>3. LastOf(H, j + 1) = LastOf(rows, j + 1)
    <3>1. j + 1 \in Nat /\ j + 1 <= l
      BY <1>8, <1>12, <2>2
    <3> QED
      BY <1>8, <1>9, <3>1, NewestOfNewest
  <2> QED
    BY <1>9, <1>10, <2>2, <2>3
<1>17. IsSuffix(h, rows)
  <2>1. PICK a : a = Reverse(h)
    OBVIOUS
  <2>2. PICK b : b = Reverse(rows)
    OBVIOUS
  <2>3. a = [i \in 1 .. j |-> h[j - i + 1]]
    BY <1>14, <2>1 DEF Reverse
  <2>4. b = [i \in 1 .. n |-> rows[n - i + 1]]
    BY <1>6, <2>2 DEF Reverse
  <2>5. \A i \in 1 .. j : h[i] \in S
    BY <1>14, ElementOfSeq
  <2>6. \A i \in 1 .. n : rows[i] \in S
    BY <1>6, ElementOfSeq
  <2>7. a \in [1 .. j -> S]
    <3>1. \A i \in 1 .. j : j - i + 1 \in 1 .. j
      BY <1>12
    <3> QED
      BY <2>3, <2>5, <3>1
  <2>8. b \in [1 .. n -> S]
    <3>1. \A i \in 1 .. n : n - i + 1 \in 1 .. n
      BY <1>8
    <3> QED
      BY <2>4, <2>6, <3>1
  <2>9. a \in Seq(S) /\ Len(a) = j /\ b \in Seq(S) /\ Len(b) = n
    BY <1>8, <1>12, <2>7, <2>8
  <2>10. ASSUME NEW i \in 1 .. j PROVE a[i] = b[i]
    <3>1. j - i + 1 \in 1 .. j /\ n - j + (j - i + 1) = n - i + 1 /\ i \in 1 .. n
      BY <1>6, <1>8, <1>12
    <3> QED
      BY <1>14, <2>3, <2>4, <3>1
  <2>11. SubSeq(a, 1, j) = a
    BY <2>9, SubSeqFull
  <2>12. SubSeq(b, 1, j) = a
    <3>1. PICK c : c = SubSeq(b, 1, j)
      OBVIOUS
    <3>2. \A i \in 1 .. j : b[i] \in S
      BY <1>6, <1>8, <1>12, <2>8
    <3>3. /\ c \in Seq(S) /\ Len(c) = IF 1 <= j THEN j - 1 + 1 ELSE 0
          /\ \A i \in 1 .. j - 1 + 1 : c[i] = b[1 + i - 1]
      BY <1>12, <3>1, <3>2, SubSeqProperties
    <3>4. Len(c) = j /\ \A i \in 1 .. j : c[i] = b[i]
      <4>1. j - 1 + 1 = j /\ \A i \in 1 .. j : 1 + i - 1 = i
        BY <1>12
      <4> QED
        BY <1>12, <3>3, <4>1
    <3>5. c = a
      BY <2>9, <2>10, <3>3, <3>4, SeqEqual
    <3> QED
      BY <3>1, <3>5
  <2>13. IsPrefix(a, b)
    BY <1>6, <1>8, <1>12, <2>9, <2>11, <2>12 DEF IsPrefix
  <2> QED
    BY <2>1, <2>2, <2>13 DEF IsSuffix
<1>18. j <= MaxContextMessages
  BY <1>1, <1>8, <1>12
<1>19. j > 1 => TotalCost(h) <= MaxContextTokens
  BY <1>10, <1>11
<1> QED
  BY <1>1, <1>6, <1>12, <1>14, <1>15, <1>16, <1>17, <1>18, <1>19

\* The history given to the model is a suffix of the conversation, never empty
\* when the conversation is not, within both limits, and no longer one would be:
\* for every conversation and every cost of its rows (tokens.py,
\* trim_history; a newest row over the budget is kept alone).
THEOREM HistoryIsLongest == Spec => []HistoryIsLongestRecent
<1>1. TurnInvariant => HistoryIsLongestRecent
  <2> SUFFICES ASSUME TurnInvariant PROVE HistoryIsLongestRecent
    OBVIOUS
  <2>1. conv.rows \in Seq(RowType)
    BY DEF TurnInvariant, ConvIsTyped
  <2> QED
    BY <2>1, HistoryOfRows DEF HistoryIsLongestRecent
<1> QED
  BY <1>1, AnsweringConsistent, PTL

-----------------------------------------------------------------------------
(***************************************************************************)
(* What a file is cut into.                                                *)
(***************************************************************************)

\* A page with text in it.
ReadablePage == [text : SUBSET STRING, paragraphs : Seq(Nat \ {0}) \ {<<>>}]

\* What one page adds to those read before.
ReadPage(pages, p) == IF p.paragraphs # <<>> THEN Append(pages, p) ELSE pages

\* read_pages, unrolled: only pages with text are kept.
LEMMA ReadPagesRun ==
  ASSUME NEW content \in Contents
  PROVE  read_pages(content) \in Seq(ReadablePage)
<1>0. PICK R : R = [text : SUBSET STRING, paragraphs : Seq(Nat \ {0})]
  OBVIOUS
<1>1. PICK n \in Nat : n = Len(content) /\ content \in [1 .. n -> R]
  <2>1. content \in Seq(R)
    BY <1>0, ContentsAssumption
  <2> QED
    BY <2>1
<1>2. PICK A : A = Seq(ReadablePage)
  OBVIOUS
<1>3. ASSUME NEW a \in A, NEW k \in 1 .. n PROVE ReadPage(a, content[k]) \in A
  <2>1. content[k] \in [text : SUBSET STRING, paragraphs : Seq(Nat \ {0})]
    BY <1>0, <1>1
  <2>2. content[k].paragraphs # <<>> => content[k] \in ReadablePage
    BY <2>1 DEF ReadablePage
  <2>3. PICK p : p = content[k]
    OBVIOUS
  <2>4. p \in ReadablePage => Append(a, p) \in A
    BY <1>2
  <2> QED
    BY <2>2, <2>3, <2>4 DEF ReadPage
<1>4. PICK step : step = [k \in 1 .. n |-> [a \in A |-> ReadPage(a, content[k])]]
  OBVIOUS
<1>5. step \in [1 .. n -> [A -> A]]
  BY <1>3, <1>4
<1>6. PICK it \in [SUBSET (1 .. n) -> A] : \A s \in SUBSET (1 .. n) :
          it[s] = IF s = {} THEN <<>> ELSE step[Max(s)][it[s \ {Max(s)}]]
  <2>1. <<>> \in A
    BY <1>2
  <2>2. PICK it : Iterates(it, n, A, <<>>, step)
    BY <1>5, <2>1, Iteration
  <2> QED
    BY <2>2 DEF Iterates
<1>7. ASSUME NEW s \in SUBSET (1 .. n)
      PROVE  it[s] = IF s = {} THEN <<>> ELSE ReadPage(it[s \ {Max(s)}], content[Max(s)])
  <2>1. CASE s # {}
    <3>1. Max(s) \in 1 .. n /\ it[s \ {Max(s)}] \in A
      BY <1>6, <2>1, LastPosition
    <3> QED
      BY <1>4, <1>6, <2>1, <3>1
  <2> QED
    BY <1>6, <2>1
<1>8. it = [s \in SUBSET DOMAIN content |->
              IF s = {} THEN <<>> ELSE ReadPage(it[s \ {Max(s)}], content[Max(s)])]
  BY <1>1, <1>6, <1>7
<1>9. PICK c : c = CHOOSE h : h = [s \in SUBSET DOMAIN content |->
              IF s = {} THEN <<>> ELSE ReadPage(h[s \ {Max(s)}], content[Max(s)])]
  OBVIOUS
<1>10. c = [s \in SUBSET DOMAIN content |->
              IF s = {} THEN <<>> ELSE ReadPage(c[s \ {Max(s)}], content[Max(s)])]
  BY <1>8, <1>9, Zenon
<1>11. read_pages(content) = c[DOMAIN content]
  BY <1>9, Zenon DEF read_pages, FoldLeft, MapThenFoldSet, ReadPage
<1>12. \A k \in 1 .. n : Max(1 .. k) = k /\ (1 .. k) \ {k} = 1 .. k - 1 /\ 1 .. k # {}
  BY FirstPositions
<1>13. \A k \in 1 .. n : 1 .. k \in SUBSET DOMAIN content
  BY <1>1
<1>14. \A k \in 1 .. n : c[1 .. k] = ReadPage(c[1 .. k - 1], content[k])
  BY <1>10, <1>12, <1>13, Zenon
<1>15. c[1 .. 0] = <<>>
  <2>1. 1 .. 0 = {}
    OBVIOUS
  <2> QED
    BY <1>10, <2>1
<1>16. PICK T : T = {k \in 0 .. n : c[1 .. k] \in A}
  OBVIOUS
<1>17. 0 .. n \subseteq T
  <2>1. 0 \in T
    <3>1. <<>> \in A /\ 0 \in 0 .. n
      BY <1>2
    <3> QED
      BY <1>15, <1>16, <3>1
  <2>2. ASSUME NEW k \in 1 .. n, k - 1 \in T PROVE k \in T
    <3>1. c[1 .. k - 1] \in A /\ c[1 .. k] = ReadPage(c[1 .. k - 1], content[k])
      BY <1>14, <1>16, <2>2
    <3>2. c[1 .. k] \in A
      BY <1>3, <3>1
    <3> QED
      BY <1>16, <3>2
  <2> QED
    BY <2>1, <2>2, UpTo
<1> QED
  BY <1>1, <1>2, <1>11, <1>16, <1>17

\* Sequences put one behind the other.
LEMMA Flattened ==
  ASSUME NEW S, NEW seqs \in Seq(Seq(S))
  PROVE  /\ FlattenSeq(seqs) \in Seq(S)
         /\ seqs # <<>> /\ (\A i \in 1 .. Len(seqs) : seqs[i] # <<>>) => FlattenSeq(seqs) # <<>>
<1>1. PICK n \in Nat : n = Len(seqs) /\ DOMAIN seqs = 1 .. n /\ \A k \in 1 .. n : seqs[k] \in Seq(S)
  OBVIOUS
<1>2. CASE n = 0
  <2>1. seqs = <<>>
    BY <1>1, <1>2, EmptySeq
  <2>2. FlattenSeq(seqs) = seqs
    BY <1>1, <1>2 DEF FlattenSeq
  <2>3. <<>> \in Seq(S)
    OBVIOUS
  <2> QED
    BY <2>1, <2>2, <2>3
<1>3. CASE n # 0
  <2>1. PICK A : A = Seq(S)
    OBVIOUS
  <2>2. \A a \in A, k \in 1 .. n : a \o seqs[k] \in A
    BY <1>1, <2>1, ConcatProperties
  <2>3. PICK step : step = [k \in 1 .. n |-> [a \in A |-> a \o seqs[k]]]
    OBVIOUS
  <2>4. step \in [1 .. n -> [A -> A]]
    BY <2>2, <2>3
  <2>5. <<>> \in A
    BY <2>1
  <2>6. PICK it : Iterates(it, n, A, <<>>, step)
    BY <2>4, <2>5, Iteration
  <2>7. it \in [SUBSET (1 .. n) -> A] /\ \A s \in SUBSET (1 .. n) :
          it[s] = IF s = {} THEN <<>> ELSE step[Max(s)][it[s \ {Max(s)}]]
    BY <2>6 DEF Iterates
  <2>8. PICK f : f = [k \in 1 .. n |-> it[1 .. k]]
    OBVIOUS
  <2>9. \A k \in 1 .. n : f[k] \in A
    BY <2>7, <2>8
  <2>10. \A k \in 1 .. n : it[1 .. k] = it[1 .. k - 1] \o seqs[k]
    <3> SUFFICES ASSUME NEW k \in 1 .. n PROVE it[1 .. k] = it[1 .. k - 1] \o seqs[k]
      OBVIOUS
    <3>1. Max(1 .. k) = k /\ (1 .. k) \ {k} = 1 .. k - 1 /\ 1 .. k # {}
      BY FirstPositions
    <3>2. 1 .. k \in SUBSET (1 .. n) /\ 1 .. k - 1 \in SUBSET (1 .. n)
      OBVIOUS
    <3>3. it[1 .. k] = step[k][it[1 .. k - 1]] /\ it[1 .. k - 1] \in A
      BY <2>7, <3>1, <3>2
    <3> QED
      BY <2>3, <3>3
  <2>11. f[1] = seqs[1]
    <3>1. 1 .. 0 = {} /\ 1 \in 1 .. n /\ 1 - 1 = 0
      BY <1>3
    <3>2. it[1 .. 0] = <<>>
      BY <2>7, <3>1
    <3>3. seqs[1] \in Seq(S)
      BY <1>1, <3>1
    <3>4. <<>> \o seqs[1] = seqs[1]
      BY <3>3, ConcatEmptySeq
    <3> QED
      BY <2>8, <2>10, <3>1, <3>2, <3>4
  <2>12. \A k \in 1 .. n : k # 1 => f[k] = f[k - 1] \o seqs[k]
    <3> SUFFICES ASSUME NEW k \in 1 .. n, k # 1 PROVE f[k] = f[k - 1] \o seqs[k]
      OBVIOUS
    <3>1. k - 1 \in 1 .. n
      OBVIOUS
    <3>2. f[k] = it[1 .. k] /\ f[k - 1] = it[1 .. k - 1]
      BY <2>8, <3>1
    <3> QED
      BY <2>10, <3>2
  <2>13. f = [k \in 1 .. Len(seqs) |-> IF k = 1 THEN seqs[k] ELSE f[k - 1] \o seqs[k]]
    BY <1>1, <2>8, <2>11, <2>12
  <2>14. PICK c : c = CHOOSE h : h = [k \in 1 .. Len(seqs) |->
                                       IF k = 1 THEN seqs[k] ELSE h[k - 1] \o seqs[k]]
    OBVIOUS
  <2>15. c = [k \in 1 .. Len(seqs) |-> IF k = 1 THEN seqs[k] ELSE c[k - 1] \o seqs[k]]
    BY <2>13, <2>14, Zenon
  <2>16. FlattenSeq(seqs) = c[Len(seqs)]
    <3>1. Len(seqs) # 0
      BY <1>1, <1>3
    <3> QED
      BY <2>14, <3>1, Zenon DEF FlattenSeq
  <2>17. PICK T : T = {k \in 0 .. n : k # 0 => c[k] \in Seq(S) /\
                         ((\A i \in 1 .. n : seqs[i] # <<>>) => c[k] # <<>>)}
    OBVIOUS
  <2>18. 0 .. n \subseteq T
    <3>1. 0 \in T
      BY <2>17
    <3>2. ASSUME NEW k \in 1 .. n, k - 1 \in T PROVE k \in T
      <4>1. CASE k = 1
        BY <1>1, <2>15, <2>17, <4>1
      <4>2. CASE k # 1
        <5>0. k - 1 \in 1 .. n /\ seqs[k] \in Seq(S)
          BY <1>1, <4>2
        <5>1. k - 1 \in 1 .. n /\ c[k] = c[k - 1] \o seqs[k] /\ seqs[k] \in Seq(S)
          BY <1>1, <2>15, <4>2, <5>0
        <5>2. c[k - 1] \in Seq(S) /\ ((\A i \in 1 .. n : seqs[i] # <<>>) => c[k - 1] # <<>>)
          BY <2>17, <3>2, <5>1
        <5>3. c[k] \in Seq(S) /\ Len(c[k]) = Len(c[k - 1]) + Len(seqs[k])
          BY <5>1, <5>2, ConcatProperties
        <5>4. c[k - 1] # <<>> => c[k] # <<>>
          BY <5>1, <5>2, <5>3, EmptySeq
        <5> QED
          BY <2>17, <5>2, <5>3, <5>4
      <4> QED
        BY <4>1, <4>2
    <3> QED
      BY <3>1, <3>2, UpTo
  <2> QED
    BY <1>1, <1>3, <2>16, <2>17, <2>18
<1> QED
  BY <1>2, <1>3

\* The most tokens a chunk may have.
ChunkBound == ChunkMax + Overlap + SepLen

\* The overlap of two chunks is shorter than a chunk.
LEMMA OverlapBound == Overlap \in 0 .. ChunkMax - 1 /\ ChunkBound \in Nat
  BY KnowledgeAssumption DEF Overlap, Larger, Smaller, ChunkBound

\* The windows over a paragraph cover it: there is one, and each has a token.
LEMMA WindowsFit ==
  ASSUME NEW n \in Nat \ {0}, NEW size \in 1 .. ChunkMax, NEW step \in Nat \ {0}
  PROVE  windows(n, size, step) \in Seq(1 .. ChunkMax) /\ windows(n, size, step) # <<>>
<1>1. ChunkMax \in Nat
  BY KnowledgeAssumption
<1>2. PICK q : q = (n + step - 1) \div step
  OBVIOUS
<1>3. q \in Nat /\ q * step <= n + step - 1 /\ n + step - 1 < (q + 1) * step
  BY <1>2
<1>4. q # 0
  <2>1. ASSUME q = 0 PROVE FALSE
    <3>1. (q + 1) * step = step
      BY <2>1
    <3> QED
      BY <1>3, <3>1
  <2> QED
    BY <2>1
<1>5. ASSUME NEW i \in 1 .. q PROVE (i - 1) * step < n /\ (i - 1) * step \in Nat
  <2>1. i - 1 \in Nat /\ q - 1 \in Nat /\ i - 1 <= q - 1
    BY <1>3, <1>4
  <2>2. (i - 1) * step <= (q - 1) * step
    BY <2>1
  <2>3. (q - 1) * step = q * step - step
    BY <1>3
  <2>4. (i - 1) * step \in Nat
    BY <2>1
  <2>5. q * step \in Nat
    BY <1>3
  <2>6. PICK a \in Nat, b \in Nat : a = (i - 1) * step /\ b = q * step
    BY <2>4, <2>5
  <2>7. a <= b - step /\ b <= n + step - 1
    BY <1>3, <2>2, <2>3, <2>6
  <2> QED
    BY <2>4, <2>6, <2>7
<1>6. \A i \in 1 .. q : Smaller(size, n - (i - 1) * step) \in 1 .. ChunkMax
  <2> SUFFICES ASSUME NEW i \in 1 .. q PROVE Smaller(size, n - (i - 1) * step) \in 1 .. ChunkMax
    OBVIOUS
  <2>1. PICK a \in Nat : a = (i - 1) * step /\ a < n
    BY <1>5
  <2> QED
    BY <1>1, <2>1 DEF Smaller
<1>7. windows(n, size, step) \in [1 .. q -> 1 .. ChunkMax]
  BY <1>2, <1>6 DEF windows
<1>8. windows(n, size, step) \in Seq(1 .. ChunkMax) /\ Len(windows(n, size, step)) = q
  <2>1. PICK w : w = windows(n, size, step)
    OBVIOUS
  <2>2. PICK S : S = 1 .. ChunkMax
    OBVIOUS
  <2>3. w \in [1 .. q -> S] /\ q \in Nat
    BY <1>3, <1>7, <2>1, <2>2
  <2>4. w \in Seq(S) /\ Len(w) = q
    BY <2>3
  <2> QED
    BY <2>1, <2>2, <2>4
<1> QED
  BY <1>4, <1>8, EmptySeq

\* A paragraph becomes one unit or more, none longer than a chunk.
LEMMA UnitsFit ==
  ASSUME NEW n \in Nat \ {0}
  PROVE  Units(n) \in Seq(1 .. ChunkMax) /\ Units(n) # <<>>
<1>1. ChunkMax \in Nat \ {0} /\ SepLen \in Nat /\ Overlap \in 0 .. ChunkMax - 1
  BY KnowledgeAssumption, OverlapBound
<1>2. CASE n <= ChunkMax
  <2>1. Units(n) = <<n>> /\ n \in 1 .. ChunkMax
    BY <1>1, <1>2 DEF Units
  <2> QED
    BY <2>1
<1>3. CASE ~ n <= ChunkMax
  <2>1. PICK size \in 1 .. ChunkMax : size = Larger(1, ChunkMax - Overlap - SepLen)
    BY <1>1 DEF Larger
  <2>2. PICK step \in Nat \ {0} : step = Larger(1, size - Overlap)
    BY <1>1 DEF Larger
  <2>3. Units(n) = windows(n, size, step)
    BY <1>3, <2>1, <2>2 DEF Units
  <2> QED
    BY <2>3, WindowsFit
<1> QED
  BY <1>2, <1>3

\* Nothing packed yet, and what may have been packed.
Unpacked == [chunks |-> <<>>, current |-> 0]
Packings == [chunks : Seq(1 .. ChunkBound), current : 0 .. ChunkBound]

\* One more unit is packed: the chunk it goes into is not empty any more.
LEMMA PackStep ==
  ASSUME NEW state \in Packings, NEW unit \in 1 .. ChunkMax
  PROVE  Pack(state, unit) \in Packings /\ Pack(state, unit).current > 0
<1>1. /\ ChunkMax \in Nat \ {0} /\ SepLen \in Nat /\ Overlap \in 0 .. ChunkMax - 1
      /\ ChunkBound = ChunkMax + Overlap + SepLen
  BY KnowledgeAssumption, OverlapBound DEF ChunkBound
<1>2. PICK current \in 0 .. ChunkBound : current = state.current
  BY DEF Packings
<1>3. PICK full \in BOOLEAN : full = (current > 0 /\ current + SepLen + unit > ChunkMax)
  OBVIOUS
<1>4. PICK head : head = IF full THEN Smaller(Overlap, current) ELSE current
  OBVIOUS
<1>5. PICK next : next = IF head > 0 THEN head + SepLen + unit ELSE unit
  OBVIOUS
<1>6. head \in 0 .. ChunkBound /\ (full => head <= Overlap)
  BY <1>1, <1>2, <1>3, <1>4 DEF Smaller
<1>7. next \in 1 .. ChunkBound
  <2>1. CASE full
    <3>1. next \in {unit, head + SepLen + unit} /\ head \in Nat /\ head <= Overlap
      BY <1>1, <1>5, <1>6, <2>1
    <3> QED
      BY <1>1, <3>1
  <2>2. CASE ~ full
    <3>0. head = current /\ ~ (current > 0 /\ current + SepLen + unit > ChunkMax)
      BY <1>3, <1>4, <2>2
    <3>1. head = current /\ (current > 0 => current + SepLen + unit <= ChunkMax)
      BY <1>1, <1>2, <3>0
    <3>2. CASE current > 0
      BY <1>1, <1>2, <1>5, <3>1, <3>2
    <3>3. CASE ~ current > 0
      BY <1>1, <1>2, <1>5, <3>1, <3>3
    <3> QED
      BY <3>2, <3>3
  <2> QED
    BY <2>1, <2>2
<1>8. PICK chunks : chunks = IF full THEN Append(state.chunks, current) ELSE state.chunks
  OBVIOUS
<1>9. chunks \in Seq(1 .. ChunkBound)
  <2>1. state.chunks \in Seq(1 .. ChunkBound)
    BY DEF Packings
  <2>2. CASE full
    <3>1. current > 0
      BY <1>3, <2>2
    <3>2. current \in 1 .. ChunkBound
      BY <1>1, <1>2, <3>1
    <3> QED
      BY <1>8, <2>1, <2>2, <3>2
  <2>3. CASE ~ full
    BY <1>8, <2>1, <2>3
  <2> QED
    BY <2>2, <2>3
<1>10. Pack(state, unit) = [chunks |-> chunks, current |-> next]
  BY <1>2, <1>3, <1>4, <1>5, <1>8 DEF Pack
<1>11. next \in 0 .. ChunkBound /\ next > 0
  BY <1>1, <1>7
<1> QED
  BY <1>9, <1>10, <1>11 DEF Packings

\* Everything packed, chunk by chunk.
Packed(units) == FoldLeft(Pack, Unpacked, units)

\* The units of a text are packed into chunks that keep the bound; the last chunk is
\* empty only when there are no units.
LEMMA PackRun ==
  ASSUME NEW units \in Seq(1 .. ChunkMax)
  PROVE  Packed(units) \in Packings /\ (units # <<>> => Packed(units).current > 0)
<1>0. PICK S : S = 1 .. ChunkMax
  OBVIOUS
<1>1. PICK n \in Nat : /\ n = Len(units) /\ DOMAIN units = 1 .. n
                      /\ \A k \in 1 .. n : units[k] \in S
  <2>1. units \in Seq(S)
    BY <1>0
  <2> QED
    BY <2>1
<1>2. PICK A : A = Packings
  OBVIOUS
<1>3. \A a \in A, k \in 1 .. n : Pack(a, units[k]) \in A /\ Pack(a, units[k]).current > 0
  BY <1>0, <1>1, <1>2, PackStep
<1>4. PICK step : step = [k \in 1 .. n |-> [a \in A |-> Pack(a, units[k])]]
  OBVIOUS
<1>5. step \in [1 .. n -> [A -> A]]
  BY <1>3, <1>4
<1>6. Unpacked \in A
  <2>1. 0 \in 0 .. ChunkBound
    BY OverlapBound
  <2> QED
    BY <1>2, <2>1 DEF Packings, Unpacked
<1>7. PICK it \in [SUBSET (1 .. n) -> A] : \A s \in SUBSET (1 .. n) :
          it[s] = IF s = {} THEN Unpacked ELSE step[Max(s)][it[s \ {Max(s)}]]
  <2>1. PICK it : Iterates(it, n, A, Unpacked, step)
    BY <1>5, <1>6, Iteration
  <2> QED
    BY <2>1 DEF Iterates
<1>8. ASSUME NEW s \in SUBSET (1 .. n)
      PROVE  it[s] = IF s = {} THEN Unpacked ELSE Pack(it[s \ {Max(s)}], units[Max(s)])
  <2>1. CASE s # {}
    <3>1. Max(s) \in 1 .. n /\ it[s \ {Max(s)}] \in A
      BY <1>7, <2>1, LastPosition
    <3> QED
      BY <1>4, <1>7, <2>1, <3>1
  <2> QED
    BY <1>7, <2>1
<1>9. it = [s \in SUBSET DOMAIN units |->
              IF s = {} THEN Unpacked ELSE Pack(it[s \ {Max(s)}], units[Max(s)])]
  BY <1>1, <1>7, <1>8
<1>10. PICK c : c = CHOOSE h : h = [s \in SUBSET DOMAIN units |->
              IF s = {} THEN Unpacked ELSE Pack(h[s \ {Max(s)}], units[Max(s)])]
  OBVIOUS
<1>11. c = [s \in SUBSET DOMAIN units |->
              IF s = {} THEN Unpacked ELSE Pack(c[s \ {Max(s)}], units[Max(s)])]
  BY <1>9, <1>10, Zenon
<1>12. Packed(units) = c[DOMAIN units]
  BY <1>10, Zenon DEF Packed, FoldLeft, MapThenFoldSet
<1>13. \A k \in 1 .. n : Max(1 .. k) = k /\ (1 .. k) \ {k} = 1 .. k - 1 /\ 1 .. k # {}
  BY FirstPositions
<1>14. \A k \in 1 .. n : 1 .. k \in SUBSET DOMAIN units
  BY <1>1
<1>15. \A k \in 1 .. n : c[1 .. k] = Pack(c[1 .. k - 1], units[k])
  BY <1>11, <1>13, <1>14, Zenon
<1>16. c[1 .. 0] = Unpacked
  <2>1. 1 .. 0 = {}
    OBVIOUS
  <2> QED
    BY <1>11, <2>1
<1>17. PICK T : T = {k \in 0 .. n : c[1 .. k] \in A /\ (k # 0 => c[1 .. k].current > 0)}
  OBVIOUS
<1>18. 0 .. n \subseteq T
  <2>1. 0 \in T
    BY <1>6, <1>16, <1>17
  <2>2. ASSUME NEW k \in 1 .. n, k - 1 \in T PROVE k \in T
    <3>1. c[1 .. k - 1] \in A /\ c[1 .. k] = Pack(c[1 .. k - 1], units[k])
      BY <1>15, <1>17, <2>2
    <3>2. c[1 .. k] \in A /\ c[1 .. k].current > 0
      BY <1>3, <3>1
    <3> QED
      BY <1>17, <3>2
  <2> QED
    BY <2>1, <2>2, UpTo
<1>19. n \in T
  BY <1>18
<1>20. units # <<>> => n # 0
  BY <1>1, EmptySeq
<1> QED
  BY <1>1, <1>2, <1>12, <1>17, <1>19, <1>20

\* A page with text gives a chunk, and every chunk keeps the bound.
LEMMA ChunksOfText ==
  ASSUME NEW paragraphs \in Seq(Nat \ {0}), paragraphs # <<>>
  PROVE  chunk_text(paragraphs) \in Seq(1 .. ChunkBound) /\ chunk_text(paragraphs) # <<>>
<1>1. PICK seqs : seqs = [i \in DOMAIN paragraphs |-> Units(paragraphs[i])]
  OBVIOUS
<1>2. seqs \in Seq(Seq(1 .. ChunkMax)) /\ seqs # <<>> /\ \A i \in 1 .. Len(seqs) : seqs[i] # <<>>
  <2>1. PICK n \in Nat : n = Len(paragraphs) /\ paragraphs \in [1 .. n -> Nat \ {0}] /\ n # 0
    BY EmptySeq
  <2>2. \A i \in 1 .. n : seqs[i] \in Seq(1 .. ChunkMax) /\ seqs[i] # <<>>
    BY <1>1, <2>1, UnitsFit
  <2>3. PICK A : A = Seq(1 .. ChunkMax)
    OBVIOUS
  <2>4. seqs \in [1 .. n -> A]
    BY <1>1, <2>1, <2>2, <2>3
  <2>5. seqs \in Seq(A) /\ Len(seqs) = n
    BY <2>1, <2>4
  <2> QED
    BY <2>1, <2>2, <2>3, <2>5, EmptySeq
<1>3. PICK units : units = FlattenSeq(seqs)
  OBVIOUS
<1>4. units \in Seq(1 .. ChunkMax) /\ units # <<>>
  BY <1>2, <1>3, Flattened
<1>5. PICK packed : packed = Packed(units)
  OBVIOUS
<1>6. packed \in Packings /\ packed.current > 0
  BY <1>4, <1>5, PackRun
<1>7. chunk_text(paragraphs) = IF packed.current > 0 THEN Append(packed.chunks, packed.current)
                               ELSE packed.chunks
  BY <1>1, <1>3, <1>5, Zenon DEF chunk_text, Packed, Unpacked
<1>8. packed.chunks \in Seq(1 .. ChunkBound) /\ packed.current \in 1 .. ChunkBound
  BY <1>6, OverlapBound DEF Packings
<1>9. chunk_text(paragraphs) = Append(packed.chunks, packed.current)
  BY <1>6, <1>7
<1>10. Append(packed.chunks, packed.current) \in Seq(1 .. ChunkBound)
  BY <1>8
<1>11. /\ Len(Append(packed.chunks, packed.current)) = Len(packed.chunks) + 1
       /\ Len(packed.chunks) \in Nat
  BY <1>8
<1>12. Append(packed.chunks, packed.current) # <<>>
  <2>1. PICK t : t = Append(packed.chunks, packed.current)
    OBVIOUS
  <2>2. Len(t) # 0
    BY <1>11, <2>1
  <2>3. Len(<<>>) = 0
    OBVIOUS
  <2> QED
    BY <2>1, <2>2, <2>3
<1> QED
  BY <1>9, <1>10, <1>12

\* A document has chunks, and all keep the bound.
LEMMA ChunksFit ==
  ASSUME NEW pages \in Seq(ReadablePage), pages # <<>>
  PROVE  Chunks(pages) # {} /\ \A chunk \in Chunks(pages) : chunk.size \in 1 .. ChunkBound
<1>1. PICK n \in Nat : n = Len(pages) /\ pages \in [1 .. n -> ReadablePage] /\ n # 0
  BY EmptySeq
<1>2. ASSUME NEW p \in 1 .. n
      PROVE  /\ chunk_text(pages[p].paragraphs) \in Seq(1 .. ChunkBound)
             /\ chunk_text(pages[p].paragraphs) # <<>>
  <2>1. pages[p] \in ReadablePage
    BY <1>1
  <2>2. pages[p].paragraphs \in Seq(Nat \ {0}) /\ pages[p].paragraphs # <<>>
    BY <2>1 DEF ReadablePage
  <2> QED
    BY <2>2, ChunksOfText
<1>3. ASSUME NEW chunk \in Chunks(pages) PROVE chunk.size \in 1 .. ChunkBound
  <2>0. DOMAIN pages = 1 .. n
    BY <1>1
  <2>1. PICK p \in 1 .. n : \E i \in DOMAIN chunk_text(pages[p].paragraphs) :
          chunk = [page |-> p, part |-> i, size |-> chunk_text(pages[p].paragraphs)[i],
                   text |-> normalize_text(pages[p].text)]
    BY <1>3, <2>0 DEF Chunks
  <2>2. PICK sizes : sizes = chunk_text(pages[p].paragraphs)
    OBVIOUS
  <2>3. sizes \in Seq(1 .. ChunkBound)
    BY <1>2, <2>2
  <2>4. PICK i \in DOMAIN sizes : chunk.size = sizes[i]
    BY <2>1, <2>2
  <2>5. \A S : sizes \in Seq(S) => sizes[i] \in S
    BY <2>4
  <2> QED
    BY <2>3, <2>4, <2>5
<1>4. Chunks(pages) # {}
  <2>1. 1 \in 1 .. n
    BY <1>1
  <2>2. PICK sizes : sizes = chunk_text(pages[1].paragraphs)
    OBVIOUS
  <2>3. sizes \in Seq(1 .. ChunkBound) /\ sizes # <<>>
    BY <1>2, <2>1, <2>2
  <2>4. 1 \in DOMAIN sizes
    BY <2>3, EmptySeq
  <2>5. PICK of : of = [p \in DOMAIN pages |->
          {[page |-> p, part |-> i, size |-> chunk_text(pages[p].paragraphs)[i],
            text |-> normalize_text(pages[p].text)] : i \in DOMAIN chunk_text(pages[p].paragraphs)}]
    OBVIOUS
  <2>6. 1 \in DOMAIN pages
    BY <1>1, <2>1
  <2>7. of[1] # {}
    BY <2>2, <2>4, <2>5, <2>6
  <2>8. Chunks(pages) = UNION {of[p] : p \in DOMAIN pages}
    BY <2>5 DEF Chunks
  <2> QED
    BY <2>6, <2>7, <2>8
<1> QED
  BY <1>3, <1>4

-----------------------------------------------------------------------------
(***************************************************************************)
(* Documents, rows and limits.                                             *)
(***************************************************************************)

\* What staff may have put into the folder, what the script has read of it, and what
\* the index has.
IndexIsSound ==
  /\ \A s \in Sources : folder[s] \in Contents \cup {NoFile}
  /\ run.at \in {"read", "embed"} => run.hash \in Contents
  /\ run.at = "embed" => run.pages \in Seq(ReadablePage) /\ run.pages # <<>>
  /\ \A s \in Sources : DocumentOK(s)

\* The document that is written for a file has what DocumentOK asks for.
LEMMA SoundStep ==
  ASSUME IndexInvariant, IndexIsSound, [NextIndex]_indexVars
  PROVE  IndexIsSound'
<1>1. /\ run \in [at : {"idle", "file", "read", "embed", "done"}, force : BOOLEAN,
                  prune : BOOLEAN, todo : Seq(Sources), listed : SUBSET Sources,
                  hash : {run.hash}, pages : {run.pages}, result : {run.result},
                  quiet : BOOLEAN]
      /\ document = [s \in Sources |-> document[s]] /\ folder = [s \in Sources |-> folder[s]]
      /\ run.at \in {"read", "embed"} => run.todo # <<>>
  BY DEF IndexInvariant, IndexIsTyped, RunIsOnCourse
<1>2. NoDocument.stored = FALSE
  BY DEF NoDocument
<1>3. ASSUME folder' = folder, \A s \in Sources : document'[s] \in {document[s], NoDocument},
             \/ run'.at \notin {"read", "embed"}
             \/ run'.at = run.at /\ run'.hash = run.hash /\ run'.pages = run.pages
      PROVE  IndexIsSound'
  BY <1>2, <1>3 DEF IndexIsSound, DocumentOK
<1>4. run.todo # <<>> => Head(run.todo) \in Sources
  BY <1>1
<1>5. ASSUME NEW result, Report(result) PROVE run'.at = "file"
  BY <1>1, <1>5 DEF Report
<1>6. ASSUME NEW s \in Sources, NEW content \in Contents \cup {NoFile}, Edit(s, content)
      PROVE  IndexIsSound'
  <2>1. run' = [run EXCEPT !.quiet = FALSE] /\ document' = document
        /\ folder' = [folder EXCEPT ![s] = content]
    BY <1>6 DEF Edit
  <2>2. run'.at = run.at /\ run'.pages = run.pages /\ run'.hash = run.hash
    BY <1>1, <2>1
  <2>3. \A t \in Sources : folder'[t] \in {content, folder[t]}
    BY <1>1, <2>1
  <2> QED
    BY <2>1, <2>2, <2>3 DEF IndexIsSound, DocumentOK
<1>7. ASSUME NEW force \in BOOLEAN, NEW prune \in BOOLEAN, StartRun(force, prune)
      PROVE  IndexIsSound'
  <2>1. run'.at = "file" /\ document' = document /\ folder' = folder
    BY <1>7 DEF StartRun, NotRunning
  <2> QED
    BY <1>3, <2>1
<1>8. CASE HashFile
  <2>1. document' = document /\ folder' = folder
        /\ \/ run'.at = "file"
           \/ run' = [run EXCEPT !.at = "read", !.hash = folder[Head(run.todo)]]
    BY <1>5, <1>8 DEF HashFile
  <2>2. CASE run'.at = "file"
    BY <1>3, <2>1, <2>2
  <2>3. CASE run' = [run EXCEPT !.at = "read", !.hash = folder[Head(run.todo)]]
    <3>1. run'.at = "read" /\ run'.hash = folder[Head(run.todo)]
      BY <1>1, <2>3
    <3>2. folder[Head(run.todo)] \in Contents
      BY <1>4, <1>8 DEF HashFile, IndexIsSound
    <3> QED
      BY <2>1, <3>1, <3>2 DEF IndexIsSound, DocumentOK
  <2> QED
    BY <2>1, <2>2, <2>3
<1>9. CASE FileGone \/ IndexFails
  <2>1. document' = document /\ folder' = folder /\ run'.at = "file"
    BY <1>5, <1>9 DEF FileGone, IndexFails
  <2> QED
    BY <1>3, <2>1
<1>10. CASE ReadFile
  <2>1. PICK h, pages : h = Head(run.todo) /\ pages = read_pages(folder[h])
    OBVIOUS
  <2>2. folder' = folder /\
        \/ Report("failed") /\ document' = document
        \/ document' = [document EXCEPT ![h] = NoDocument] /\ Report("skipped")
        \/ /\ pages # <<>> /\ run' = [run EXCEPT !.at = "embed", !.pages = pages]
           /\ document' = document
    BY <1>10, <2>1 DEF ReadFile
  <2>3. CASE Report("failed") /\ document' = document
    BY <1>3, <1>5, <2>2, <2>3
  <2>4. CASE document' = [document EXCEPT ![h] = NoDocument] /\ Report("skipped")
    <3>1. \A s \in Sources : document'[s] \in {document[s], NoDocument}
      BY <1>1, <2>4
    <3>2. run'.at = "file"
      BY <1>5, <2>4
    <3> QED
      BY <1>3, <2>2, <3>1, <3>2
  <2>5. CASE /\ pages # <<>> /\ run' = [run EXCEPT !.at = "embed", !.pages = pages]
             /\ document' = document
    <3>1. run'.at = "embed" /\ run'.pages = pages /\ run'.hash = run.hash
      BY <1>1, <2>5
    <3>2. folder[h] \in Contents /\ run.hash \in Contents
      BY <1>1, <1>4, <1>10, <2>1 DEF ReadFile, IndexIsSound
    <3>3. pages \in Seq(ReadablePage)
      BY <2>1, <3>2, ReadPagesRun
    <3> QED
      BY <2>2, <2>5, <3>1, <3>2, <3>3 DEF IndexIsSound, DocumentOK
  <2> QED
    BY <2>2, <2>3, <2>4, <2>5
<1>11. CASE IndexFile
  <2>1. PICK h, pages, chunks : h = Head(run.todo) /\ pages = run.pages /\ chunks = Chunks(pages)
    OBVIOUS
  <2>2. PICK written : written = [stored |-> TRUE, hash |-> run.hash, pages |-> pages,
                                  chunks |-> chunks]
    OBVIOUS
  <2>3. /\ run.at = "embed" /\ Report("indexed") /\ folder' = folder
        /\ document' = [document EXCEPT ![h] = written]
    BY <1>11, <2>1, <2>2 DEF IndexFile
  <2>4. chunks # {} /\ \A chunk \in chunks : chunk.size \in 1 .. ChunkMax + Overlap + SepLen
    <3>1. pages \in Seq(ReadablePage) /\ pages # <<>>
      BY <2>1, <2>3 DEF IndexIsSound
    <3> QED
      BY <2>1, <3>1, ChunksFit DEF ChunkBound
  <2>5. written.hash \in Contents /\ written.chunks = chunks
    BY <2>2, <2>3 DEF IndexIsSound
  <2>6. \A s \in Sources : document'[s] = document[s] \/ document'[s] = written
    BY <1>1, <2>3
  <2>7. \A s \in Sources : DocumentOK(s)'
    <3> SUFFICES ASSUME NEW s \in Sources PROVE DocumentOK(s)'
      OBVIOUS
    <3>1. CASE document'[s] = document[s]
      BY <3>1 DEF IndexIsSound, DocumentOK
    <3>2. CASE document'[s] = written
      BY <2>4, <2>5, <3>2 DEF DocumentOK
    <3> QED
      BY <2>6, <3>1, <3>2
  <2>8. run'.at = "file"
    BY <1>5, <2>3
  <2> QED
    BY <2>3, <2>7, <2>8 DEF IndexIsSound
<1>12. CASE EndRun
  <2>1. \A s \in Sources : document'[s] = document[s] \/ document'[s] = NoDocument
    BY <1>12 DEF EndRun
  <2>2. run'.at = "done" /\ folder' = folder
    BY <1>1, <1>12 DEF EndRun
  <2> QED
    BY <1>3, <2>1, <2>2
<1>13. CASE UNCHANGED indexVars
  BY <1>3, <1>13 DEF indexVars
<1> QED
  BY <1>6, <1>7, <1>8, <1>9, <1>10, <1>11, <1>12, <1>13 DEF NextIndex

\* What a step does to the rows of the conversation: nothing, a row more, which
\* is of a message only if that was not claimed yet, or an end to them all.
LEMMA RowsOfStep ==
  ASSUME TurnInvariant, [Next]_vars
  PROVE  \/ conv'.id = conv.id /\ conv'.rows = conv.rows
         \/ /\ conv'.id = conv.id
            /\ \E row : /\ conv'.rows = Append(conv.rows, row)
                        /\ row.from \in Messages => ~ Claimed(row.from)
         \/ conv'.id = conv.id + 1 /\ conv'.rows = <<>> /\ Event
<1>1. conv \in [id : Nat, mode : Modes, tag : {"none", "sales_lead"}, welcomed : BOOLEAN,
                rows : Seq(RowType)]
  BY DEF TurnInvariant, ConvIsTyped
<1>2. "bot" \notin Messages /\ "operator" \notin Messages
  BY AnsweringAssumption
<1>3. CASE conv' = conv
  BY <1>3
<1>4. ASSUME NEW m \in Messages, NEW input \in InputsOf[m], Receive(m, input)
      PROVE  /\ conv'.id = conv.id
             /\ \E row : /\ conv'.rows = Append(conv.rows, row)
                         /\ row.from \in Messages => ~ Claimed(row.from)
  <2>1. PICK row : row = [from |-> m, text |-> input.text]
    OBVIOUS
  <2>2. conv' = [conv EXCEPT !.rows = Append(conv.rows, row)] /\ ~ Claimed(m)
    BY <1>4, <2>1 DEF Receive
  <2>3. conv'.rows = Append(conv.rows, row) /\ conv'.id = conv.id
    BY <1>1, <2>2
  <2>4. row.from = m
    BY <2>1
  <2> QED
    BY <2>2, <2>3, <2>4
<1>5. ASSUME NEW m \in Messages, NEW tag, HandOver(m, tag)
      PROVE  conv'.id = conv.id /\ conv'.rows = conv.rows
  <2>1. \/ conv' = conv
        \/ \E new : conv' = [conv EXCEPT !.mode = "human", !.tag = new]
    BY <1>5 DEF HandOver
  <2> QED
    BY <1>1, <2>1
<1>6. ASSUME NEW m \in Messages, NEW text, NEW sent \in BOOLEAN, SendOnce(m, text, sent)
      PROVE  \/ conv' = conv
             \/ /\ conv'.id = conv.id
                /\ \E row : conv'.rows = Append(conv.rows, row) /\ row.from = "bot"
  <2>1. PICK row : row = [from |-> "bot", text |-> text]
    OBVIOUS
  <2>2. \/ conv' = conv
        \/ \E w : conv' = [conv EXCEPT !.rows = Append(conv.rows, row), !.welcomed = w]
    BY <1>6, <2>1 DEF SendOnce
  <2>3. row.from = "bot"
    BY <2>1
  <2>4. ASSUME NEW w, conv' = [conv EXCEPT !.rows = Append(conv.rows, row), !.welcomed = w]
        PROVE  conv'.id = conv.id /\ conv'.rows = Append(conv.rows, row)
    BY <1>1, <2>4
  <2> QED
    BY <2>2, <2>3, <2>4
<1>7. ASSUME NEW m \in Messages, TurnStep(m)
      PROVE  \/ \E input \in InputsOf[m] : Receive(m, input)
             \/ \E tag : HandOver(m, tag)
             \/ \E text, sent : sent \in BOOLEAN /\ SendOnce(m, text, sent)
             \/ conv' = conv
  BY <1>7 DEF TurnStep, LeaveToOperator, BeginHandoff, RefuseByQuota, RouteText,
              RouteSelection, RouteMedia, RouteUnsupported, BuildHistory, Replay, Prepare,
              GenerationFails, CheckAndSend, SendFixed, Generate, Crash
<1>8. ASSUME NEW m \in Messages, TurnStep(m)
      PROVE  \/ conv'.id = conv.id /\ conv'.rows = conv.rows
             \/ /\ conv'.id = conv.id
                /\ \E row : /\ conv'.rows = Append(conv.rows, row)
                            /\ row.from \in Messages => ~ Claimed(row.from)
  BY <1>2, <1>4, <1>5, <1>6, <1>7, <1>8
<1>9. ASSUME NEW text, OperatorReply(text)
      PROVE  /\ conv'.id = conv.id
             /\ \E row : conv'.rows = Append(conv.rows, row) /\ row.from = "operator"
  <2>1. PICK row : row = [from |-> "operator", text |-> text]
    OBVIOUS
  <2>2. conv' = [conv EXCEPT !.rows = Append(conv.rows, row)]
    BY <1>9, <2>1 DEF OperatorReply
  <2>3. conv'.rows = Append(conv.rows, row) /\ conv'.id = conv.id
    BY <1>1, <2>2
  <2> QED
    BY <2>1, <2>3
<1>10. ASSUME NEW mode, SwitchMode(mode) PROVE conv'.id = conv.id /\ conv'.rows = conv.rows
  <2>1. conv' = [conv EXCEPT !.mode = mode]
    BY <1>10 DEF SwitchMode
  <2> QED
    BY <1>1, <2>1
<1>11. CASE DeleteConversation
  BY <1>11 DEF DeleteConversation, NewConversation
<1>12. CASE (NextIndex /\ UNCHANGED turnVars) \/ UNCHANGED vars
  BY <1>3, <1>12 DEF turnVars, vars
<1> QED
  BY <1>2, <1>8, <1>9, <1>10, <1>11, <1>12 DEF Next

\* Events are counted, and there are no more of them than the bound.
LEMMA EventOfStep ==
  ASSUME [Next]_vars
  PROVE  events' = events \/ Event
<1>1. CASE NextIndex
  BY <1>1 DEF NextIndex, Edit, StartRun, HashFile, ReadFile, FileGone, IndexFile, IndexFails, EndRun
<1>2. ASSUME NEW m \in Messages, TurnStep(m) PROVE events' = events \/ Event
  BY <1>2 DEF TurnStep, Receive, LeaveToOperator, BeginHandoff, RefuseByQuota, RouteText,
              RouteSelection, RouteMedia, RouteUnsupported, Routing, BuildHistory, Replay, Prepare,
              GenerationFails, CheckAndSend, SendFixed, Generate, Crash
<1>3. CASE UNCHANGED vars
  BY <1>3 DEF vars
<1> QED
  BY <1>1, <1>2, <1>3 DEF Next, OperatorReply, SwitchMode, DeleteConversation

\* A message has one row.
RowsAreDistinct ==
  \A i, j \in DOMAIN conv.rows :
    conv.rows[i].from = conv.rows[j].from /\ conv.rows[i].from \in Messages => i = j

\* The bounds on a conversation and on what its handlers hold.
TurnsAreBounded ==
  /\ events \in 0 .. MaxEvents /\ conv.id \in 0 .. events
  /\ RowsAreDistinct
  /\ \A m \in Messages : Busy(m) => Len(turn[m].history) <= MaxContextMessages + 1

\* The history of a turn, the note on a medium included, keeps the limit.
LEMMA HistoryFits ==
  ASSUME TurnInvariant, NEW m \in Messages, NEW h,
         h = IF Alive(m) THEN build_history(conv.rows) \o MediaNote(m) ELSE MediaNote(m)
  PROVE  Len(h) <= MaxContextMessages + 1
<1>1. MaxContextMessages \in Nat
  BY AnsweringAssumption
<1>2. PICK note : note = MediaNote(m)
  OBVIOUS
<1>3. \E S : note \in Seq(S) /\ RowType \subseteq S
  <2>1. PICK row : row = [from |-> m, text |-> turn[m].input.text]
    OBVIOUS
  <2>2. PICK S : S = RowType \cup {row}
    OBVIOUS
  <2>3. note = <<row>> \/ note = <<>>
    BY <1>2, <2>1 DEF MediaNote
  <2>4. note \in Seq(S)
    <3>1. row \in S
      BY <2>2
    <3>2. <<row>> \in Seq(S) /\ <<>> \in Seq(S)
      BY <3>1
    <3> QED
      BY <2>3, <3>2
  <2> QED
    BY <2>2, <2>4
<1>4. Len(note) <= 1 /\ Len(note) \in Nat
  BY <1>2 DEF MediaNote
<1>5. PICK S : note \in Seq(S) /\ RowType \subseteq S
  BY <1>3
<1>6. PICK past : past = build_history(conv.rows)
  OBVIOUS
<1>7. past \in Seq(RowType) /\ Len(past) <= MaxContextMessages
  <2>1. conv.rows \in Seq(RowType)
    BY DEF TurnInvariant, ConvIsTyped
  <2> QED
    BY <1>6, <2>1, HistoryOfRows
<1>8. past \in Seq(S) /\ Len(past) \in Nat
  BY <1>5, <1>7
<1>9. Len(past \o note) = Len(past) + Len(note)
  BY <1>5, <1>8, ConcatProperties
<1>10. Len(past \o note) <= MaxContextMessages + 1
  BY <1>1, <1>4, <1>7, <1>8, <1>9
<1>11. Len(note) <= MaxContextMessages + 1
  BY <1>1, <1>4
<1> QED
  BY <1>2, <1>6, <1>10, <1>11

\* A step keeps the bounds.
LEMMA BoundedStep ==
  ASSUME TurnInvariant, TurnsAreBounded, [Next]_vars
  PROVE  TurnsAreBounded'
<1>1. MaxEvents \in Nat /\ MaxContextMessages \in Nat
  BY KnowledgeAssumption, AnsweringAssumption
<1>2. events \in 0 .. MaxEvents /\ conv.id \in 0 .. events /\ conv.id \in Nat
  BY DEF TurnsAreBounded
<1>3. events' \in 0 .. MaxEvents /\ conv'.id \in 0 .. events'
  <2>1. events' = events \/ (events < MaxEvents /\ events' = events + 1)
    BY EventOfStep DEF Event
  <2>2. conv'.id = conv.id \/ (conv'.id = conv.id + 1 /\ events < MaxEvents /\ events' = events + 1)
    BY RowsOfStep DEF Event
  <2> QED
    BY <1>1, <1>2, <2>1, <2>2
<1>4. RowsAreDistinct'
  <2>1. PICK rows : rows = conv.rows
    OBVIOUS
  <2>2. PICK n \in Nat : rows \in Seq(RowType) /\ n = Len(rows) /\ DOMAIN rows = 1 .. n
    BY <2>1 DEF TurnInvariant, ConvIsTyped
  <2>3. CASE conv'.rows = rows
    BY <2>1, <2>3 DEF RowsAreDistinct, TurnsAreBounded
  <2>4. ASSUME NEW row, conv'.rows = Append(rows, row), row.from \in Messages => ~ Claimed(row.from)
        PROVE  RowsAreDistinct'
    <3>1. /\ DOMAIN conv'.rows = 1 .. n + 1 /\ conv'.rows[n + 1] = row
          /\ \A i \in 1 .. n : conv'.rows[i] = rows[i]
      <4>1. PICK S : S = RowType \cup {row}
        OBVIOUS
      <4>2. rows \in Seq(S) /\ row \in S
        BY <2>2, <4>1
      <4> QED
        BY <2>2, <2>4, <4>2
    <3>2. \A i \in 1 .. n : rows[i].from = row.from => row.from \notin Messages
      BY <2>1, <2>2, <2>4 DEF Claimed
    <3>3. \A i, j \in 1 .. n : rows[i].from = rows[j].from /\ rows[i].from \in Messages => i = j
      BY <2>1, <2>2 DEF RowsAreDistinct, TurnsAreBounded
    <3>4. \A i \in 1 .. n + 1 : i \in 1 .. n \/ i = n + 1
      OBVIOUS
    <3>5. ASSUME NEW i \in 1 .. n + 1, NEW j \in 1 .. n + 1,
                 conv'.rows[i].from = conv'.rows[j].from, conv'.rows[i].from \in Messages
          PROVE  i = j
      BY <3>1, <3>2, <3>3, <3>4, <3>5
    <3> QED
      BY <3>1, <3>5 DEF RowsAreDistinct
  <2>5. CASE conv'.rows = <<>>
    <3>1. DOMAIN <<>> = {}
      OBVIOUS
    <3> QED
      BY <2>5, <3>1 DEF RowsAreDistinct
  <2> QED
    BY <2>1, <2>3, <2>4, <2>5, RowsOfStep
<1>5. ASSUME NEW m \in Messages, TurnStep(m), NEW k \in Messages, Busy(k)'
      PROVE  Len(turn'[k].history) <= MaxContextMessages + 1
  <2>1. Len(<<>>) <= MaxContextMessages + 1
    BY <1>1
  <2>2. ASSUME NEW input \in InputsOf[m], Receive(m, input)
        PROVE  turn'[m].history = <<>> /\ \A l \in Messages \ {m} : turn'[l] = turn[l]
    BY <2>2 DEF Receive, TurnInvariant
  <2>3. CASE BuildHistory(m)
    <3>1. PICK h : /\ turn' = [turn EXCEPT ![m].at = "lookup", ![m].history = h]
                   /\ h = IF Alive(m) THEN build_history(conv.rows) \o MediaNote(m)
                          ELSE MediaNote(m)
      BY <2>3, Zenon DEF BuildHistory
    <3>2. \E at, first, reply : Moves(m, at, first, reply, h, NoPrompt)
      BY <3>1 DEF Moves
    <3>3. turn[m].at # "none" /\ Busy(m)
      BY <2>3 DEF BuildHistory, Busy
    <3>4. Len(h) <= MaxContextMessages + 1
      BY <3>1, HistoryFits
    <3>5. /\ turn'[m].history = turn[m].history \/ turn'[m].history = h
          /\ \A l \in Messages \ {m} : turn'[l] = turn[l]
      BY <3>2, <3>3, LocalsKept
    <3> QED
      BY <1>5, <3>3, <3>4, <3>5 DEF TurnsAreBounded, Busy
  <2>6. CASE Prepare(m)
    <3>1. PICK p : turn' = [turn EXCEPT ![m].at = "generate", ![m].prompt = p]
      BY <2>6, Zenon DEF Prepare
    <3>2. \E at, first, reply : Moves(m, at, first, reply, <<>>, p)
      BY <3>1 DEF Moves
    <3>3. turn[m].at # "none" /\ Busy(m)
      BY <2>6 DEF Prepare, Busy
    <3>4. /\ turn'[m].history = turn[m].history \/ turn'[m].history = <<>>
          /\ \A l \in Messages \ {m} : turn'[l] = turn[l]
      BY <3>2, <3>3, LocalsKept
    <3> QED
      BY <1>5, <2>1, <3>3, <3>4 DEF TurnsAreBounded, Busy
  <2>4. CASE MovesOn(m)
    <3>1. PICK at, first, reply : Moves(m, at, first, reply, <<>>, NoPrompt)
      BY <2>4 DEF MovesOn
    <3>2. turn[m].at # "none" /\ Busy(m)
      BY <2>4 DEF MovesOn, Busy
    <3>3. /\ turn'[m].history = turn[m].history \/ turn'[m].history = <<>>
          /\ \A l \in Messages \ {m} : turn'[l] = turn[l]
      BY <3>1, <3>2, LocalsKept
    <3> QED
      BY <1>5, <2>1, <3>2, <3>3 DEF TurnsAreBounded, Busy
  <2>5. ASSUME \E input \in InputsOf[m] : Receive(m, input)
        PROVE  Len(turn'[k].history) <= MaxContextMessages + 1
    BY <1>5, <2>1, <2>2, <2>5 DEF TurnsAreBounded, Busy
  <2> QED
    BY <1>5, <2>3, <2>4, <2>5, <2>6, StepMoves
<1>6. ASSUME turn' = turn, NEW k \in Messages, Busy(k)'
      PROVE  Len(turn'[k].history) <= MaxContextMessages + 1
  BY <1>6 DEF TurnsAreBounded, Busy
<1>7. turn' = turn \/ \E m \in Messages : TurnStep(m)
  BY DEF Next, turnVars, vars, OperatorReply, SwitchMode, DeleteConversation
<1> QED
  BY <1>3, <1>4, <1>5, <1>6, <1>7 DEF TurnsAreBounded

\* Documents and chunks are well formed: every chunk keeps its bound, though paragraphs
\* of any length are split, packed and overlapped, and every document has chunks; a
\* conversation has one row per claimed message, whatever is redelivered, crashes or is
\* deleted; histories and prompts keep their limits (chunking.py; tokens.py;
\* message.py, claim_inbound).
THEOREM AnsweringTyped == Spec => []TypeOK
<1>1. Init => IndexIsSound /\ TurnsAreBounded
  <2> SUFFICES ASSUME Init PROVE IndexIsSound /\ TurnsAreBounded
    OBVIOUS
  <2>1. MaxEvents \in Nat
    BY KnowledgeAssumption
  <2>2. IndexIsSound
    BY DEF Init, InitIndex, NotRunning, NoDocument, IndexIsSound, DocumentOK
  <2>3. conv.id = 0 /\ conv.rows = <<>> /\ events = 0
    BY DEF Init, InitIndex, InitTurns, NewConversation
  <2>4. RowsAreDistinct
    <3>1. DOMAIN <<>> = {}
      OBVIOUS
    <3> QED
      BY <2>3, <3>1 DEF RowsAreDistinct
  <2>5. \A m \in Messages : ~ Busy(m)
    BY DEF Init, InitTurns, NoTurn, Busy
  <2> QED
    BY <2>1, <2>2, <2>3, <2>4, <2>5 DEF TurnsAreBounded
<1>2. IndexInvariant /\ TurnInvariant /\ IndexIsSound /\ TurnsAreBounded /\ [Next]_vars
      => IndexIsSound' /\ TurnsAreBounded'
  <2> SUFFICES ASSUME IndexInvariant, TurnInvariant, IndexIsSound, TurnsAreBounded, [Next]_vars
               PROVE  IndexIsSound'
    BY BoundedStep
  <2>1. NextIndex \/ UNCHANGED indexVars
    BY DEF Next, TurnStep, Receive, LeaveToOperator, BeginHandoff, RefuseByQuota, RouteText,
           RouteSelection, RouteMedia, RouteUnsupported, Routing, BuildHistory, Replay, Prepare,
           GenerationFails, CheckAndSend, SendFixed, Generate, Crash,
           OperatorReply, SwitchMode, DeleteConversation, vars
  <2> QED
    BY <2>1, SoundStep
<1>3. IndexIsSound /\ TurnInvariant /\ TurnsAreBounded /\ PromptsAreClean => TypeOK
  <2> SUFFICES ASSUME IndexIsSound, TurnInvariant, TurnsAreBounded, PromptsAreClean PROVE TypeOK
    OBVIOUS
  <2>1. conv.mode \in {"bot", "human"} /\ conv.tag \in {"none", "sales_lead"}
    BY DEF TurnInvariant, ConvIsTyped, Modes
  <2>2. MaxEvents \in Nat /\ events \in 0 .. MaxEvents /\ conv.id \in 0 .. events
    BY KnowledgeAssumption DEF TurnsAreBounded
  <2>3. conv.id \in 0 .. MaxEvents
    BY <2>2
  <2>4. \A m \in Messages : Busy(m) => Len(turn[m].prompt.excerpts) <= TopK
    BY DEF PromptsAreClean, PromptIsClean
  <2> QED
    BY <2>1, <2>2, <2>3, <2>4 DEF TypeOK, IndexIsSound, TurnsAreBounded, RowsAreDistinct
<1> QED
  BY <1>1, <1>2, <1>3, AnsweringConsistent, PromptsClean, PTL DEF Spec
=============================================================================
