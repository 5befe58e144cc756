------------------------------ MODULE Knowledge ------------------------------
(***************************************************************************)
(* The knowledge base: a folder that staff edit, and the index that the    *)
(* ingestion script builds from it and retrieval searches.                 *)
(*                                                                         *)
(* A text is the set of the word classes in it that some rule looks for:   *)
(* "amount" (one figure of money), "range" (a word for price before two    *)
(* figures), "discount" and "percent" (a discount in percent, after its    *)
(* word and before it), "fence" (a marker of the prompt's document fence), *)
(* "nested" (a marker inside a marker), "todo" (an unfilled placeholder),  *)
(* "broken" (one that is hyphenated over a line), and the classes of       *)
(* Answering.  A file is a sequence of pages, a page a text and the        *)
(* lengths, in tokens, of its paragraphs.  The script is run by hand, one  *)
(* execution at a time; staff may edit a file at any moment of it.         *)
(***************************************************************************)
EXTENDS Integers, Sequences, FiniteSets, SequencesExt

CONSTANTS
  Sources,       \* files of the folder, by path
  Contents,      \* what a file may hold
  ChunkMax,      \* chunk_max_tokens
  ChunkOverlap,  \* chunk_overlap_tokens
  SepLen,        \* tokens of the paragraph separator
  MaxEvents      \* bound: edits, executions of the script, failures ... in a behaviour

ASSUME KnowledgeAssumption ==
  /\ IsFiniteSet(Sources)
  /\ ChunkMax \in Nat \ {0} /\ {ChunkOverlap, SepLen, MaxEvents} \subseteq Nat

\* A paragraph that is split off has at least one token: the empty ones are
\* skipped.
ASSUME ContentsAssumption ==
  Contents \subseteq Seq([text : SUBSET STRING, paragraphs : Seq(Nat \ {0})])

VARIABLES
  folder,    \* the content of each file, or NoFile
  document,  \* the tables documents and document_chunks, by source
  run,       \* the execution of the script
  events     \* events so far, of those MaxEvents bounds

indexVars == <<folder, document, run>>

NoFile == <<>>
NoDocument == [stored |-> FALSE]
Event == events < MaxEvents /\ events' = events + 1
Present == {s \in Sources : folder[s] # NoFile}

-----------------------------------------------------------------------------
(***************************************************************************)
(* Chunking, on the lengths of the paragraphs.                             *)
(***************************************************************************)

Smaller(a, b) == IF a < b THEN a ELSE b
Larger(a, b) == IF a < b THEN b ELSE a
Overlap == Larger(0, Smaller(ChunkOverlap, ChunkMax - 1))

\* Overlapping windows over a paragraph of n tokens.
windows(n, size, step) ==
  [i \in 1 .. (n + step - 1) \div step |-> Smaller(size, n - (i - 1) * step)]

\* Mutant: long paragraphs are not split.
UnitsWhole(n) == <<n>>

\* A paragraph is one unit; one that is too long is split first.
Units(n) ==
  LET size == Larger(1, ChunkMax - Overlap - SepLen)
  IN  IF n <= ChunkMax THEN <<n>> ELSE windows(n, size, Larger(1, size - Overlap))

\* Units are packed until the next one does not fit; a new chunk opens with
\* the tail of the one before.
Pack(state, unit) ==
  LET full == state.current > 0 /\ state.current + SepLen + unit > ChunkMax
      head == IF full THEN Smaller(Overlap, state.current) ELSE state.current
  IN  [chunks |-> IF full THEN Append(state.chunks, state.current) ELSE state.chunks,
       current |-> IF head > 0 THEN head + SepLen + unit ELSE unit]

chunk_text(paragraphs) ==
  LET units == FlattenSeq([i \in DOMAIN paragraphs |-> Units(paragraphs[i])])
      packed == FoldLeft(Pack, [chunks |-> <<>>, current |-> 0], units)
  IN  IF packed.current > 0 THEN Append(packed.chunks, packed.current) ELSE packed.chunks

\* A text in which one class has turned into another.
Becomes(text, class, other) == IF class \in text THEN (text \ {class}) \cup {other} ELSE text

\* Words that were hyphenated over a line are joined.
normalize_text(text) == Becomes(text, "broken", "todo")

\* The chunks of a file, each with its page and the text of it.
Chunks(pages) ==
  UNION {LET sizes == chunk_text(pages[p].paragraphs)
         IN  {[page |-> p, part |-> i, size |-> sizes[i], text |-> normalize_text(pages[p].text)] :
                i \in DOMAIN sizes} : p \in DOMAIN pages}

\* read_pages: pages without text are dropped.
read_pages(content) ==
  FoldLeft(LAMBDA pages, p : IF p.paragraphs # <<>> THEN Append(pages, p) ELSE pages,
           <<>>, content)

-----------------------------------------------------------------------------
(***************************************************************************)
(* The folder and the script.                                              *)
(***************************************************************************)

\* Mutant: only the first page is searched.
is_unfilledAtFirst(pages) == "todo" \in pages[1].text

\* A placeholder on any page makes the file unfinished.  The text is searched
\* as it was read, before it is normalised.
is_unfilled(pages) == \E i \in DOMAIN pages : "todo" \in pages[i].text

NotRunning == [at |-> "idle", force |-> FALSE, prune |-> FALSE, todo |-> <<>>, listed |-> {},
               hash |-> NoFile, pages |-> <<>>, result |-> [s \in Sources |-> "none"],
               quiet |-> FALSE]

InitIndex ==
  /\ folder = [s \in Sources |-> NoFile]
  /\ document = [s \in Sources |-> NoDocument]
  /\ run = NotRunning
  /\ events = 0

\* Staff write, replace or remove a file.  quiet records, for the properties,
\* that the folder has not changed since the execution began.
Edit(s, content) ==
  /\ Event
  /\ content # folder[s]
  /\ folder' = [folder EXCEPT ![s] = content]
  /\ run' = [run EXCEPT !.quiet = FALSE]
  /\ UNCHANGED document

\* ingest_directory lists the files.
StartRun(force, prune) ==
  /\ run.at \in {"idle", "done"}
  /\ Event
  /\ run' = [NotRunning EXCEPT !.at = "file", !.force = force, !.prune = prune,
                               !.todo = SetToSeq(Present), !.listed = Present, !.quiet = TRUE]
  /\ UNCHANGED <<folder, document>>

\* What ingest_file returned for the first file, and on to the next.
Report(result) ==
  run' = [run EXCEPT !.at = "file", !.todo = Tail(@), !.result[Head(run.todo)] = result]

\* The hash is taken from one read of the file ...
HashFile ==
  LET s == Head(run.todo)
  IN  /\ run.at = "file" /\ run.todo # <<>>
      /\ folder[s] # NoFile
      /\ LET known == document[s].stored /\ document[s].hash = folder[s]
         IN  \/ known /\ ~ run.force /\ Report("unchanged")
             \/ (known => run.force) /\ run' = [run EXCEPT !.at = "read", !.hash = folder[s]]
      /\ UNCHANGED <<folder, document, events>>

\* ... and the text from another.  Nothing readable leaves what was indexed;
\* an unfinished text removes it.
ReadFile ==
  LET s == Head(run.todo)
      pages == read_pages(folder[s])
  IN  /\ run.at = "read" /\ folder[s] # NoFile
      /\ \/ pages = <<>> /\ Report("failed") /\ UNCHANGED document
         \/ /\ pages # <<>> /\ is_unfilled(pages)
            /\ document' = [document EXCEPT ![s] = NoDocument]
            /\ Report("skipped")
         \/ /\ pages # <<>> /\ ~ is_unfilled(pages)
            /\ run' = [run EXCEPT !.at = "embed", !.pages = pages]
            /\ UNCHANGED document
      /\ UNCHANGED <<folder, events>>

\* The file has gone since it was listed: the read raises.
FileGone ==
  /\ run.at \in {"file", "read"} /\ run.todo # <<>>
  /\ folder[Head(run.todo)] = NoFile
  /\ Report("failed")
  /\ UNCHANGED <<folder, document, events>>

\* Row and chunks are swapped in one transaction.
IndexFile ==
  LET s == Head(run.todo)
  IN  /\ run.at = "embed"
      /\ document' = [document EXCEPT ![s] =
                        [stored |-> TRUE, hash |-> run.hash, pages |-> run.pages,
                         chunks |-> Chunks(run.pages)]]
      /\ Report("indexed")
      /\ UNCHANGED <<folder, events>>

\* The embedding call or the transaction fails; what was indexed stays.
IndexFails ==
  /\ run.at = "embed"
  /\ Event
  /\ Report("failed")
  /\ UNCHANGED <<folder, document>>

\* Mutant: a folder without files ends the run before it prunes.
EndRunEarly ==
  /\ run.at = "file" /\ run.todo = <<>>
  /\ document' = IF run.prune /\ run.listed # {}
                 THEN [s \in Sources |-> IF s \in run.listed THEN document[s] ELSE NoDocument]
                 ELSE document
  /\ run' = [run EXCEPT !.at = "done"]
  /\ UNCHANGED <<folder, events>>

\* The end of the run; with --prune, documents whose file was not listed go.
EndRun ==
  /\ run.at = "file" /\ run.todo = <<>>
  /\ document' = IF run.prune
                 THEN [s \in Sources |-> IF s \in run.listed THEN document[s] ELSE NoDocument]
                 ELSE document
  /\ run' = [run EXCEPT !.at = "done"]
  /\ UNCHANGED <<folder, events>>

NextIndex ==
  \/ \E s \in Sources, content \in Contents \cup {NoFile} : Edit(s, content)
  \/ \E force, prune \in BOOLEAN : StartRun(force, prune)
  \/ HashFile \/ ReadFile \/ FileGone \/ IndexFile \/ IndexFails \/ EndRun

-----------------------------------------------------------------------------
(***************************************************************************)
(* Properties.                                                             *)
(***************************************************************************)

\* What a source of the index may hold.  A chunk may exceed max_tokens, by the
\* overlap and the separator put in front of a paragraph of full length.
DocumentOK(s) ==
  document[s].stored =>
    /\ document[s].hash \in Contents
    /\ document[s].chunks # {}
    /\ \A chunk \in document[s].chunks : chunk.size \in 1 .. ChunkMax + Overlap + SepLen

\* A forced and pruning run, in which nothing failed and during which nobody
\* edited the folder, leaves in the index what can be read of the folder's finished files,
\* and nothing else, whatever earlier runs left.
ForcedRunIsCurrent ==
  run.at = "done" /\ run.quiet /\ run.force /\ run.prune
    /\ (\A s \in Sources : run.result[s] # "failed") =>
    \A s \in Sources :
      IF s \in Present /\ ~ is_unfilled(read_pages(folder[s]))
      THEN document[s].stored /\ document[s].pages = read_pages(folder[s])
      ELSE ~ document[s].stored
=============================================================================
