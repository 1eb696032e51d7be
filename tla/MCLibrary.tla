------------------------------ MODULE MCLibrary ------------------------------
(* Small instances of what answers are drawn from: the splitter of documents, *)
(* the index of their passages, retrieval from it, the rehearsals of moving   *)
(* it, and the analytics workflow with its windows. A behaviour moves the     *)
(* part in focus and leaves the others as they began.                         *)
EXTENDS Chunking, RagIndex, Retrieval, Rehearsal, Workflow, SequencesExt, TLC

CONSTANTS MaxLines, x
VARIABLE focus

MCCharacters == {"/", " ", "~", "#", "|", "-", "9", ".", "x", "h", "b", "c", "d", "e", "f", "g", "i", "j",
                 "k", "l", "m", "n", "o", "p", "q", "r", "s", "t"}
MCLines == {<<>>, <<"x">>, <<"#", " ", "x">>, <<"~">>, <<"x", "x", " ", "x", "x", "x", "x">>}
MCTexts == {FlattenSeq([k \in DOMAIN t |-> IF k = 1 THEN t[k] ELSE <<"/">> \o t[k]]) :
              t \in UNION {[1..n -> MCLines] : n \in 1..MaxLines}}

MCFragments ==
  {<<<<"h">>>>,                                                          \* a heading, or a page header
   <<<<"9">>>>,                                                          \* a page number
   <<<<"b", " ", "c", "d", "e", "f", "g", "i", "j", ".">>>>,             \* a paragraph
   <<<<"k", "|", "l">>, <<"m", "|", "n", "o", "p", "q", "r", "s">>, <<"t", "|">>>>}   \* a table
MCPages == {<<>>} \cup {<<f>> : f \in MCFragments} \cup (MCFragments \X MCFragments)
MCDocuments == MCPages \X {<<f>> : f \in MCFragments} \X MCPages
MCSource == [kind |-> "text", body |-> <<"x">>]

\* A close second by meaning, which the keywords may part from the first.
MCCosines == {<<100, 99, -5>>}
MCStrengths == <<100, 99, 20>>
MCQuestion == CHOOSE q \in OtherQuestions : TRUE

MCReleaseGeneration == (x :> 5)

-----------------------------------------------------------------------------

LibraryInit ==
  /\ focus \in {"chunking", "index", "retrieval", "rehearsal", "workflow"}
  /\ IF focus = "chunking" THEN ChunkingInit ELSE source = MCSource /\ pieces = NotSplit
  /\ IF focus = "retrieval" THEN AskInit ELSE question = MCQuestion /\ answer = Refused("none")
  /\ RagInit /\ RehearsalInit /\ FlowInit
  /\ focus # "index" => deployment = "sqlite"

LibraryNext ==
  \/ /\ focus = "chunking" /\ SplitSource
     /\ UNCHANGED <<ragVars, askVars, flowVars, rehearsalVars, focus>>
  \/ /\ focus = "index" /\ RagNext
     /\ UNCHANGED <<chunkingVars, askVars, flowVars, rehearsalVars, focus>>
  \/ /\ focus = "retrieval" /\ Ask
     /\ UNCHANGED <<chunkingVars, ragVars, flowVars, rehearsalVars, focus>>
  \/ /\ focus = "rehearsal" /\ RehearsalNext
     /\ UNCHANGED <<chunkingVars, ragVars, askVars, flowVars, focus>>
  \/ /\ focus = "workflow" /\ FlowNext
     /\ UNCHANGED <<chunkingVars, ragVars, askVars, rehearsalVars, focus>>

libraryVars == <<chunkingVars, ragVars, askVars, flowVars, rehearsalVars, focus>>

LibrarySpec == LibraryInit /\ [][LibraryNext]_libraryVars
=============================================================================
