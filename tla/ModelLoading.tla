----------------------------- MODULE ModelLoading -----------------------------
(***************************************************************************)
(* The model file read by whisper.cpp (whisper_model_load) while           *)
(* ModelManager downloads, replaces and deletes it.  initialize opens the  *)
(* final path once; what it reads is the inode the path named then.        *)
(*                                                                         *)
(* A chunk of the body is a part of the file that is read at one go: 1 the *)
(* magic and the hparams, 2 the filters and the vocabulary, then for the   *)
(* t-th tensor its header, 2t + 1, and its data, 2t + 2.                   *)
(***************************************************************************)
EXTENDS ModelManager

ASSUME TensorsAssumption == Size % 2 = 0 /\ Size >= 4

VARIABLES fin,            \* the inode the loader reads, or None
          stage,          \* where it is in whisper_model_load
          eof,            \* a read met the end of the file: no later one reads anything
          nLoaded,        \* model.n_loaded
          short,          \* history: something that was read was not there
          context         \* the context of the last load: none, whole, empty, partial

loader == <<fin, stage, eof, nLoaded, short, context>>
loadVars == <<vars, loader>>

NTensors == Size \div 2 - 1
LoadStages == {"idle", "magic", "vocab", "header", "data", "count"}

LoadInit ==
  /\ Init
  /\ fin = None /\ stage = "idle" /\ eof = FALSE
  /\ nLoaded = 0 /\ short = FALSE
  /\ context = "none"

-------------------------------------------------------------------------------
\* The read of a part: it is there, or the file ends before it, or it is a hole that
\* reads as zeros.
There(part) == ~eof /\ part \in blocks[fin]
Past(part) == eof \/ \A c \in blocks[fin] : c < part
Hole(part) == ~There(part) /\ ~Past(part)

Read(part) ==
  /\ eof' = Past(part)
  /\ short' = (short \/ ~There(part))

\* The file is closed, the context returned or NULL.
Close(c) ==
  /\ stage' = "idle" /\ fin' = None
  /\ eof' = FALSE /\ nLoaded' = 0 /\ short' = FALSE
  /\ context' = c

-------------------------------------------------------------------------------
\* whisper_init_from_file_with_params opens the file.
OpenModel ==
  /\ stage = "idle"
  /\ IF out = None
       THEN context' = "none" /\ UNCHANGED <<fin, stage>>
       ELSE fin' = out /\ stage' = "magic" /\ UNCHANGED context
  /\ UNCHANGED <<eof, nLoaded, short>>

\* The magic is compared, which a file that ends before it leaves as the stack was.
ReadMagic ==
  /\ stage = "magic"
  /\ ~Hole(1)
  /\ Read(1)
  /\ stage' = "vocab"
  /\ UNCHANGED <<fin, nLoaded, context>>

\* The reads of the filters and of the vocabulary are not checked; from a hole come
\* an empty vocabulary, and tensors without names.
ReadVocab ==
  /\ stage = "vocab"
  /\ ~Hole(2)
  /\ Read(2)
  /\ stage' = "header"
  /\ UNCHANGED <<fin, nLoaded, context>>

\* The end of the file is looked for here only.
ReadHeader ==
  /\ stage = "header"
  /\ ~Hole(2 * nLoaded + 3)
  /\ eof' = Past(2 * nLoaded + 3)
  /\ stage' = IF eof' THEN "count" ELSE "data"
  /\ UNCHANGED <<fin, nLoaded, short, context>>

\* Nor is it checked that the data were there.
ReadData ==
  /\ stage = "data"
  /\ Read(2 * nLoaded + 4)
  /\ nLoaded' = nLoaded + 1
  /\ stage' = "header"
  /\ UNCHANGED <<fin, context>>

\* A model without tensors is taken for one made for tests.
Loaded ==
  /\ stage = "count"
  /\ nLoaded \in {0, NTensors}
  /\ Close(IF nLoaded = 0 THEN "empty" ELSE IF short THEN "partial" ELSE "whole")

\* NULL: a bad magic, a tensor of no name, a tensor missing at the end; and the
\* state, for which there may be no memory, is made last.
Refused ==
  CASE stage = "magic" -> ~There(1)
    [] stage = "vocab" -> Hole(2)
    [] stage = "header" -> Hole(2 * nLoaded + 3)
    [] stage = "count" -> TRUE
    [] OTHER -> FALSE

Refuse == Refused /\ Close("none")

Load == OpenModel \/ ReadMagic \/ ReadVocab \/ ReadHeader \/ ReadData \/ Loaded \/ Refuse

-------------------------------------------------------------------------------
\* An inode that is open for reading is not handed out again.
Held == fin # None => tmp' # fin \/ tmp = fin

\* The process dies, and with it the load and its context.
Die ==
  /\ stage' = "idle" /\ fin' = None
  /\ eof' = FALSE /\ nLoaded' = 0 /\ short' = FALSE
  /\ context' = "none"
  /\ Crash \/ ((\A d \in Downloaders : pc[d] = "idle") /\ UNCHANGED vars)

LoadNext ==
  \/ Load /\ UNCHANGED vars
  \/ \E d \in Downloaders : (Begin(d) \/ Step(d) \/ Cancel(d)) /\ Held /\ UNCHANGED loader
  \/ DeleteModel /\ UNCHANGED loader
  \/ Die

LoadSpec == LoadInit /\ [][LoadNext]_loadVars

SerialLoadSpec == LoadInit /\ [][LoadNext /\ Serial']_loadVars

-------------------------------------------------------------------------------
\* A load ends with the whole model or with none, whatever becomes of the file's path
\* while it is read: what was published is what is read (ModelManager.kt:76-78,
\* WhisperNative.kt:30-33).
LoadedWhole == context \in {"none", "whole"}

\* A model of which something is missing is refused ("ERROR not all tensors loaded
\* from model file", whisper.cpp:1969).
WeightsWhole == context # "partial"
===============================================================================
