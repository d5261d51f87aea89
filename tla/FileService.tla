---------------------------- MODULE FileService ----------------------------
(***************************************************************************)
(* What the file system of src/gfs promises to those who read it: a path   *)
(* names one file from its creation to its deletion, and a get answers     *)
(* with the whole of the file that the path named when the get began, or   *)
(* with an error; never with a mixture of files, a part, or bytes that     *)
(* nobody put there. It does not promise that a get succeeds.              *)
(***************************************************************************)
EXTENDS Integers, Sequences

CONSTANTS Paths, MaxChunks

VARIABLES sizes,        \* the chunks of every file there ever was
          file,         \* path -> the file it names; 0 is none
          reads         \* the gets: file, state and data

fileVars == <<sizes, file, reads>>

Whole(f) == [i \in 1 .. sizes[f] |-> <<f, i>>]

Init ==
  /\ sizes = <<>>
  /\ file = [p \in Paths |-> 0]
  /\ reads = <<>>

Create(p, n) ==
  /\ file[p] = 0
  /\ sizes' = Append(sizes, n)
  /\ file' = [file EXCEPT ![p] = Len(sizes) + 1]
  /\ UNCHANGED reads

Remove(p) ==
  /\ file[p] # 0
  /\ file' = [file EXCEPT ![p] = 0]
  /\ UNCHANGED <<sizes, reads>>

(* An empty file needs no further step.                                    *)
Open(p) ==
  /\ file[p] # 0
  /\ reads' = Append(reads, [file |-> file[p], data |-> <<>>,
                             state |-> IF sizes[file[p]] = 0 THEN "done" ELSE "open"])
  /\ UNCHANGED <<sizes, file>>

Answer(g) ==
  /\ reads[g].state = "open"
  /\ \/ reads' = [reads EXCEPT ![g].state = "done", ![g].data = Whole(reads[g].file)]
     \/ reads' = [reads EXCEPT ![g].state = "failed"]
  /\ UNCHANGED <<sizes, file>>

Next ==
  \/ \E p \in Paths : Remove(p) \/ Open(p) \/ \E n \in 0 .. MaxChunks : Create(p, n)
  \/ \E g \in DOMAIN reads : Answer(g)

Spec == Init /\ [][Next]_fileVars
=============================================================================
