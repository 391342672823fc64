----------------------------- MODULE WriteBack -----------------------------
(***************************************************************************)
(* What a memory-mapped array that keeps a private copy promises about its  *)
(* file: a copy is what the file held where it was opened; the file changes *)
(* there only, when a writable copy is saved, to what the copy held at some *)
(* moment of the save; a read-only copy never changes.  An end of the       *)
(* process forgets the copies and leaves at most part of a save behind.     *)
(***************************************************************************)
EXTENDS Integers, Sequences, FiniteSets

CONSTANTS Roots, Files, Bytes, Zero, Threads, None

VARIABLES file,     \* [Files -> Seq(Bytes)]
          copy,     \* open copies: [Roots -> [file, at, mode, val] or None]
          saving    \* saves under way: [Threads -> [file, at, val] or None]

vars == <<file, copy, saving>>

\* The bytes of c with those of val laid over them, from position at on (only the
\* positions of val in S, and never past the end).
Overlay(c, at, val, S) ==
    [i \in DOMAIN c |-> IF i - at \in S THEN val[i - at] ELSE c[i]]

Prefix(c, d) == Len(c) <= Len(d) /\ \A i \in DOMAIN c : d[i] = c[i]

Init == /\ file \in [Files -> Seq(Bytes)]
        /\ copy = [r \in Roots |-> None]
        /\ saving = [t \in Threads |-> None]

\* Opening may create, truncate or lengthen the file, with zero bytes only.
Grown(f, mode, c) ==
    LET old == IF mode = "w+" THEN <<>> ELSE file[f]
    IN  /\ Prefix(old, c)
        /\ \A i \in DOMAIN c \ DOMAIN old : c[i] = Zero
        /\ mode \in {"r", "c"} => c = file[f]

Open(r, f, mode) ==
    /\ copy[r] = None /\ copy'[r] # None
    /\ Grown(f, mode, file'[f])
    /\ \A g \in Files \ {f} : file'[g] = file[g]
    /\ LET c == copy'[r]
       IN  /\ copy' = [copy EXCEPT ![r] = c]
           /\ c.file = f /\ c.mode = mode /\ c.at \in Nat
           /\ c.at + Len(c.val) <= Len(file'[f])
           /\ c.val = [i \in 1..Len(c.val) |-> file'[f][c.at + i]]
    /\ UNCHANGED saving

OpenFails(f) ==
    /\ UNCHANGED <<copy, saving>>
    /\ Grown(f, "r+", file'[f])
    /\ \A g \in Files \ {f} : file'[g] = file[g]

Edit(r) ==
    /\ UNCHANGED <<file, saving>>
    /\ copy[r] # None /\ copy[r].mode # "r"
    /\ copy'[r] # None
    /\ LET v == copy'[r].val
       IN  /\ Len(v) = Len(copy[r].val)
           /\ copy' = [copy EXCEPT ![r].val = v]

BeginSave(t, r) ==
    /\ saving[t] = None
    /\ copy[r] # None /\ copy[r].mode \in {"r+", "w+"}
    /\ saving' = [saving EXCEPT ![t] = [file |-> copy[r].file, at |-> copy[r].at,
                                         val |-> copy[r].val]]
    /\ UNCHANGED <<file, copy>>

EndSave(t) ==
    /\ saving[t] # None
    /\ LET s == saving[t]
       IN  file' = [file EXCEPT ![s.file] = Overlay(@, s.at, s.val, DOMAIN s.val)]
    /\ saving' = [saving EXCEPT ![t] = None]
    /\ UNCHANGED copy

End == /\ copy' = [r \in Roots |-> None]
       /\ saving' = [t \in Threads |-> None]
       /\ \/ UNCHANGED file
          \/ \E t \in Threads : /\ saving[t] # None
                                /\ \E S \in SUBSET DOMAIN saving[t].val :
                                     file' = [file EXCEPT ![saving[t].file] =
                                                Overlay(@, saving[t].at, saving[t].val, S)]

Next == \/ \E r \in Roots, f \in Files, m \in {"r", "c", "r+", "w+"} : Open(r, f, m)
        \/ \E f \in Files : OpenFails(f)
        \/ \E r \in Roots : Edit(r)
        \/ \E t \in Threads, r \in Roots : BeginSave(t, r)
        \/ \E t \in Threads : EndSave(t)
        \/ End

Spec == Init /\ [][Next]_vars
=============================================================================
