------------------------------ MODULE Resources ------------------------------
(***************************************************************************)
(* The resources main holds while it sets the pipeline up and takes it     *)
(* down: file descriptors, mappings, contexts, buffer groups, imports.     *)
(* held is what the kernel and the libraries know; known is the record the *)
(* objects of the program keep in their fields (a descriptor that is not   *)
(* -1, a pointer that is not null, a flag).  Constructors and destructors  *)
(* are right when the two agree.                                           *)
(*                                                                         *)
(* A resource is a pair of a kind and an index.                            *)
(***************************************************************************)
EXTENDS Integers, FiniteSets, Sequences

CONSTANTS
    MaxAlloca,    \* kMaxAllocaSize, the number of entries of every pool
    MaxRefused    \* bound of the model: releases the kernel refuses

ASSUME ResourcesAssumption == MaxAlloca \in Nat \ {0} /\ MaxRefused \in Nat

VARIABLES
    held,      \* resources acquired and not released yet
    known,     \* resources an object of the program has a handle of
    misused,   \* auxiliary: used or released when not held, or acquired twice
    refused,   \* auxiliary: resources whose release failed
    pc,        \* where the main thread is
    loop       \* the index of the loop it is in

ledger  == <<held, misused, refused>>
mainVars == <<ledger, known, pc, loop>>

Entries == 0 .. MaxAlloca - 1
One(kind) == <<kind, 0>>
Each(kind, S) == {<<kind, i>> : i \in S}
All(kind) == Each(kind, Entries)

(* A call that needs some resources, hands out some and takes some back.   *)
(* A new one may be had beside one the kernel did not take back.           *)
Exchange(needs, gets, drops) ==
    /\ held' = (held \ drops) \union gets
    /\ misused' = misused \union ((needs \union drops) \ held)
                          \union ((gets \intersect held) \ refused)
    /\ UNCHANGED refused

Use(needs)           == Exchange(needs, {}, {})
Acquire(needs, gets) == Exchange(needs, gets, {})
Drop(drops)          == Exchange({}, {}, drops)

(* System calls that release may fail; the code logs it and goes on.  What *)
(* depends on the resources vanishes with them.                            *)
TryDrop(drops, dependent) ==
    \E stuck \in SUBSET drops :
       /\ stuck # {} => Cardinality(refused \union stuck) <= MaxRefused
       /\ held' = held \ ((drops \ stuck) \union
                          IF stuck = {} THEN dependent ELSE {})
       /\ misused' = misused \union (drops \ held)
       /\ refused' = refused \union stuck

Keep(R)   == known' = known \union R
Forget(R) == known' = known \ R
Release(R) == Drop(R) /\ Forget(R)

At(label)   == pc = label
Goto(label) == pc' = label
=============================================================================
