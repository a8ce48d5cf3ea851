-------------------------- MODULE MCStaticLibOrder --------------------------
(***************************************************************************)
(* TLC instances of StaticLibOrder.                                        *)
(***************************************************************************)
EXTENDS StaticLibOrder

(* All lists over S without repetition.                                    *)
Lists(S) == UNION {SetToSeqs(T) : T \in SUBSET S}

(* The lists of one module whose libraries are among S, no library in both.*)
ListPairs(S) == {p \in Lists(S) \X Lists(S) : ToSet(p[1]) \cap ToSet(p[2]) = {}}

Declare(f) == [static |-> [m \in Module |-> f[m][1]], whole |-> [m \in Module |-> f[m][2]]]

Nothing == <<<<>>, <<>>>>

(* A binary 1 and three libraries, every declaration in which libraries    *)
(* have higher numbers; nothing uses the external library 5.               *)
SmallDeclarations ==
  {Declare(<<a, b, c, Nothing, Nothing>>) :
     a \in ListPairs({2, 3, 4}), b \in ListPairs({3, 4}), c \in ListPairs({4})}

(* Five modules below one another with at most one library in each list,   *)
(* under a binary with two static libraries of which 2 is one: long chains *)
(* of whole libraries, and libraries reached along several of them.        *)
Short(S) == {p \in ListPairs(S) : Len(p[1]) <= 1 /\ Len(p[2]) <= 1}

ChainDeclarations ==
  {Declare(<<<<a, <<>>>>, b, c, d, Nothing>>) :
     a \in {s \in Lists({2, 3, 4, 5}) : Len(s) = 2 /\ 2 \in ToSet(s)},
     b \in Short({3, 4, 5}), c \in Short({4, 5}), d \in Short({5})}

(* A library that is mentioned twice in one list, or in both lists.        *)
RepeatedDeclarations ==
  {Declare(<<a, b, <<<<>>, <<4>>>>, Nothing, Nothing>>) :
     a \in {<<2, 3, 2>>, <<3, 2, 4>>, <<3, 3, 2>>} \X {<<>>, <<2>>, <<4, 3, 4>>},
     b \in {<<3>>, <<3, 3>>, <<4, 3, 4>>} \X {<<>>, <<3>>, <<4, 4>>}}

AllDeclarations == SmallDeclarations \cup ChainDeclarations \cup RepeatedDeclarations
=============================================================================
