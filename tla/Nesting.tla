------------------------------ MODULE Nesting ------------------------------
(***************************************************************************)
(* Containers in containers (src/source/container.cpp, thing.cpp).  Where  *)
(* things lie is a function l from a thing to its parent: a container or   *)
(* something that is none, such as a player, a tile or nowhere.  The code  *)
(* walks up the parents in a loop; here what it meets is a least set, so   *)
(* that it needs no bound on the depth.                                    *)
(***************************************************************************)
CONSTANT Container   \* the things that hold things

\* The containers around i, at any depth: the least set that has the container i lies
\* in and those its members lie in, so c is one if no set without c has them all.
Around(l, i) ==
    {c \in Container : \A S \in SUBSET (Container \ {c}) :
        \E j \in S \cup {i} : l[j] \in Container \ S}

\* Thing::getTopParent: what i is in in the end, which is no container
TopOf(l, i) == CHOOSE x \in {l[j] : j \in {i} \cup Around(l, i)} : x \notin Container

=============================================================================
