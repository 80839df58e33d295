----------------------------- MODULE Associations ----------------------------
(* What contexts promise (sphcontext.h): each has associations of names and
   address values, one to one, and the answer of the last call on it that may
   change them.  NULL is an address value like the others, but an association
   with it is found by its address only. *)
EXTENDS Functions

CONSTANTS Books, Names, Values, NULL

VARIABLES assoc,    \* the value of every name, in each book
          answer    \* of each book: TRUE when the last call succeeded, NULL before the first one

vars == <<assoc, answer>>

Init == assoc = [b \in Books |-> << >>] /\ answer = [b \in Books |-> NULL]

CanAdd(book, name, value) == name \notin DOMAIN book /\ value \notin Range(book)

With(book, name, value) == [n \in DOMAIN book \cup {name} |-> IF n = name THEN value ELSE book[n]]
Without(book, name) == Restrict(book, DOMAIN book \ {name})

Answers(b, book, ok) == assoc' = [assoc EXCEPT ![b] = book] /\ answer' = [answer EXCEPT ![b] = ok]

\* Also when name and value are new there may be no memory for the name.
Add(b, name, value) ==
    \/ CanAdd(assoc[b], name, value) /\ Answers(b, With(assoc[b], name, value), TRUE)
    \/ Answers(b, assoc[b], FALSE)

IsFound(b, name) == name \in DOMAIN assoc[b] /\ assoc[b][name] # NULL

RemoveByName(b, name) ==
    \/ IsFound(b, name) /\ Answers(b, Without(assoc[b], name), TRUE)
    \/ ~IsFound(b, name) /\ Answers(b, assoc[b], FALSE)

RemoveByAddr(b, value) ==
    \/ \E name \in DOMAIN assoc[b] : assoc[b][name] = value /\ Answers(b, Without(assoc[b], name), TRUE)
    \/ value \notin Range(assoc[b]) /\ Answers(b, assoc[b], FALSE)

\* A rename that fails has lost the association when it found it.
Rename(b, old, new, value) ==
    LET rest == Without(assoc[b], old)
    IN  \/ /\ IsFound(b, old) /\ assoc[b][old] = value
           /\ \/ CanAdd(rest, new, value) /\ Answers(b, With(rest, new, value), TRUE)
              \/ Answers(b, rest, FALSE)
        \/ ~(IsFound(b, old) /\ assoc[b][old] = value) /\ Answers(b, assoc[b], FALSE)

\* The context is destroyed; its block may become a new one.
Clear(b) == Answers(b, << >>, NULL)

Next ==
    \E b \in Books :
        \/ Clear(b)
        \/ \E name \in Names : RemoveByName(b, name)
        \/ \E value \in Values : RemoveByAddr(b, value)
        \/ \E name \in Names, value \in Values :
              \/ Add(b, name, value)
              \/ \E new \in Names : Rename(b, name, new, value)

Spec == Init /\ [][Next]_vars

=============================================================================
