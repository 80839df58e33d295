------------------------------ MODULE SPHContext -----------------------------
(* Contexts and project contexts (sphcontext.cpp).  A context is a block with a
   small heap and two trees: the string B-tree has the address value of every
   name, the index the name of every address value, as a pointer to a copy of
   the name in the heap.  A call takes the lock of its context, and of the trees
   one after the other, so a call on one context is one step.

   The root context names the project contexts of the region.  The calls that
   set up, remove and destroy a project hold the lock of the region's low end
   while they make several calls on the root, so each of those is a step, and
   calls that do not take that lock come in between.

   The trees are the maps that the index is shown to be (SASIndex). *)
EXTENDS FreeList, Functions

CONSTANTS Process,
          Names,         \* of projects and of other things
          Projects,      \* the names of projects
          Length,        \* the length of each name
          Addrs,         \* address values other than contexts
          NULL,
          Blocks,        \* blocks the region has for contexts
          RootSize,      \* the heap of the root context, and
          ProjectSize,   \* of a project context
          MaxCalls

Block == 1..Blocks
Values == Addrs \cup Block \cup {NULL}

\* The steps of the project calls.
Steps == {"find", "create", "add", "undo", "remove", "destroy"}

\* What the index keeps of a name: its copy in the heap.
Copies == [at : Nat, name : Names]

\* The data of a context: its heap, the string B-tree and the index.
Context ==
    [size  : Nat,
     list  : Seq([at : Nat, size : Nat]),
     name  : UNION {[S -> Values] : S \in SUBSET Names},
     objID : UNION {[S -> Copies] : S \in SUBSET Values}]

\* The heap of a context is the rest of its block after the header, whole nodes.
ASSUME ContextAssumption ==
    /\ NULL \notin Names \cup Addrs \cup Process \cup Nat \cup Steps
    /\ NULL \notin Copies /\ NULL \notin Context
    /\ Addrs \cap Nat = {}
    /\ Projects \subseteq Names /\ Length \in [Names -> Nat \ {0}]
    /\ Blocks \in Nat \ {0}
    /\ \A size \in {RootSize, ProjectSize} : size \in Nat \ {0} /\ size % NodeAlign = 0

VARIABLES context,    \* the context in each block, NULL when the block is free
          finder,     \* the root context, which the anchor of the region points to
          current,    \* currentContext of each process
          held,       \* another context each process got from the last call that gave one
          rootlock,   \* the process that holds the lock of the low end
          job,        \* the project call a process is in
          removed,    \* contexts SPHRemoveProjectContext gave to a program, to destroy or to keep
          answer,     \* what the last call that may change a context returned, for each context
          calls

vars == <<context, finder, current, held, rootlock, job, removed, answer, calls>>

----------------------------------------------------------------------------
(* The trees, by what they promise. *)

NoKeys == << >>

TreeGet(tree, key) == IF key \in DOMAIN tree THEN tree[key] ELSE NULL

\* A key that is there is refused.
TreePut(tree, key, val) == [k \in DOMAIN tree \cup {key} |-> IF k \in DOMAIN tree THEN tree[k] ELSE val]

TreeRemove(tree, key) == Restrict(tree, DOMAIN tree \ {key})

----------------------------------------------------------------------------
(* The calls on one context, as functions of it. *)

SPHContextInit(size) ==
    [size |-> size, list |-> <<Piece(0, size)>>, name |-> NoKeys, objID |-> NoKeys]

\* A piece of the heap for a name: where it was, or NULL, and the list without it.
SPHContextAllocNoLock(c, size) ==
    LET i == FirstFit(c.list, Round(size))
    IN  IF size >= c.size \/ i = 0 THEN [at |-> NULL, list |-> c.list]
        ELSE [at |-> c.list[i].at, list |-> AllocNode(c.list, i, Round(size))]

SPHContextFreeNoLock(c, at, size) == [c EXCEPT !.list = DeallocSpace(@, at, size)]

\* The size asked for the copy of a name.
NameSize(name) == Length[name] + 1

\* A result is the context after the call, and whether it succeeded.
Result(c, ok) == [context |-> c, ok |-> ok]

SPHContextAddNameNoLock_Fault(c, name, value) ==
    LET buff  == SPHContextAllocNoLock(c, NameSize(name))
        taken == [c EXCEPT !.list = buff.list]
        named == [taken EXCEPT !.name = TreePut(@, name, value)]
    IN  IF buff.at = NULL THEN Result(c, FALSE)
        ELSE IF name \in DOMAIN c.name
             THEN Result(SPHContextFreeNoLock(taken, buff.at, NameSize(name)), FALSE)
        ELSE IF value \in DOMAIN c.objID
             THEN Result(SPHContextFreeNoLock(named, buff.at, NameSize(name)), FALSE)
        ELSE Result([named EXCEPT !.objID = TreePut(@, value, [at |-> buff.at, name |-> name])], TRUE)

\* A copy of the name is made first; the value is entered under the name, the copy under the
\* value, and what was done is taken back when one of the keys is there already.
SPHContextAddNameNoLock(c, name, value) ==
    LET buff  == SPHContextAllocNoLock(c, NameSize(name))
        taken == [c EXCEPT !.list = buff.list]
        named == [taken EXCEPT !.name = TreePut(@, name, value)]
        back  == [named EXCEPT !.name = TreeRemove(@, name)]
    IN  IF buff.at = NULL THEN Result(c, FALSE)
        ELSE IF name \in DOMAIN c.name
             THEN Result(SPHContextFreeNoLock(taken, buff.at, NameSize(name)), FALSE)
        ELSE IF value \in DOMAIN c.objID
             THEN Result(SPHContextFreeNoLock(back, buff.at, NameSize(name)), FALSE)
        ELSE Result([named EXCEPT !.objID = TreePut(@, value, [at |-> buff.at, name |-> name])], TRUE)

SPHContextFindByNameNoLock(c, name) == TreeGet(c.name, name)

\* The copy of the name that belongs to an address value.
SPHContextFindByAddrNoLock(c, value) == TreeGet(c.objID, value)

\* The copy of the name is freed before the keys go.
SPHContextRemoveByNameNoLock(c, name) ==
    LET value   == SPHContextFindByNameNoLock(c, name)
        strbuff == SPHContextFindByAddrNoLock(c, value)
        freed   == SPHContextFreeNoLock(c, strbuff.at, NameSize(strbuff.name))
    IN  IF value = NULL \/ strbuff = NULL THEN Result(c, FALSE)
        ELSE Result([freed EXCEPT !.objID = TreeRemove(@, value), !.name = TreeRemove(@, name)], TRUE)

\* The copy of the name is freed after the keys went, and without its end: one byte less.
SPHContextRemoveByAddrNoLock(c, value) ==
    LET strbuff == SPHContextFindByAddrNoLock(c, value)
        without == [c EXCEPT !.objID = TreeRemove(@, value), !.name = TreeRemove(@, strbuff.name)]
    IN  IF strbuff = NULL THEN Result(c, FALSE)
        ELSE IF SPHContextFindByNameNoLock(c, strbuff.name) # value THEN Result(c, FALSE)
        ELSE Result(SPHContextFreeNoLock(without, strbuff.at, Length[strbuff.name]), TRUE)

SPHContextRename(c, old, new, value) ==
    LET oldval == SPHContextFindByNameNoLock(c, old)
    IN  IF oldval # NULL /\ oldval = value
        THEN SPHContextAddNameNoLock(SPHContextRemoveByNameNoLock(c, old).context, new, value)
        ELSE Result(c, FALSE)

----------------------------------------------------------------------------
(* Processes. *)

Idle == [call |-> NULL, name |-> NULL, step |-> NULL, context |-> NULL]

Init ==
    /\ context = [b \in Block |-> NULL]
    /\ finder = NULL /\ rootlock = NULL
    /\ current = [p \in Process |-> NULL] /\ held = [p \in Process |-> NULL]
    /\ job = [p \in Process |-> Idle]
    /\ removed = {} /\ answer = [b \in Block |-> NULL]
    /\ calls = 0

Begin(p) == job[p] = Idle /\ calls < MaxCalls /\ calls' = calls + 1

IsContext(b) == b # NULL /\ context[b] # NULL

\* The context in block b is what the call made of it.
Becomes(b, result) ==
    context' = [context EXCEPT ![b] = result.context] /\ answer' = [answer EXCEPT ![b] = result.ok]

\* The contexts a process works with, besides the root.
Handles(p) == {b \in {current[p], held[p]} : IsContext(b)}

\* A call of process p on one of its contexts, or on the root.
CallOn(p, b, result) ==
    /\ Begin(p) /\ Becomes(b, result)
    /\ UNCHANGED <<finder, current, held, rootlock, job, removed>>

AddName(p, b, name, value) == CallOn(p, b, SPHContextAddNameNoLock(context[b], name, value))
Rename(p, b, old, new, value) == CallOn(p, b, SPHContextRename(context[b], old, new, value))
RemoveByName(p, b, name) == CallOn(p, b, SPHContextRemoveByNameNoLock(context[b], name))
RemoveByAddr(p, b, value) == CallOn(p, b, SPHContextRemoveByAddrNoLock(context[b], value))

FreeBlocks == {b \in Block : context[b] = NULL}
LowestFree == CHOOSE b \in FreeBlocks : \A d \in FreeBlocks : b <= d

\* A new context in a block: SPHContextCreate when there is one.
Created(ctx, b, size) == [ctx EXCEPT ![b] = SPHContextInit(size)]

\* The block goes back to the region.
SPHContextDestroy(b) ==
    context' = [context EXCEPT ![b] = NULL] /\ answer' = [answer EXCEPT ![b] = NULL]

\* A program destroys a context that no longer belongs to a project.
Destroy(p, b) ==
    /\ Begin(p) /\ b \in removed
    /\ SPHContextDestroy(b)
    /\ removed' = removed \ {b}
    /\ UNCHANGED <<finder, current, held, rootlock, job>>

SetupCalls == {"setup", "setupAlt"}
RemoveCalls == {"remove", "destroy"}

ProjectCall_Fault(p, call, name) ==
    /\ Begin(p)
    /\ rootlock' = p
    /\ job' = [job EXCEPT ![p] = [call |-> call, name |-> name, step |-> "find", context |-> NULL]]
    /\ IF call \in SetupCalls /\ finder = NULL
       THEN finder' = LowestFree /\ context' = Created(context, LowestFree, RootSize)
       ELSE UNCHANGED <<finder, context>>
    /\ UNCHANGED <<current, held, removed, answer>>

\* A project call gets the lock of the low end; a setup makes the root context when there is none.
ProjectCall(p, call, name) ==
    /\ Begin(p) /\ rootlock = NULL
    /\ rootlock' = p
    /\ job' = [job EXCEPT ![p] = [call |-> call, name |-> name, step |-> "find", context |-> NULL]]
    /\ IF call \in SetupCalls /\ finder = NULL
       THEN finder' = LowestFree /\ context' = Created(context, LowestFree, RootSize)
       ELSE UNCHANGED <<finder, context>>
    /\ UNCHANGED <<current, held, removed, answer>>

At(p, call, step) == job[p].call \in call /\ job[p].step = step

\* The call goes on with another step, or returns.
Goes(p, step, b) ==
    /\ job' = [job EXCEPT ![p].step = step, ![p].context = b]
    /\ UNCHANGED <<current, held, rootlock>>

Ends(p) == job' = [job EXCEPT ![p] = Idle] /\ rootlock' = NULL

\* What a setup found or made becomes the current context, or is only returned.
SetupReturns(p, result) ==
    /\ Ends(p)
    /\ current' = IF job[p].call = "setup" THEN [current EXCEPT ![p] = result] ELSE current
    /\ held' = IF job[p].call = "setupAlt" THEN [held EXCEPT ![p] = result] ELSE held

\* A process forgets its current context when that is the one it removed or destroyed.
Forgets(p, b) == current' = IF current[p] = b THEN [current EXCEPT ![p] = NULL] ELSE current

SetupFind(p) ==
    /\ At(p, SetupCalls, "find")
    /\ LET found == SPHContextFindByNameNoLock(context[finder], job[p].name)
       IN  IF found # NULL THEN SetupReturns(p, found) ELSE Goes(p, "create", NULL)
    /\ UNCHANGED <<context, finder, removed, answer, calls>>

SetupCreate(p) ==
    /\ At(p, SetupCalls, "create")
    /\ IF FreeBlocks = {} THEN SetupReturns(p, NULL) /\ UNCHANGED context
       ELSE Goes(p, "add", LowestFree) /\ context' = Created(context, LowestFree, ProjectSize)
    /\ UNCHANGED <<finder, removed, answer, calls>>

SetupAdd(p) ==
    /\ At(p, SetupCalls, "add")
    /\ LET added == SPHContextAddNameNoLock(context[finder], job[p].name, job[p].context)
       IN  /\ Becomes(finder, added)
           /\ IF added.ok THEN SetupReturns(p, job[p].context) ELSE Goes(p, "undo", job[p].context)
    /\ UNCHANGED <<finder, removed, calls>>

SetupUndo_Fault(p) ==
    /\ At(p, SetupCalls, "undo")
    /\ SetupReturns(p, NULL)
    /\ UNCHANGED <<context, finder, removed, answer, calls>>

\* The root had no room for the name, or has it.
SetupUndo(p) ==
    /\ At(p, SetupCalls, "undo")
    /\ SPHContextDestroy(job[p].context)
    /\ SetupReturns(p, NULL)
    /\ UNCHANGED <<finder, removed, calls>>

RemoveFind(p) ==
    /\ At(p, RemoveCalls, "find")
    /\ LET found == IF finder = NULL THEN NULL
                    ELSE SPHContextFindByNameNoLock(context[finder], job[p].name)
       IN  IF found # NULL THEN Goes(p, "remove", found) ELSE Ends(p) /\ UNCHANGED <<current, held>>
    /\ UNCHANGED <<context, finder, removed, answer, calls>>

\* The name goes first; SPHRemoveProjectContext returns the context.
RemoveRemove(p) ==
    /\ At(p, RemoveCalls, "remove")
    /\ LET out == SPHContextRemoveByNameNoLock(context[finder], job[p].name)
           b   == job[p].context
       IN  /\ Becomes(finder, out)
           /\ IF ~out.ok THEN Ends(p) /\ UNCHANGED <<current, held, removed>>
              ELSE IF job[p].call = "destroy" THEN Goes(p, "destroy", b) /\ UNCHANGED removed
              ELSE /\ Ends(p) /\ Forgets(p, b)
                   /\ held' = [held EXCEPT ![p] = b] /\ removed' = removed \cup {b}
    /\ UNCHANGED <<finder, calls>>

DestroyDestroy(p) ==
    /\ At(p, RemoveCalls, "destroy")
    /\ SPHContextDestroy(job[p].context)
    /\ Ends(p) /\ Forgets(p, job[p].context)
    /\ UNCHANGED <<finder, held, removed, calls>>

\* getProjectContextByName takes the lock of the root context only.
GetProjectContextByName(p, name) ==
    /\ Begin(p) /\ finder # NULL
    /\ held' = [held EXCEPT ![p] = SPHContextFindByNameNoLock(context[finder], name)]
    /\ UNCHANGED <<context, finder, current, rootlock, job, removed, answer>>

\* A call on a context of a process.
ContextCall(p) ==
    \E b \in Handles(p) :
        \/ \E name \in Names, value \in Addrs \cup {NULL} : AddName(p, b, name, value)
        \/ \E old, new \in Names, value \in Addrs : Rename(p, b, old, new, value)
        \/ \E name \in Names : RemoveByName(p, b, name)
        \/ \E value \in Addrs \cup {NULL} : RemoveByAddr(p, b, value)

\* The root is a context like the others, and programs enter other things than projects there.
RootCall(p) ==
    /\ finder # NULL
    /\ \/ \E name \in Names \ Projects, value \in Addrs : AddName(p, finder, name, value)
       \/ \E name \in Names \ Projects : RemoveByName(p, finder, name)

Next ==
    \E p \in Process :
        \/ ContextCall(p)
        \/ RootCall(p)
        \/ \E call \in SetupCalls \cup RemoveCalls, name \in Projects : ProjectCall(p, call, name)
        \/ SetupFind(p) \/ SetupCreate(p) \/ SetupAdd(p) \/ SetupUndo(p)
        \/ RemoveFind(p) \/ RemoveRemove(p) \/ DestroyDestroy(p)
        \/ \E name \in Projects : GetProjectContextByName(p, name)
        \/ \E b \in Block : Destroy(p, b)

Spec == Init /\ [][Next]_vars

----------------------------------------------------------------------------
(* What must hold. *)

\* The two trees of a context have the same associations, each in its direction.
TreesAgree(c) ==
    /\ DOMAIN c.objID = Range(c.name)
    /\ \A n \in DOMAIN c.name : c.objID[c.name[n]].name = n

\* The memory of the copy of a name.
CopyOf(strbuff) == Covers(Piece(strbuff.at, Round(NameSize(strbuff.name))))

\* The copies lie apart, within the heap, and none is in free memory.
CopiesApart(c) ==
    /\ IsFreeList(c.list)
    /\ \A v \in DOMAIN c.objID :
          /\ CopyOf(c.objID[v]) \subseteq 0..(c.size - 1) \ Free(c.list)
          /\ \A w \in DOMAIN c.objID \ {v} : CopyOf(c.objID[v]) \cap CopyOf(c.objID[w]) = {}

\* The contexts of the projects, and those a project call makes or destroys.
Named == {b \in Block : \E n \in Projects : TreeGet(context[finder].name, n) = b}
InCalls == {job[p].context : p \in {q \in Process : job[q].step \in {"add", "undo", "destroy"}}}

\* Every project's name in the root leads to a context that is there, and every context belongs to
\* one project, to the call that makes or destroys it, or to the program it was returned to.
ProjectsHaveContexts ==
    finder # NULL =>
        /\ Named \cup InCalls \cup removed \cup {finder} = Block \ FreeBlocks
        /\ Named \cap InCalls = {} /\ (Named \cup InCalls) \cap removed = {}
        /\ \A n \in Projects \cap DOMAIN context[finder].name : context[finder].name[n] \in Block \ {finder}

\* A name and its address value lead to each other, through every partial failure of an add; the
\* name found for a value is never in memory that was freed (sphcontext.cpp: SPHContextAddNameNoLock,
\* SPHContextRemoveByNameNoLock, SPHContextRemoveByAddrNoLock); and the steps of the project calls
\* neither lose a context nor leave a name without one (SPHSetupProjectContext).
ContextInv ==
    /\ \A b \in Block : context[b] # NULL => TreesAgree(context[b]) /\ CopiesApart(context[b])
    /\ ProjectsHaveContexts

\* A setup ends without a context only when the region has no block or the root no room for the
\* name, whatever other processes set up and destroy (sphcontext.cpp: SPHSetupProjectContext).
SetupFailsOnlyWhenFull ==
    [][ \A p \in Process :
          (SetupCreate(p) \/ SetupAdd(p)) =>
              \/ job'[p] # Idle /\ job'[p].step # "undo"
              \/ job[p].step = "create" /\ FreeBlocks = {}
              \/ job[p].step = "add" /\ SPHContextAllocNoLock(context[finder], NameSize(job[p].name)).at = NULL
              \/ TreeGet(context'[finder].name, job[p].name) = job[p].context ]_vars

Contents(c) == IF c = NULL THEN NoKeys ELSE c.name

Contexts == INSTANCE Associations WITH Books <- Block, assoc <- [b \in Block |-> Contents(context[b])]

\* Every context is a book of associations: each call of each process changes it and answers as
\* Associations says (sphcontext.cpp: AddName, Rename, RemoveByName, RemoveByAddr).
ImplementsAssociations == Contexts!Spec

=============================================================================
