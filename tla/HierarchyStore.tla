--------------------------- MODULE HierarchyStore ---------------------------
(***************************************************************************)
(* One customer's hierarchy_node rows and their closure table              *)
(* branch_ancestor_path, written by concurrent admin requests: POST /import *)
(* with a dump of devices, and POST /node with a single node. A request is *)
(* one READ COMMITTED transaction: the upsert locks its rows one by one,   *)
(* and every later statement sees what is committed when it starts.        *)
(***************************************************************************)
EXTENDS HierarchyParser

CONSTANTS
    Nodes,        \* node ids
    Absent,       \* no such row
    Admins,       \* the requests that may run at once
    Dumps,        \* the bodies of POST /import: sequences of [device, path]
    Edits,        \* the bodies of POST /node: [node, parent]
    EditsAlone,   \* administrators edit while no other request runs
    MaxRequests,  \* bound: requests
    MaxFaults     \* bound: lost connections and crashes

\* upsert_nodes of a whole import, and of the one node of an edit.
ImportBatches == {Batch(d) : d \in Dumps}
EditBatches   == {Deduped(<<e>>) : e \in Edits}
Batches       == ImportBatches \cup EditBatches

Rows == UNION {[S -> Nodes \cup {None}] : S \in SUBSET Nodes}

ASSUME StoreAssumption ==
    /\ HeadOffice \in Nodes /\ None \notin Nodes /\ Absent \notin Nodes \cup {None}
    /\ Dumps \subseteq Seq([device : Nodes, path : Seq(Nodes)])
    /\ Edits \subseteq [node : Nodes, parent : Nodes \cup {None}]
    /\ EditsAlone \in BOOLEAN
    /\ MaxRequests \in Nat /\ MaxFaults \in Nat

VARIABLES
    parent,   \* hierarchy_node: node -> its parent, None, or Absent
    paths,    \* branch_ancestor_path: <<node, ancestor>>
    pc,       \* request -> the statement it is at
    writes,   \* request -> the rows of its upsert
    todo,     \* request -> those it has not locked yet
    seen,     \* request -> the hierarchy its rebuild works on
    doomed,   \* request -> the closure rows its DELETE found
    gone,     \* request -> the closure rows it deleted
    fresh,    \* request -> the closure rows it inserted
    requests, faults

session == <<pc, writes, todo, seen, doomed, gone, fresh>>
vars    == <<parent, paths, session, requests, faults>>

Nothing == [n \in {} |-> None]
Exists  == {n \in Nodes : parent[n] # Absent}
Stored  == [n \in Exists |-> parent[n]]

\* Walking from each node to its parent until there is none: the ancestors of every
\* node, itself included. The walk leaves the hierarchy at a parent it does not hold.
Chain(rows, n) ==
    LET up[k \in Nat] ==
          IF k = 0 THEN {n}
          ELSE up[k - 1] \cup {rows[m] : m \in up[k - 1] \cap DOMAIN rows}
    IN up[Cardinality(DOMAIN rows)] \ {None}
Closure(rows) == UNION {{n} \X Chain(rows, n) : n \in DOMAIN rows}

\* The walk ends: no nodes have all their parents among themselves.
Acyclic(rows) == ~ \E S \in SUBSET DOMAIN rows : S # {} /\ \A n \in S : rows[n] \in S

\* What an import brings is a tree that holds every parent it names: the first
\* occurrence of a node follows that of its parent.
TreeImports ==
    \A b \in ImportBatches :
        Acyclic(b.parent) /\ \A n \in DOMAIN b.parent : b.parent[n] \in {None} \cup DOMAIN b.parent

\* Every dump has a device below the head office: a path of more than the bank's name.
RootedDumps ==
    \A d \in Dumps : \E i \in DOMAIN d : Len(SplitFullPath(d[i].path, d[i].device)) > 1

Init ==
    /\ parent = [n \in Nodes |-> Absent]
    /\ paths = {}
    /\ pc = [t \in Admins |-> "idle"]
    /\ writes = [t \in Admins |-> Nothing]
    /\ todo = [t \in Admins |-> <<>>]
    /\ seen = [t \in Admins |-> Nothing]
    /\ doomed = [t \in Admins |-> {}]
    /\ gone = [t \in Admins |-> {}]
    /\ fresh = [t \in Admins |-> {}]
    /\ requests = 0 /\ faults = 0

GoTo(t, label) == pc' = [pc EXCEPT ![t] = label]

\* A transaction that ends leaves nothing behind in its session.
End(t) ==
    /\ GoTo(t, "idle")
    /\ writes' = [writes EXCEPT ![t] = Nothing]
    /\ todo' = [todo EXCEPT ![t] = <<>>]
    /\ seen' = [seen EXCEPT ![t] = Nothing]
    /\ gone' = [gone EXCEPT ![t] = {}]
    /\ fresh' = [fresh EXCEPT ![t] = {}]

\* A rollback.
Undo(t) == End(t) /\ doomed' = [doomed EXCEPT ![t] = {}]

----------------------------------------------------------------------------
(* Row locks. *)

Locked(t) == DOMAIN writes[t] \ ToSet(todo[t])

\* What t waits for another transaction to end: a row lock of the upsert, a closure
\* row the other deleted, or a key it inserted.
Waits(t, u) ==
    /\ t # u
    /\ \/ pc[t] = "upsert" /\ todo[t] # <<>> /\ Head(todo[t]) \in Locked(u)
       \/ pc[t] = "deleting" /\ doomed[t] \cap gone[u] # {}
       \/ pc[t] = "walk" /\ Acyclic(seen[t]) /\ Closure(seen[t]) \cap (fresh[u] \cup gone[u]) # {}

Free(t) == \A u \in Admins : ~ Waits(t, u)
Deadlocked(t) == t \in UNION {S \in SUBSET Admins : \A s \in S : \E u \in S : Waits(s, u)}

----------------------------------------------------------------------------
(* The statements of a request. *)

Importing(t) == writes[t] \in {b.parent : b \in ImportBatches}

\* Nothing in the code keeps requests apart: with EditsAlone, those who send them do.
Apart(b) == \A u \in Admins : pc[u] = "idle" \/ (Importing(u) /\ b \in ImportBatches)

Begin(t) ==
    /\ pc[t] = "idle" /\ requests < MaxRequests
    /\ \E b \in Batches :
        /\ ~ EditsAlone \/ Apart(b)
        /\ writes' = [writes EXCEPT ![t] = b.parent]
        /\ todo' = [todo EXCEPT ![t] = b.order]
    /\ GoTo(t, "upsert")
    /\ requests' = requests + 1
    /\ UNCHANGED <<parent, paths, seen, doomed, gone, fresh, faults>>

LockRow(t) ==
    /\ pc[t] = "upsert" /\ todo[t] # <<>>
    /\ Free(t)
    /\ todo' = [todo EXCEPT ![t] = Tail(@)]
    /\ UNCHANGED <<parent, paths, pc, writes, seen, doomed, gone, fresh, requests, faults>>

\* Every parent must be a row the transaction can see.
ForeignKeysHold(t) ==
    \A n \in DOMAIN writes[t] : writes[t][n] \in {None} \cup Exists \cup DOMAIN writes[t]

\* The committed rows and the transaction's own.
Visible(t) ==
    [n \in Exists \cup DOMAIN writes[t] |->
        IF n \in DOMAIN writes[t] THEN writes[t][n] ELSE parent[n]]

ReadNodes(t) ==
    /\ pc[t] = "upsert" /\ todo[t] = <<>>
    /\ ForeignKeysHold(t)
    /\ seen' = [seen EXCEPT ![t] = Visible(t)]
    /\ GoTo(t, "delete")
    /\ UNCHANGED <<parent, paths, writes, todo, doomed, gone, fresh, requests, faults>>

\* DELETE finds the committed rows, then waits for those another one is deleting.
FindPaths(t) ==
    /\ pc[t] = "delete"
    /\ doomed' = [doomed EXCEPT ![t] = {r \in paths : r[1] \in DOMAIN seen[t]}]
    /\ GoTo(t, "deleting")
    /\ UNCHANGED <<parent, paths, writes, todo, seen, gone, fresh, requests, faults>>

DeletePaths(t) ==
    /\ pc[t] = "deleting"
    /\ Free(t)
    /\ gone' = [gone EXCEPT ![t] = doomed[t]]
    /\ GoTo(t, "walk")
    /\ UNCHANGED <<parent, paths, writes, todo, seen, doomed, fresh, requests, faults>>

KeysHold(t) == Closure(seen[t]) \cap (paths \ gone[t]) = {}

InsertPaths(t) ==
    /\ pc[t] = "walk"
    /\ Acyclic(seen[t])
    /\ Free(t)
    /\ KeysHold(t)
    /\ fresh' = [fresh EXCEPT ![t] = Closure(seen[t])]
    /\ GoTo(t, "commit")
    /\ UNCHANGED <<parent, paths, writes, todo, seen, doomed, gone, requests, faults>>

\* Mutant: the request commits before the rebuild.
CommitNodesOnly(t) ==
    /\ pc[t] = "commit"
    /\ parent' = [n \in Nodes |-> IF n \in DOMAIN writes[t] THEN writes[t][n] ELSE parent[n]]
    /\ Undo(t)
    /\ UNCHANGED <<paths, requests, faults>>

\* A row that another DELETE waits for is gone then, even if the same row is
\* inserted anew.
Commit(t) ==
    /\ pc[t] = "commit"
    /\ parent' = [n \in Nodes |-> IF n \in DOMAIN writes[t] THEN writes[t][n] ELSE parent[n]]
    /\ paths' = (paths \ gone[t]) \cup fresh[t]
    /\ doomed' = [u \in Admins |-> IF u = t THEN {} ELSE doomed[u] \ gone[t]]
    /\ End(t)
    /\ UNCHANGED <<requests, faults>>

\* A violated constraint, or being chosen as a deadlock's victim, rolls the request back.
Refuse(t) ==
    /\ \/ pc[t] = "upsert" /\ todo[t] = <<>> /\ ~ ForeignKeysHold(t)
       \/ pc[t] = "walk" /\ Acyclic(seen[t]) /\ Free(t) /\ ~ KeysHold(t)
       \/ Deadlocked(t)
    /\ Undo(t)
    /\ UNCHANGED <<parent, paths, requests, faults>>

\* So does a lost connection or a crash.
Abort(t) ==
    /\ pc[t] # "idle"
    /\ faults < MaxFaults /\ faults' = faults + 1
    /\ Undo(t)
    /\ UNCHANGED <<parent, paths, requests>>

Step(t) ==
    \/ LockRow(t) \/ ReadNodes(t) \/ FindPaths(t) \/ DeletePaths(t)
    \/ InsertPaths(t) \/ Commit(t) \/ Refuse(t)

Next == \E t \in Admins : Begin(t) \/ Step(t) \/ Abort(t)

Spec == Init /\ [][Next]_vars

\* PostgreSQL grants locks, detects deadlocks and answers.
FairSpec == Spec /\ \A t \in Admins : WF_vars(Step(t))

----------------------------------------------------------------------------
(* Properties. *)

\* The closure table holds the ancestors of every node and nothing else, whatever
\* imports are under way at once and whatever was edited between them: region scopes
\* and area answers are read from it.
ClosureExact == paths = Closure(Stored)

\* An import never starts a walk that does not end, whatever single-node edits and
\* other imports left in the table.
NoEndlessWalk == \A t \in Admins : pc[t] = "walk" /\ Importing(t) => Acyclic(seen[t])

\* Every import ends, committed or refused: PostgreSQL breaks the deadlocks of imports
\* that lock the same rows in different orders.
ImportsEnd == \A t \in Admins : Importing(t) ~> pc[t] = "idle"
=============================================================================
