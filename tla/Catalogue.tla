----------------------------- MODULE Catalogue -----------------------------
(***************************************************************************)
(* The list of hosts of crates/ui/src/backend.rs and the references its    *)
(* hosts make to one another: a hop of a route is either spelled out or    *)
(* refers to another host, whose own route it stands for.                  *)
(*                                                                         *)
(* The list is held in memory and on disk.  The command loop edits both,   *)
(* the disk first, and nothing of it when the store fails.  A host is      *)
(* reduced to the set of hosts its route refers to, a list of hosts to a   *)
(* function from ids.  How the file is written, sealed and unlocked is the *)
(* subject of ConfigStore; here the config is open.                        *)
(***************************************************************************)
EXTENDS Naturals, FiniteSets, Profiles

CONSTANTS Demo,     \* the ids of the demo hosts of an empty installation
          MaxRefs   \* bound: reference hops in one route

\* A profile id is a UUID, of which there are finitely many.
ASSUME CatalogueAssumption ==
    /\ IsFiniteSet(Ids)
    /\ Demo \subseteq Ids
    /\ MaxRefs \in Nat
    /\ \A r \in SUBSET Ids : r # None

Contents == {r \in SUBSET Ids : Cardinality(r) <= MaxRefs}
Lists == [Ids -> Contents \cup {None}]
Empty == [i \in Ids |-> None]

VARIABLES
    mem,       \* the shared `profiles` list
    disk,      \* the document of the config
    file,      \* the last export of hosts, which is what an import reads
    left       \* the hosts an import has yet to merge

listVars == <<mem, disk, file, left>>

CatalogueOK ==
    /\ mem \in Lists
    /\ disk \in Lists
    /\ file \in Lists
    /\ left \in SUBSET Ids
    /\ \A i \in left : file[i] # None

Present(all) == {i \in Ids : all[i] # None}

\* demo_profiles: a fresh installation shows hosts that are on no disk.  Their
\* routes refer to nobody.  (Their ids are new at every start; no id of an
\* earlier start can be on a disk that is empty.)
DemoList == [i \in Ids |-> IF i \in Demo THEN {} ELSE None]

AtStart == IF disk = Empty THEN DemoList ELSE disk

CatalogueInit ==
    /\ disk = Empty
    /\ mem = DemoList
    /\ file = Empty
    /\ left = {}

-----------------------------------------------------------------------------
\* The algorithms on references.

\* What expand_hop works on: a list, a host of it, and the path that led there.
Chains == {x \in Lists \X Ids \X SUBSET Ids : x[1][x[2]] # None}

\* expand_hop over the hops of i: every hop refers to a host that is there and
\* is not being expanded already, and whose own hops expand.
Expand[x \in Chains] ==
    LET all == x[1]
        i == x[2]
        path == x[3]
    IN  \A r \in all[i] :
            /\ all[r] # None
            /\ r \notin path
            /\ Expand[<<all, r, path \cup {r}>>]

\* A mutated form of Resolves: the path is not popped, so a host that is reached
\* over two hops counts as a cycle.
ResolvesNoPop(all, i) ==
    \A r \in all[i] :
        /\ all[r] # None
        /\ r # i
        /\ all[r] \cap ({i} \cup all[i]) = {}

\* resolve_profile succeeds.
Resolves(all, i) == Expand[<<all, i, {i}>>]

\* ref_closure, round by round: what the hosts of a set refer to joins the set.
Missing(keep, all) == (UNION {all[i] : i \in keep \cap Present(all)}) \ keep

Closed[x \in Lists \X SUBSET Ids] ==
    LET all == x[1]
        keep == x[2]
    IN  IF Missing(keep, all) = {} THEN keep
        ELSE Closed[<<all, keep \cup Missing(keep, all)>>]

\* A mutated form of RefClosure: one level of references only.
RefClosureFlat(keep, all) == keep \cup Missing(keep, all)

\* ref_closure: the selected hosts and whatever they refer to.
RefClosure(keep, all) == Closed[<<all, keep>>]

-----------------------------------------------------------------------------
\* The command loop; an import keeps it busy until the last host.

LoopIdle == left = {}

\* The ids some list, file or route mentions: a new host has none of them.
Mentioned ==
    LET In(all) == Present(all) \cup UNION {all[i] : i \in Present(all)}
    IN  In(mem) \cup In(disk) \cup In(file)

\* A mutated form of SaveHost: the route is resolved against the list as it was.
SaveHostOldList(i, r) ==
    /\ LoopIdle
    /\ i \in Present(mem) \/ i \notin Mentioned
    /\ \A q \in r : mem[q] # None /\ Resolves(mem, q)
    /\ disk' = [disk EXCEPT ![i] = r]
    /\ mem' = [mem EXCEPT ![i] = r]
    /\ UNCHANGED <<file, left>>

\* "save_host", of a host of the list or of a new one: its route resolves in the
\* list as it will be, and the store takes it; else nothing changes.
SaveHost(i, r) ==
    /\ LoopIdle
    /\ i \in Present(mem) \/ i \notin Mentioned
    /\ Resolves([mem EXCEPT ![i] = r], i)
    /\ disk' = [disk EXCEPT ![i] = r]
    /\ mem' = [mem EXCEPT ![i] = r]
    /\ UNCHANGED <<file, left>>

\* "delete_host": refused while a host of the list refers to it.  A host that is
\* not on the disk leaves the list all the same.
DeleteHost(i) ==
    /\ LoopIdle
    /\ mem[i] # None
    /\ \A j \in Present(mem) : i \notin mem[j]
    /\ mem' = [mem EXCEPT ![i] = None]
    /\ disk' = [disk EXCEPT ![i] = None]
    /\ UNCHANGED <<file, left>>

\* A mutated form of ExportHosts: it does not wait for an import.
ExportHostsAnyTime(ids) ==
    /\ LET keep == RefClosure(ids, mem)
       IN  file' = [i \in Ids |-> IF i \in keep THEN mem[i] ELSE None]
    /\ UNCHANGED <<mem, disk, left>>

\* "export_hosts".
ExportHosts(ids) ==
    /\ LoopIdle
    /\ LET keep == RefClosure(ids, mem)
       IN  file' = [i \in Ids |-> IF i \in keep THEN mem[i] ELSE None]
    /\ UNCHANGED <<mem, disk, left>>

\* "import_hosts": the hosts of the file are merged one by one.
ImportBegin ==
    /\ LoopIdle
    /\ file # Empty
    /\ left' = Present(file)
    /\ UNCHANGED <<mem, disk, file>>

\* A mutated form of ImportOne: a host that is there already is kept.
ImportOneKeepsOld(i) ==
    /\ i \in left
    /\ disk' = [disk EXCEPT ![i] = IF @ = None THEN file[i] ELSE @]
    /\ mem' = [mem EXCEPT ![i] = IF @ = None THEN file[i] ELSE @]
    /\ left' = left \ {i}
    /\ UNCHANGED file

ImportOne(i) ==
    /\ i \in left
    /\ disk' = [disk EXCEPT ![i] = file[i]]
    /\ mem' = [mem EXCEPT ![i] = file[i]]
    /\ left' = left \ {i}
    /\ UNCHANGED file

\* The store refuses a host, and the import stops there.
ImportFails ==
    /\ left # {}
    /\ left' = {}
    /\ UNCHANGED <<mem, disk, file>>

\* The program ends and is started again.
Restart ==
    /\ mem' = AtStart
    /\ left' = {}
    /\ UNCHANGED <<disk, file>>

-----------------------------------------------------------------------------
Edit ==
    \/ \E i \in Ids, r \in Contents : SaveHost(i, r)
    \/ \E i \in Ids : DeleteHost(i)

CatalogueNext ==
    \/ Edit
    \/ \E ids \in (SUBSET Present(mem)) \ {{}} : ExportHosts(ids)
    \/ ImportBegin
    \/ \E i \in Ids : ImportOne(i)
    \/ ImportFails
    \/ Restart

CatalogueSpec == CatalogueInit /\ [][CatalogueNext]_listVars

-----------------------------------------------------------------------------
\* The hosts whose references lead to hosts of the list and come to an end: the
\* least set that holds a host once it holds all the hosts it refers to.
WellFounded(all, i) ==
    \A X \in SUBSET Ids :
        (\A j \in Present(all) : all[j] \subseteq X => j \in X) => i \in X

\* The recursion of expand_hop, with its path, finds exactly the routes that
\* have no dangling and no circular reference, however the hosts share hops.
ResolveIsSound ==
    \A i \in Present(mem) : Resolves(mem, i) <=> WellFounded(mem, i)

\* Saving or deleting a host never spoils the route of another one, although
\* save_host resolves only the host it saves and delete_host looks only for
\* direct references.  A restart spoils none either, unless it leads through a
\* demo host that is on no disk.
EditsSpareOthers ==
    [][Edit \/ Restart =>
          \A i \in Present(mem) \cap Present(mem') :
              /\ Resolves(mem, i)
              /\ mem'[i] = mem[i]
              /\ Edit \/ \A r \in RefClosure({i}, mem) : disk[r] # None
              => Resolves(mem', i)]_listVars

\* An exported host resolves among the exported hosts if it resolved in the
\* list: the export carries its dependencies (ref_closure).
ExportCarriesRefs ==
    [][\A i \in Present(file') :
          file' # file /\ Resolves(mem, i) => Resolves(file', i)]_listVars

\* An import that gets to its end leaves every imported host as usable on the
\* disk as it was in the file, whatever the disk already said of some of them.
ImportKeepsRoutes ==
    [][(\E i \in left : ImportOne(i) /\ left' = {}) =>
          \A i \in Present(file) : Resolves(file, i) => Resolves(disk', i)]_listVars
=============================================================================
