---------------------------- MODULE HostsProofs ----------------------------
(***************************************************************************)
(* Theorems about the saved hosts, for any number of them: first about the *)
(* file they are kept in (ConfigStore), then about the list of them and    *)
(* the references they make to one another (Catalogue).                    *)
(*                                                                         *)
(* The store implements AtomicDoc, a sealed config is never silently       *)
(* unsealed, and a broken one is never overwritten.  A route resolves just *)
(* when its references come to an end, and no edit, export or import       *)
(* spoils one.                                                             *)
(***************************************************************************)
EXTENDS ConfigStore, Catalogue, FiniteSetTheorems, WellFoundedInduction, TLAPS

-----------------------------------------------------------------------------
\* The file.

\* Where the operation has a document in hand, and where it is writing it.
Holding == {"migrate", "mrename", "mremove", "apply"}
Writing == {"write", "rename"}

\* The document in hand is the one on the disk, or that one with the request
\* applied, and the temp file holds it when it is about to be renamed.
DocInHand ==
    /\ pc \in Holding => doc = DiskDoc
    /\ pc \in Writing => doc = Promise!Apply(req, DiskDoc)
    /\ pc \in {"mrename", "rename"} => tmp \in Images /\ tmp.doc = doc

\* What an operation knows of config.json at each step.
ConfigSeen ==
    /\ pc \in {"migrate", "mrename"} => config = Absent /\ legacy # Absent
    /\ pc \in {"mremove", "cleanup"} => config \in Images
    /\ pc \in Holding \cup Writing => config # Broken

\* An operation that may write over a sealed config holds a key or unseals.
KeyInHand ==
    /\ pc \in {"mremove", "apply"} /\ Sealed(config) => crypto # None
    /\ pc = "mrename" /\ Sealed(tmp) => crypto # None
    /\ pc = "write" /\ Sealed(config) => crypto # None \/ req.kind = "unseal"
    /\ pc = "rename" /\ Sealed(config) => Sealed(tmp) \/ req.kind = "unseal"

Inv == TypeOK /\ DocInHand /\ ConfigSeen /\ KeyInHand

-----------------------------------------------------------------------------
\* A record for a file image, and its fields.
LEMMA ImageType ==
    ASSUME crypto \in Keys \cup {None}, NEW d \in Docs
    PROVE  /\ Image(d) \in Images
           /\ Image(d).doc = d
           /\ crypto # None <=> Sealed(Image(d))
BY StoreAssumption DEF Image, Images, Sealed

\* The disk always has a document, or is broken.
LEMMA DiskDocType ==
    ASSUME TypeOK
    PROVE  /\ DiskDoc \in Docs \cup {Broken}
           /\ config # Broken => DiskDoc \in Docs
BY FileAssumption DEF TypeOK, DiskDoc, Images, EmptyDoc, Docs

\* The edit of a request keeps a document a document.
LEMMA ApplyType ==
    ASSUME NEW r \in Requests, NEW d \in Docs
    PROVE  Promise!Apply(r, d) \in Docs
BY DEF Promise!Apply, Requests, Puts, Docs

LEMMA InitInv == Init => Inv
BY FileAssumption, StoreAssumption
DEF Init, Inv, TypeOK, DocInHand, ConfigSeen, KeyInHand, Holding, Writing,
    Steps, Requests, EmptyDoc, Docs

\* Steps that touch neither the files nor what an operation holds.
LEMMA FrameInv ==
    ASSUME Inv, TypeOK', UNCHANGED <<config, tmp, legacy, doc>>,
           \/ pc' \in {"boot", "idle", "read"}
           \/ UNCHANGED <<pc, req>> /\ (crypto = crypto' \/ crypto' # None)
    PROVE  Inv'
BY DEF Inv, DocInHand, ConfigSeen, KeyInHand, DiskDoc, Sealed, Holding,
       Writing, Promise!Apply

LEMMA TypeStep == TypeOK /\ DocInHand /\ [Next]_vars => TypeOK'
<1> SUFFICES ASSUME TypeOK, DocInHand, [Next]_vars PROVE TypeOK'
  OBVIOUS
<1> USE DEF TypeOK, files, Requests, Steps, Return, Accept, Ask
<1>1. CASE UNCHANGED vars
  BY <1>1 DEF vars
<1>2. CASE Boot
  BY <1>2 DEF Boot
<1>3. ASSUME NEW r \in Puts, Put(r) PROVE TypeOK'
  BY <1>3 DEF Put
<1>4. ASSUME NEW kind \in {"seal", "unseal"}, ConfigPin(kind) PROVE TypeOK'
  BY <1>4 DEF ConfigPin
<1>5. CASE StoreStep
  <2>1. CASE ReadDoc
    BY <2>1 DEF ReadDoc, Images, EmptyDoc, Docs
  <2>2. CASE WriteTmp("migrate", "mrename") \/ WriteTmp("write", "rename")
    BY <2>2, ImageType DEF WriteTmp
  <2>3. CASE Rename("mrename", "mremove") \/ Rename("rename", "cleanup")
    <3>1. tmp \in Images
      BY <2>3 DEF Rename, DocInHand
    <3> QED
      BY <2>3, <3>1 DEF Rename
  <2>4. CASE RemoveLegacy \/ Cleanup \/ WriteFails \/ ApplyLoad
    BY <2>4 DEF RemoveLegacy, Cleanup, WriteFails, ApplyLoad
  <2>5. CASE ApplyPut
    BY <2>5 DEF ApplyPut, Puts, Docs
  <2>6. ASSUME NEW k \in Keys, ApplySeal(k) PROVE TypeOK'
    BY <2>6 DEF ApplySeal
  <2> QED
    BY <1>5, <2>1, <2>2, <2>3, <2>4, <2>5, <2>6 DEF StoreStep
<1>6. ASSUME NEW t \in Tasks, NEW pin \in Pins, Answer(t, pin) PROVE TypeOK'
  BY <1>6 DEF Answer, Sealed, Images
<1>7. ASSUME NEW t \in Tasks, Dismiss(t) \/ Unlock(t) PROVE TypeOK'
  BY <1>7 DEF Dismiss, Unlock
<1>8. CASE Crash
  BY <1>8 DEF Crash
<1> QED
  BY <1>1, <1>2, <1>3, <1>4, <1>5, <1>6, <1>7, <1>8 DEF Next

\* The steps of a store operation preserve the invariant.
LEMMA StoreStepInv == Inv /\ StoreStep => Inv'
<1> SUFFICES ASSUME Inv, StoreStep PROVE Inv'
  OBVIOUS
<1>0. TypeOK /\ TypeOK'
  BY TypeStep DEF Inv, Next
<1> USE DEF Inv, DocInHand, ConfigSeen, KeyInHand, Holding, Writing, Return,
            files
<1>1. CASE ReadDoc
  BY <1>0, <1>1, FileAssumption, StoreAssumption
  DEF ReadDoc, DiskDoc, Sealed, TypeOK, Images
<1>2. CASE WriteTmp("migrate", "mrename") \/ WriteTmp("write", "rename")
  <2>1. /\ tmp' \in Images /\ tmp'.doc = doc
        /\ crypto # None <=> Sealed(tmp')
    BY <1>0, <1>2, ImageType DEF WriteTmp, TypeOK
  <2> QED
    BY <1>0, <1>2, <2>1 DEF WriteTmp, DiskDoc, Promise!Apply, Sealed
<1>3. CASE Rename("mrename", "mremove")
  BY <1>0, <1>3, FileAssumption DEF Rename, DiskDoc
<1>4. CASE Rename("rename", "cleanup")
  BY <1>0, <1>4, FileAssumption DEF Rename
<1>5. CASE RemoveLegacy
  BY <1>0, <1>5, FileAssumption DEF RemoveLegacy, DiskDoc, Sealed
<1>6. CASE Cleanup \/ WriteFails \/ ApplyLoad
  BY <1>0, <1>6 DEF Cleanup, WriteFails, ApplyLoad
<1>7. CASE ApplyPut
  BY <1>0, <1>7 DEF ApplyPut, DiskDoc, Promise!Apply, Sealed
<1>8. ASSUME NEW k \in Keys, ApplySeal(k) PROVE Inv'
  BY <1>0, <1>8, StoreAssumption
  DEF ApplySeal, DiskDoc, Promise!Apply, Sealed, TypeOK, Requests
<1> QED
  BY <1>1, <1>2, <1>3, <1>4, <1>5, <1>6, <1>7, <1>8 DEF StoreStep

LEMMA NextInv == Inv /\ [Next]_vars => Inv'
<1> SUFFICES ASSUME Inv, [Next]_vars PROVE Inv'
  OBVIOUS
<1>0. TypeOK /\ TypeOK'
  BY TypeStep DEF Inv
<1> USE DEF files, Accept, Return
<1>1. CASE UNCHANGED vars
  BY <1>0, <1>1, FrameInv DEF vars
<1>2. CASE Boot
  BY <1>0, <1>2, FrameInv DEF Boot
<1>3. ASSUME NEW r \in Puts, Put(r) PROVE Inv'
  BY <1>0, <1>3, FrameInv DEF Put
<1>4. ASSUME NEW kind \in {"seal", "unseal"}, ConfigPin(kind) PROVE Inv'
  <2>1. pc' \in {"idle", "read"}
    BY <1>4 DEF ConfigPin
  <2> QED
    BY <1>0, <1>4, <2>1, FrameInv DEF ConfigPin
<1>5. CASE StoreStep
  BY <1>5, StoreStepInv
<1>6. ASSUME NEW t \in Tasks, NEW pin \in Pins, Answer(t, pin) PROVE Inv'
  BY <1>0, <1>6, FrameInv DEF Answer
<1>7. ASSUME NEW t \in Tasks, Dismiss(t) PROVE Inv'
  BY <1>0, <1>7, FrameInv DEF Dismiss
<1>8. ASSUME NEW t \in Tasks, Unlock(t) PROVE Inv'
  BY <1>0, <1>8, FrameInv, StoreAssumption DEF Unlock
<1>9. CASE Crash
  BY <1>0, <1>9
  DEF Crash, Inv, DocInHand, ConfigSeen, KeyInHand, Holding, Writing
<1> QED
  BY <1>1, <1>2, <1>3, <1>4, <1>5, <1>6, <1>7, <1>8, <1>9 DEF Next

\* The types of the files, of the key and of the operation.
THEOREM TypeCorrect == Spec => []TypeOK
<1>1. Inv => TypeOK
  BY DEF Inv
<1> QED
  BY InitInv, NextInv, <1>1, PTL DEF Spec

-----------------------------------------------------------------------------
\* What AtomicDoc sees of a request in progress.
Pending == IF pc \in InEffect THEN None ELSE req

\* Every step of the store is a step of AtomicDoc or changes nothing there.
LEMMA Simulation ==
    Inv /\ Inv' /\ [Next]_vars => [Promise!Next]_<<DiskDoc, Pending>>
<1> SUFFICES ASSUME Inv, Inv', [Next]_vars
             PROVE  \/ Promise!Next
                    \/ DiskDoc' = DiskDoc /\ Pending' = Pending
  BY DEF Pending
<1> USE DEF files, Pending, InEffect, Accept, Return
<1>1. CASE UNCHANGED vars
  BY <1>1 DEF vars, DiskDoc
<1>2. ASSUME NEW r \in Requests, pc \in InEffect, Accept(r),
             UNCHANGED <<config, legacy>>
      PROVE  Promise!Next
  BY <1>2 DEF Promise!Next, Promise!Submit, Requests, Puts, DiskDoc
<1>3. ASSUME pc' \in InEffect, UNCHANGED <<config, legacy>>
      PROVE  Promise!Next
  BY <1>3 DEF Promise!Next, Promise!Abort, DiskDoc
<1>4. CASE Boot
  BY <1>2, <1>3, <1>4 DEF Boot, Requests
<1>5. ASSUME NEW r \in Puts, Put(r) PROVE Promise!Next
  BY <1>2, <1>5 DEF Put, Requests
<1>6. ASSUME NEW kind \in {"seal", "unseal"}, ConfigPin(kind)
      PROVE  Promise!Next
  BY <1>2, <1>3, <1>6 DEF ConfigPin, Requests
<1>7. CASE StoreStep
  <2>1. CASE Rename("mrename", "mremove")
    BY <2>1, FileAssumption
    DEF Rename, Inv, DocInHand, ConfigSeen, DiskDoc, Holding
  <2>2. CASE Rename("rename", "cleanup")
    <3>1. /\ tmp \in Images
          /\ tmp.doc = Promise!Apply(req, DiskDoc)
          /\ DiskDoc \in Docs
      BY <2>2, DiskDocType
      DEF Rename, Inv, DocInHand, ConfigSeen, Holding, Writing
    <3>2. DiskDoc' = Promise!Apply(req, DiskDoc)
      <4>1. config' \in Images /\ config'.doc = tmp.doc
        BY <2>2, <3>1 DEF Rename
      <4>2. DiskDoc' = config'.doc
        BY <4>1, FileAssumption DEF DiskDoc
      <4> QED
        BY <3>1, <4>1, <4>2
    <3>3. req # None
      BY FileAssumption DEF Inv, TypeOK
    <3> QED
      BY <2>2, <3>1, <3>2, <3>3
      DEF Rename, Promise!Next, Promise!Commit, Docs, Promise!Docs
  <2>3. CASE RemoveLegacy \/ Cleanup
    <3>1. config \in Images /\ config' = config
      BY <2>3 DEF RemoveLegacy, Cleanup, Inv, ConfigSeen
    <3> QED
      BY <2>3, <3>1 DEF RemoveLegacy, Cleanup, DiskDoc
  <2>4. CASE \/ WriteTmp("migrate", "mrename") \/ WriteTmp("write", "rename")
             \/ \E k \in Keys : ApplySeal(k)
    BY <2>4 DEF WriteTmp, ApplySeal, DiskDoc
  <2>5. CASE ReadDoc \/ ApplyPut \/ ApplyLoad \/ WriteFails
    <3>1. UNCHANGED <<config, legacy>>
      BY <2>5 DEF ReadDoc, ApplyPut, ApplyLoad, WriteFails
    <3>2. CASE pc' \in InEffect
      BY <1>3, <3>1, <3>2
    <3>3. CASE pc' \notin InEffect
      <4>1. UNCHANGED Pending
        BY <2>5, <3>3 DEF ReadDoc, ApplyPut, ApplyLoad, WriteFails
      <4> QED
        BY <3>1, <4>1 DEF DiskDoc
    <3> QED
      BY <3>2, <3>3
  <2> QED
    BY <1>7, <2>1, <2>2, <2>3, <2>4, <2>5 DEF StoreStep
<1>8. ASSUME NEW t \in Tasks, NEW pin \in Pins, Answer(t, pin)
      PROVE  DiskDoc' = DiskDoc /\ Pending' = Pending
  BY <1>8 DEF Answer, DiskDoc
<1>9. ASSUME NEW t \in Tasks, Dismiss(t) \/ Unlock(t)
      PROVE  DiskDoc' = DiskDoc /\ Pending' = Pending
  BY <1>9 DEF Dismiss, Unlock, DiskDoc
<1>10. CASE Crash
  BY <1>3, <1>10 DEF Crash
<1> QED
  BY <1>1, <1>4, <1>5, <1>6, <1>7, <1>8, <1>9, <1>10 DEF Next

\* The store implements AtomicDoc: every edit reaches the disk whole and once,
\* or not at all, whatever fails and whenever the process dies.
THEOREM AtomicEdits == Spec => KeepsPromise
BY InitInv, NextInv, Simulation, PTL
DEF Spec, KeepsPromise, Promise!Spec, Pending

-----------------------------------------------------------------------------
\* A sealed config is replaced by a plain one only on the user's request.
THEOREM NeverSilentlyUnsealed == Spec => NoSilentUnseal
<1>1. Inv /\ [Next]_vars
        => [Sealed(config) /\ ~Sealed(config') => req.kind = "unseal"]_vars
  <2> SUFFICES ASSUME Inv, Next, Sealed(config), ~Sealed(config')
               PROVE  req.kind = "unseal"
    OBVIOUS
  <2>1. config' # config
    OBVIOUS
  <2>2. Rename("mrename", "mremove") \/ Rename("rename", "cleanup")
    BY <2>1
    DEF Next, Boot, Put, ConfigPin, StoreStep, ReadDoc, WriteTmp, RemoveLegacy,
        ApplyPut, ApplySeal, ApplyLoad, WriteFails, Cleanup, Answer, Dismiss,
        Unlock, Crash, files
  <2>3. CASE Rename("mrename", "mremove")
    BY <2>3, FileAssumption DEF Rename, Inv, ConfigSeen, Sealed
  <2>4. CASE Rename("rename", "cleanup")
    BY <2>4 DEF Rename, Inv, KeyInHand
  <2> QED
    BY <2>2, <2>3, <2>4
<1> QED
  BY InitInv, NextInv, <1>1, PTL DEF Spec, NoSilentUnseal

\* A config with a broken envelope stays as it is.
THEOREM BrokenStays == Spec => BrokenNeverClobbered
<1>1. Inv /\ [Next]_vars => [config = Broken => config' = Broken]_vars
  <2> SUFFICES ASSUME Inv, Next, config = Broken PROVE config' = config
    OBVIOUS
  <2>1. ~Rename("mrename", "mremove") /\ ~Rename("rename", "cleanup")
    BY DEF Rename, Inv, ConfigSeen, Holding, Writing
  <2> QED
    BY <2>1
    DEF Next, Boot, Put, ConfigPin, StoreStep, ReadDoc, WriteTmp, RemoveLegacy,
        ApplyPut, ApplySeal, ApplyLoad, WriteFails, Cleanup, Answer, Dismiss,
        Unlock, Crash, files
<1> QED
  BY InitInv, NextInv, <1>1, PTL DEF Spec, BrokenNeverClobbered

-----------------------------------------------------------------------------
\* The list.

\* A set of hosts that holds whatever its hosts refer to.
Hereditary(all, Z) == \A z \in Z \cap Present(all) : all[z] \subseteq Z

\* The least such set around keep.
Hull(all, keep) ==
    {x \in Ids : \A Z \in SUBSET Ids : keep \subseteq Z /\ Hereditary(all, Z) => x \in Z}

\* A set that holds a host once it holds all the host refers to (see WellFounded).
Progressive(all, X) == \A j \in Present(all) : all[j] \subseteq X => j \in X

\* What is on the disk is in the list as well, and says the same there.
DiskInMem == \A i \in Ids : disk[i] # None => mem[i] = disk[i]

\* While an import runs, what it has merged is on the disk as it is in the file.
ImportSoFar == left # {} => \A i \in Present(file) \ left : disk[i] = file[i]

CatalogueInv == CatalogueOK /\ DiskInMem /\ ImportSoFar

-----------------------------------------------------------------------------
\* A set of numbers has a least one.
LEMMA LeastNumber ==
    ASSUME NEW S \in SUBSET Nat, S # {}
    PROVE  \E m \in S : \A k \in S : m <= k
<1>1. \E m \in S : \A k \in S : <<k, m>> \notin OpToRel(<, Nat)
  BY NatLessThanWellFounded, WFMin
<1>2. PICK m \in S : \A k \in S : <<k, m>> \notin OpToRel(<, Nat)
  BY <1>1
<1>3. \A k \in S : ~(k < m)
  BY <1>2 DEF OpToRel
<1> QED  BY <1>3

\* A set of paths has one that none of the others extends.
LEMMA LongestPath ==
    ASSUME NEW F \in SUBSET SUBSET Ids, F # {}
    PROVE  \E M \in F : \A P \in F : M \subseteq P => P = M
<1> DEFINE rest(P) == Cardinality(Ids \ P)
<1>1. \A P \in F : IsFiniteSet(Ids \ P) /\ rest(P) \in Nat
  BY CatalogueAssumption, FS_Subset, FS_CardinalityType
<1> DEFINE S == {rest(P) : P \in F}
<1>2. \E m \in S : \A k \in S : m <= k
  <2>1. S \in SUBSET Nat /\ S # {}
    BY <1>1
  <2> HIDE DEF S
  <2> QED  BY <2>1, LeastNumber
<1>3. PICK M \in F : \A P \in F : rest(M) <= rest(P)
  BY <1>2
<1>4. ASSUME NEW P \in F, M \subseteq P
      PROVE  P = M
  <2>1. Ids \ P \in SUBSET (Ids \ M)
    BY <1>4
  <2>2. rest(P) <= rest(M) /\ (rest(M) = rest(P) => Ids \ M = Ids \ P)
    BY <2>1, <1>1, FS_Subset
  <2>3. rest(M) = rest(P)
    <3>1. rest(M) \in Nat /\ rest(P) \in Nat /\ rest(M) <= rest(P)
      BY <1>1, <1>3
    <3> HIDE DEF rest
    <3> QED  BY <3>1, <2>2
  <2> QED  BY <2>2, <2>3
<1> QED  BY <1>3, <1>4

\* What is in a list.
LEMMA RefsType ==
    ASSUME NEW all \in Lists, NEW i \in Ids, all[i] # None
    PROVE  all[i] \in Contents /\ all[i] \subseteq Ids
BY DEF Lists, Contents

-----------------------------------------------------------------------------
\* expand_hop.  The recursion has a solution, the largest set of chains in which
\* every reference is good and leads to another of the set.
LEMMA ExpandExists ==
    \E f : f = [x \in Chains |->
                 \A r \in x[1][x[2]] : /\ x[1][r] # None
                                       /\ r \notin x[3]
                                       /\ f[<<x[1], r, x[3] \cup {r}>>]]
<1> DEFINE next(x, r) == <<x[1], r, x[3] \cup {r}>>
           good(x, Y) == \A r \in x[1][x[2]] : x[1][r] # None /\ r \notin x[3] /\ next(x, r) \in Y
           G == {x \in Chains : \E Y \in SUBSET Chains : x \in Y /\ \A y \in Y : good(y, Y)}
           f == [x \in Chains |-> x \in G]
<1>1. ASSUME NEW x \in G
      PROVE  good(x, G)
  <2>1. PICK Y \in SUBSET Chains : x \in Y /\ \A y \in Y : good(y, Y)
    OBVIOUS
  <2>2. Y \subseteq G
    BY <2>1
  <2> QED  BY <2>1, <2>2
<1>2. ASSUME NEW x \in Chains, good(x, G)
      PROVE  x \in G
  <2>1. \A y \in G \cup {x} : good(y, G \cup {x})
    BY <1>1, <1>2
  <2>2. G \cup {x} \in SUBSET Chains
    OBVIOUS
  <2> QED  BY <2>1, <2>2
<1>3. ASSUME NEW x \in Chains, NEW r \in x[1][x[2]], x[1][r] # None
      PROVE  next(x, r) \in Chains
  BY <1>3, RefsType DEF Chains
<1>4. ASSUME NEW x \in Chains
      PROVE  x \in G <=> \A r \in x[1][x[2]] : /\ x[1][r] # None
                                               /\ r \notin x[3]
                                               /\ f[next(x, r)]
  <2>1. x \in G <=> good(x, G)
    BY <1>1, <1>2
  <2>2. ASSUME NEW r \in x[1][x[2]], x[1][r] # None
        PROVE  f[next(x, r)] <=> next(x, r) \in G
    BY <1>3, <2>2
  <2> HIDE DEF f, G, next
  <2> QED  BY <2>1, <2>2
<1>5. f = [x \in Chains |-> \A r \in x[1][x[2]] : /\ x[1][r] # None
                                                  /\ r \notin x[3]
                                                  /\ f[next(x, r)]]
  <2>1. ASSUME NEW x \in Chains
        PROVE  f[x] = \A r \in x[1][x[2]] : /\ x[1][r] # None
                                            /\ r \notin x[3]
                                            /\ f[next(x, r)]
    <3> DEFINE P == x \in G
               Q == \A r \in x[1][x[2]] : x[1][r] # None /\ r \notin x[3] /\ f[next(x, r)]
    <3>1. f[x] = P /\ (P <=> Q)
      BY <1>4
    <3>2. P \in BOOLEAN /\ Q \in BOOLEAN
      BY SMT
    <3> HIDE DEF P, Q
    <3>3. f[x] = Q
      BY <3>1, <3>2
    <3> QED  BY <3>3 DEF Q
  <2>2. f = [x \in Chains |-> f[x]]
    OBVIOUS
  <2> HIDE DEF f
  <2> QED  BY <2>1, <2>2
<1> HIDE DEF f
<1> QED  BY <1>5

\* expand_hop does what its recursion says.
LEMMA ExpandRule ==
    ASSUME NEW all \in Lists, NEW i \in Present(all), NEW path \in SUBSET Ids
    PROVE  Expand[<<all, i, path>>] <=>
             \A r \in all[i] : /\ all[r] # None
                               /\ r \notin path
                               /\ Expand[<<all, r, path \cup {r}>>]
<1> DEFINE P(f) == f = [x \in Chains |->
                 \A r \in x[1][x[2]] : /\ x[1][r] # None
                                       /\ r \notin x[3]
                                       /\ f[<<x[1], r, x[3] \cup {r}>>]]
<1>1. P(CHOOSE f : P(f))
  BY ExpandExists
<1>2. P(Expand)
  BY <1>1 DEF Expand
<1> DEFINE x == <<all, i, path>>
<1>3. x \in Chains /\ x[1] = all /\ x[2] = i /\ x[3] = path
  BY DEF Chains, Present
<1>4. Expand[x] <=> \A r \in x[1][x[2]] : /\ x[1][r] # None
                                        /\ r \notin x[3]
                                        /\ Expand[<<x[1], r, x[3] \cup {r}>>]
  <2>1. \A y \in Chains :
          Expand[y] = \A r \in y[1][y[2]] : /\ y[1][r] # None
                                            /\ r \notin y[3]
                                            /\ Expand[<<y[1], r, y[3] \cup {r}>>]
    BY <1>2, Zenon
  <2> HIDE DEF x
  <2> QED  BY <2>1, <1>3, Zenon
<1> QED  BY <1>3, <1>4

-----------------------------------------------------------------------------
\* ref_closure.  Its recursion has a solution too, the hull of the set.
LEMMA MissingType ==
    ASSUME NEW all \in Lists, NEW keep \in SUBSET Ids
    PROVE  /\ Missing(keep, all) \in SUBSET Ids
           /\ Missing(keep, all) \cap keep = {}
           /\ Missing(keep, all) = {} <=> Hereditary(all, keep)
<1>1. \A z \in keep \cap Present(all) : all[z] \subseteq Ids
  BY RefsType DEF Present
<1>2. \A r : r \in Missing(keep, all) <=>
             r \notin keep /\ \E z \in keep \cap Present(all) : r \in all[z]
  <2> DEFINE K == keep \cap Present(all)
             U == UNION {all[i] : i \in K}
  <2>1. \A r : r \in U <=> \E z \in K : r \in all[z]
    <3> HIDE DEF K
    <3> QED  BY Zenon
  <2>2. Missing(keep, all) = U \ keep
    BY DEF Missing
  <2> HIDE DEF K, U
  <2>3. \A r : r \in Missing(keep, all) <=> r \notin keep /\ \E z \in K : r \in all[z]
    BY <2>1, <2>2
  <2> QED  BY <2>3 DEF K
<1>3. Missing(keep, all) \in SUBSET Ids /\ Missing(keep, all) \cap keep = {}
  BY <1>1, <1>2
<1>4. Missing(keep, all) = {} <=> Hereditary(all, keep)
  BY <1>2 DEF Hereditary
<1> QED  BY <1>3, <1>4

LEMMA HullRule ==
    ASSUME NEW all \in Lists, NEW keep \in SUBSET Ids
    PROVE  Hull(all, keep) = IF Missing(keep, all) = {} THEN keep
                             ELSE Hull(all, keep \cup Missing(keep, all))
<1>1. CASE Missing(keep, all) = {}
  BY <1>1, MissingType DEF Hull
<1>2. ASSUME NEW Z \in SUBSET Ids, Hereditary(all, Z), keep \subseteq Z
      PROVE  Missing(keep, all) \subseteq Z
  BY <1>2 DEF Hereditary, Missing
<1>3. Hull(all, keep) = Hull(all, keep \cup Missing(keep, all))
  BY <1>2 DEF Hull
<1> QED  BY <1>1, <1>3

LEMMA ClosedRule ==
    ASSUME NEW all \in Lists, NEW keep \in SUBSET Ids
    PROVE  Closed[<<all, keep>>] =
             IF Missing(keep, all) = {} THEN keep
             ELSE Closed[<<all, keep \cup Missing(keep, all)>>]
<1> DEFINE D == Lists \X SUBSET Ids
           P(f) == f = [x \in D |->
                          IF Missing(x[2], x[1]) = {} THEN x[2]
                          ELSE f[<<x[1], x[2] \cup Missing(x[2], x[1])>>]]
           h == [x \in D |-> Hull(x[1], x[2])]
<1>1. P(h)
  <2>1. ASSUME NEW x \in D
        PROVE  h[x] = IF Missing(x[2], x[1]) = {} THEN x[2]
                      ELSE h[<<x[1], x[2] \cup Missing(x[2], x[1])>>]
    <3>1. x[1] \in Lists /\ x[2] \in SUBSET Ids
      OBVIOUS
    <3>2. <<x[1], x[2] \cup Missing(x[2], x[1])>> \in D
      BY <3>1, MissingType
    <3> QED  BY <3>1, <3>2, HullRule
  <2>2. h = [x \in D |-> h[x]]
    OBVIOUS
  <2> HIDE DEF h
  <2> QED  BY <2>1, <2>2
<1> HIDE DEF h
<1>2. P(CHOOSE f : P(f))
  BY <1>1
<1>3. P(Closed)
  BY <1>2 DEF Closed
<1> DEFINE x == <<all, keep>>
<1>4. x \in D /\ x[1] = all /\ x[2] = keep
  OBVIOUS
<1>5. Closed[x] = IF Missing(x[2], x[1]) = {} THEN x[2]
                  ELSE Closed[<<x[1], x[2] \cup Missing(x[2], x[1])>>]
  <2> HIDE DEF x
  <2> QED  BY <1>3, <1>4
<1> QED  BY <1>4, <1>5

\* ref_closure ends, and finds the hull: the selected hosts and whatever they
\* refer to, over any number of references.
THEOREM RefClosureIsHull ==
    ASSUME NEW all \in Lists, NEW keep \in SUBSET Ids
    PROVE  RefClosure(keep, all) = Hull(all, keep)
<1> DEFINE F == {k \in SUBSET Ids : Closed[<<all, k>>] # Hull(all, k)}
<1>1. F = {}
  <2> SUFFICES ASSUME F # {} PROVE FALSE
    OBVIOUS
  <2>1. PICK M \in F : \A k \in F : M \subseteq k => k = M
    <3>1. F \in SUBSET SUBSET Ids
      OBVIOUS
    <3> HIDE DEF F
    <3> QED  BY <3>1, LongestPath
  <2> DEFINE next == M \cup Missing(M, all)
  <2>2. Missing(M, all) # {}
    BY ClosedRule, HullRule
  <2>3. next \in SUBSET Ids /\ next # M
    <3>1. Missing(M, all) \in SUBSET Ids /\ Missing(M, all) \cap M = {}
      BY MissingType
    <3> QED  BY <3>1, <2>2
  <2>4. next \notin F
    BY <2>1, <2>3
  <2>5. Closed[<<all, next>>] = Hull(all, next)
    BY <2>3, <2>4
  <2> QED  BY <2>2, <2>5, ClosedRule, HullRule
<1> QED  BY <1>1 DEF RefClosure

LEMMA HullFacts ==
    ASSUME NEW all \in Lists, NEW keep \in SUBSET Ids
    PROVE  /\ Hull(all, keep) \in SUBSET Ids
           /\ keep \subseteq Hull(all, keep)
           /\ Hereditary(all, Hull(all, keep))
<1>1. ASSUME NEW z \in Hull(all, keep) \cap Present(all), NEW r \in all[z]
      PROVE  r \in Hull(all, keep)
  <2>1. r \in Ids
    BY RefsType DEF Present
  <2>2. \A Z \in SUBSET Ids : keep \subseteq Z /\ Hereditary(all, Z) => r \in Z
    BY DEF Hull, Hereditary
  <2> QED  BY <2>1, <2>2 DEF Hull
<1> QED  BY <1>1 DEF Hull, Hereditary

-----------------------------------------------------------------------------
\* A chain of references without end cannot get past expand_hop: somewhere it
\* comes back to a host of its own path.
LEMMA ResolvedIsWellFounded ==
    ASSUME NEW all \in Lists, NEW i \in Present(all), Resolves(all, i)
    PROVE  WellFounded(all, i)
<1> SUFFICES ASSUME NEW X \in SUBSET Ids, Progressive(all, X), i \notin X
             PROVE  FALSE
  BY DEF WellFounded, Progressive
<1> DEFINE F == {p \in SUBSET Ids : \E j \in Present(all) \ X : Expand[<<all, j, p>>]}
<1>1. F \in SUBSET SUBSET Ids /\ {i} \in F
  BY DEF Resolves, Present
<1>2. PICK M \in F : \A p \in F : M \subseteq p => p = M
  <2> HIDE DEF F
  <2> QED  BY <1>1, LongestPath
<1>3. PICK j \in Present(all) \ X : Expand[<<all, j, M>>]
  OBVIOUS
<1>4. PICK r \in all[j] : r \notin X
  BY DEF Progressive
<1>5. all[r] # None /\ r \notin M /\ Expand[<<all, r, M \cup {r}>>]
  BY <1>3, ExpandRule
<1>6. r \in Ids
  BY RefsType DEF Present
<1>7. M \cup {r} \in F
  BY <1>4, <1>5, <1>6 DEF Present
<1> QED  BY <1>2, <1>5, <1>7

\* expand_hop never takes a shared host for a circle: where the references come to
\* an end, no host is met again below itself.
LEMMA WellFoundedIsResolved ==
    ASSUME NEW all \in Lists, NEW i \in Present(all), WellFounded(all, i)
    PROVE  Resolves(all, i)
<1> DEFINE Below(j) == Hull(all, all[j])
           X == {j \in Present(all) :
                   /\ j \notin Below(j)
                   /\ \A p \in SUBSET Ids : Below(j) \cap p = {} => Expand[<<all, j, p>>]}
<1>1. ASSUME NEW j \in Present(all), all[j] \subseteq X
      PROVE  j \in X
  <2>1. all[j] \in SUBSET Ids /\ j \in Ids
    BY RefsType DEF Present
  <2>2. ASSUME NEW r \in all[j]
        PROVE  /\ r \in Present(all) /\ r \in Ids /\ all[r] \in SUBSET Ids
               /\ r \in Below(j) /\ r \notin Below(r)
               /\ Below(r) \subseteq Below(j)
    <3>1. r \in Present(all) /\ r \in Ids /\ all[r] \in SUBSET Ids /\ r \notin Below(r)
      BY <1>1, RefsType DEF Present
    <3>2. r \in Below(j) /\ all[r] \subseteq Below(j)
      BY <2>1, <3>1, HullFacts DEF Hereditary
    <3>3. \A Z \in SUBSET Ids : all[j] \subseteq Z /\ Hereditary(all, Z) => all[r] \subseteq Z
      BY <3>1 DEF Hereditary
    <3>4. Below(r) \subseteq Below(j)
      BY <3>3 DEF Hull
    <3> QED  BY <3>1, <3>2, <3>4
  <2>3. j \notin Below(j)
    <3> DEFINE Z == {z \in Ids : z \in all[j] \/ \E r \in all[j] : z \in Below(r)}
    <3>1. SUFFICES ASSUME j \in Below(j) PROVE FALSE
      OBVIOUS
    <3>2. Z \in SUBSET Ids /\ all[j] \subseteq Z
      BY <2>1
    <3>3. Hereditary(all, Z)
      <4>1. \A r \in all[j] : all[r] \subseteq Below(r) /\ Hereditary(all, Below(r))
        BY <2>2, HullFacts
      <4>2. ASSUME NEW z \in Z \cap Present(all), NEW y \in all[z]
            PROVE  y \in Z
        <5>1. PICK r \in all[j] : y \in Below(r)
          <6> HIDE DEF Below
          <6> QED  BY <4>1, <4>2 DEF Hereditary
        <5>2. y \in Ids
          BY RefsType DEF Present
        <5> QED  BY <5>1, <5>2
      <4> HIDE DEF Z
      <4> QED  BY <4>2 DEF Hereditary
    <3>4. j \in Z
      BY <3>1, <3>2, <3>3 DEF Hull
    <3>5. CASE j \in all[j]
      BY <1>1, <3>1, <3>5
    <3>6. ASSUME NEW r \in all[j], j \in Below(r)
          PROVE  FALSE
      <4>1. all[j] \subseteq Below(r)
        BY <2>2, <3>6, HullFacts DEF Hereditary
      <4> QED  BY <4>1, <2>2
    <3>7. j \in all[j] \/ \E r \in all[j] : j \in Below(r)
      <4> HIDE DEF Below
      <4> QED  BY <3>4
    <3> QED  BY <3>5, <3>6, <3>7
  <2>4. ASSUME NEW p \in SUBSET Ids, Below(j) \cap p = {}
        PROVE  Expand[<<all, j, p>>]
    <3>1. ASSUME NEW r \in all[j]
          PROVE  all[r] # None /\ r \notin p /\ Expand[<<all, r, p \cup {r}>>]
      <4>1. Below(r) \cap (p \cup {r}) = {} /\ p \cup {r} \in SUBSET Ids
        BY <2>2, <2>4
      <4>2. Expand[<<all, r, p \cup {r}>>]
        BY <1>1, <4>1
      <4> QED  BY <2>2, <2>4, <4>2 DEF Present
    <3> QED  BY <3>1, ExpandRule
  <2> QED  BY <2>3, <2>4
<1>2. X \in SUBSET Ids
  BY DEF Present
<1>3. i \in X
  <2> HIDE DEF X
  <2> QED  BY <1>1, <1>2 DEF WellFounded
<1>4. {i} \in SUBSET Ids /\ Below(i) \cap {i} = {}
  BY <1>3 DEF Present
<1> QED  BY <1>3, <1>4 DEF Resolves

LEMMA ResolvesIffWellFounded ==
    ASSUME NEW all \in Lists, NEW i \in Present(all)
    PROVE  Resolves(all, i) <=> WellFounded(all, i)
BY ResolvedIsWellFounded, WellFoundedIsResolved

-----------------------------------------------------------------------------
\* The inductive invariant.
LEMMA DemoListType == DemoList \in Lists /\ Empty \in Lists
<1>1. {} \in Contents
  BY CatalogueAssumption, FS_EmptySet DEF Contents
<1> QED  BY <1>1 DEF DemoList, Empty, Lists

LEMMA CatalogueInitInv == CatalogueInit => CatalogueInv
BY DemoListType
DEF CatalogueInit, CatalogueInv, CatalogueOK, DiskInMem, ImportSoFar, DemoList, Empty

LEMMA CatalogueNextInv == CatalogueInv /\ [CatalogueNext]_listVars => CatalogueInv'
<1> SUFFICES ASSUME CatalogueInv, [CatalogueNext]_listVars
             PROVE  CatalogueInv'
  OBVIOUS
<1>a. /\ mem \in Lists /\ disk \in Lists /\ file \in Lists /\ left \in SUBSET Ids
      /\ \A i \in left : file[i] # None
      /\ DiskInMem /\ ImportSoFar
  BY DEF CatalogueInv, CatalogueOK
<1> USE DEF CatalogueInv, CatalogueOK, DiskInMem, ImportSoFar
<1>1. ASSUME NEW i \in Ids, NEW r \in Contents, SaveHost(i, r)
      PROVE  CatalogueInv'
  BY <1>a, <1>1 DEF SaveHost, LoopIdle, Lists
<1>2. ASSUME NEW i \in Ids, DeleteHost(i)
      PROVE  CatalogueInv'
  BY <1>a, <1>2 DEF DeleteHost, LoopIdle, Lists
<1>3. ASSUME NEW ids \in SUBSET Ids, ExportHosts(ids)
      PROVE  CatalogueInv'
  <2>1. file' \in Lists
    BY <1>a, <1>3 DEF ExportHosts, Lists
  <2> QED  BY <1>a, <1>3, <2>1 DEF ExportHosts, LoopIdle
<1>4. CASE ImportBegin
  BY <1>a, <1>4 DEF ImportBegin, LoopIdle, Present
<1>5. ASSUME NEW i \in Ids, ImportOne(i)
      PROVE  CatalogueInv'
  BY <1>a, <1>5 DEF ImportOne, Lists, Present
<1>6. CASE ImportFails
  BY <1>a, <1>6 DEF ImportFails
<1>7. CASE Restart
  BY <1>a, <1>7, DemoListType DEF Restart, AtStart, Empty
<1>8. CASE UNCHANGED listVars
  BY <1>a, <1>8 DEF listVars, Present
<1> QED
  BY <1>1, <1>2, <1>3, <1>4, <1>5, <1>6, <1>7, <1>8 DEF CatalogueNext, Edit, Present

LEMMA CatalogueInvariant == CatalogueSpec => []CatalogueInv
BY CatalogueInitInv, CatalogueNextInv, PTL DEF CatalogueSpec

\* The lists stay lists of hosts, on every path through edits, imports that fail
\* and restarts.
THEOREM CatalogueTypeCorrect == CatalogueSpec => []CatalogueOK
BY CatalogueInvariant, PTL DEF CatalogueInv

\* resolve_profile accepts exactly the routes whose references come to an end, for
\* any number of hosts that refer to one another in any way.
THEOREM ResolveSound == CatalogueSpec => []ResolveIsSound
<1>1. CatalogueInv => ResolveIsSound
  BY ResolvesIffWellFounded DEF CatalogueInv, CatalogueOK, ResolveIsSound
<1> QED  BY <1>1, CatalogueInvariant, PTL

-----------------------------------------------------------------------------
\* Whether a route resolves depends on the hosts it leads to alone.
LEMMA ResolvesLocally ==
    ASSUME NEW one \in Lists, NEW two \in Lists, NEW C \in SUBSET Ids,
           Hereditary(one, C), \A j \in C : two[j] = one[j],
           NEW i \in C, one[i] # None, Resolves(one, i)
    PROVE  Resolves(two, i)
<1>1. i \in Present(one) /\ i \in Present(two)
  BY DEF Present
<1>2. ASSUME NEW X \in SUBSET Ids, Progressive(two, X)
      PROVE  i \in X
  <2> DEFINE Y == X \cup (Ids \ C)
  <2>1. Progressive(one, Y)
    BY <1>2 DEF Progressive, Hereditary, Present
  <2>2. Y \in SUBSET Ids
    OBVIOUS
  <2>3. WellFounded(one, i)
    BY <1>1, ResolvesIffWellFounded
  <2>4. i \in Y
    <3> HIDE DEF Y
    <3> QED  BY <2>1, <2>2, <2>3 DEF WellFounded, Progressive
  <2> QED  BY <2>4
<1>3. WellFounded(two, i)
  BY <1>2 DEF WellFounded, Progressive
<1> QED  BY <1>1, <1>3, ResolvesIffWellFounded

\* Saving a host whose own route resolves spoils no other route.
LEMMA SaveSpares ==
    ASSUME NEW one \in Lists, NEW k \in Ids, NEW r \in Contents,
           Resolves([one EXCEPT ![k] = r], k),
           NEW i \in Present(one), Resolves(one, i)
    PROVE  Resolves([one EXCEPT ![k] = r], i)
<1> DEFINE two == [one EXCEPT ![k] = r]
<1>1. /\ two \in Lists /\ two[k] = r /\ r # None
      /\ \A j \in Ids \ {k} : two[j] = one[j]
  BY CatalogueAssumption DEF Lists, Contents
<1> HIDE DEF two
<1>2. i \in Present(two) /\ k \in Present(two)
  BY <1>1 DEF Present
<1>3. ASSUME NEW X \in SUBSET Ids, Progressive(two, X)
      PROVE  i \in X
  <2>1. k \in X
    BY <1>1, <1>2, <1>3, ResolvesIffWellFounded DEF WellFounded, Progressive, two
  <2>2. Progressive(one, X)
    BY <1>1, <1>3, <2>1 DEF Progressive, Present
  <2> QED  BY <2>2, ResolvesIffWellFounded DEF WellFounded, Progressive
<1>4. WellFounded(two, i)
  BY <1>3 DEF WellFounded, Progressive
<1> QED  BY <1>1, <1>2, <1>4, ResolvesIffWellFounded DEF two

\* Deleting a host that no host refers to spoils no other route.
LEMMA DeleteSpares ==
    ASSUME NEW one \in Lists, NEW k \in Ids, \A j \in Present(one) : k \notin one[j],
           NEW i \in Present(one), i # k, Resolves(one, i)
    PROVE  Resolves([one EXCEPT ![k] = None], i)
<1> DEFINE two == [one EXCEPT ![k] = None]
           C == Ids \ {k}
<1>1. two \in Lists /\ \A j \in C : two[j] = one[j]
  BY DEF Lists
<1>2. Hereditary(one, C) /\ i \in C
  BY RefsType DEF Hereditary, Present
<1> QED  BY <1>1, <1>2, ResolvesLocally DEF Present

\* The export, and a restart that is not led through a demo host, in the words of
\* the hull of a set.
LEMMA RefClosureFacts ==
    ASSUME NEW all \in Lists, NEW keep \in SUBSET Ids
    PROVE  /\ RefClosure(keep, all) \in SUBSET Ids
           /\ keep \subseteq RefClosure(keep, all)
           /\ Hereditary(all, RefClosure(keep, all))
BY RefClosureIsHull, HullFacts

\* No edit spoils the route of another host, and no restart one that is on the disk
\* with all it refers to.
THEOREM EditsSpare == CatalogueSpec => EditsSpareOthers
<1> DEFINE Spared ==
      \A i \in Present(mem) \cap Present(mem') :
         /\ Resolves(mem, i)
         /\ mem'[i] = mem[i]
         /\ Edit \/ \A r \in RefClosure({i}, mem) : disk[r] # None
         => Resolves(mem', i)
<1>1. ASSUME CatalogueInv, [CatalogueNext]_listVars, Edit \/ Restart
      PROVE  Spared
  <2>a. mem \in Lists /\ disk \in Lists /\ DiskInMem
    BY <1>1 DEF CatalogueInv, CatalogueOK
  <2>1. ASSUME NEW k \in Ids, NEW r \in Contents, SaveHost(k, r)
        PROVE  Spared
    BY <2>a, <2>1, SaveSpares DEF SaveHost
  <2>2. ASSUME NEW k \in Ids, DeleteHost(k)
        PROVE  Spared
    <3>1. mem' = [mem EXCEPT ![k] = None] /\ \A j \in Present(mem) : k \notin mem[j]
      BY <2>2 DEF DeleteHost
    <3>2. k \notin Present(mem')
      BY <2>a, <3>1 DEF Present, Lists
    <3> QED  BY <2>a, <3>1, <3>2, DeleteSpares
  <2>3. ASSUME Restart, ~Edit, NEW i \in Present(mem), Resolves(mem, i),
               \A r \in RefClosure({i}, mem) : disk[r] # None
        PROVE  Resolves(mem', i)
    <3> DEFINE C == RefClosure({i}, mem)
    <3>1. i \in Ids /\ mem[i] # None /\ {i} \in SUBSET Ids
      BY DEF Present
    <3>2. C \in SUBSET Ids /\ i \in C /\ Hereditary(mem, C)
      BY <2>a, <3>1, RefClosureFacts
    <3>3. mem' = disk
      BY <2>3, <3>1, <3>2 DEF Restart, AtStart, Empty
    <3>4. \A j \in C : disk[j] = mem[j]
      BY <2>a, <2>3, <3>2 DEF DiskInMem
    <3> HIDE DEF C
    <3> QED  BY <2>a, <2>3, <3>1, <3>2, <3>3, <3>4, ResolvesLocally
  <2> QED  BY <1>1, <2>1, <2>2, <2>3 DEF Edit
<1> QED  BY <1>1, CatalogueInvariant, PTL DEF CatalogueSpec, EditsSpareOthers

\* An export carries what it depends on.
THEOREM ExportsCarry == CatalogueSpec => ExportCarriesRefs
<1> DEFINE Carried == \A i \in Present(file') : file' # file /\ Resolves(mem, i) => Resolves(file', i)
<1>1. ASSUME CatalogueInv, [CatalogueNext]_listVars
      PROVE  Carried
  <2>1. ASSUME NEW ids \in SUBSET Ids, ExportHosts(ids)
        PROVE  Carried
    <3> SUFFICES ASSUME NEW i \in Present(file'), Resolves(mem, i)
                 PROVE  Resolves(file', i)
      OBVIOUS
    <3> DEFINE C == RefClosure(ids, mem)
    <3>1. mem \in Lists /\ file' \in Lists
      BY <1>1, CatalogueNextInv DEF CatalogueInv, CatalogueOK
    <3>2. C \in SUBSET Ids /\ Hereditary(mem, C)
      BY <3>1, RefClosureFacts
    <3>3. file' = [j \in Ids |-> IF j \in C THEN mem[j] ELSE None]
      BY <2>1 DEF ExportHosts
    <3> HIDE DEF C
    <3>4. i \in C /\ mem[i] # None /\ \A j \in C : file'[j] = mem[j]
      BY <3>2, <3>3 DEF Present
    <3> QED  BY <3>1, <3>2, <3>4, ResolvesLocally
  <2>2. ASSUME file' # file
        PROVE  \E ids \in SUBSET Ids : ExportHosts(ids)
    BY <1>1, <2>2
    DEF CatalogueNext, Edit, SaveHost, DeleteHost, ImportBegin, ImportOne, ImportFails,
        Restart, listVars, Present
  <2> QED  BY <2>1, <2>2
<1> QED  BY <1>1, CatalogueInvariant, PTL DEF CatalogueSpec, ExportCarriesRefs

\* An import that comes to its end has spoiled none of the routes it brought.
THEOREM ImportsKeep == CatalogueSpec => ImportKeepsRoutes
<1> DEFINE Kept == (\E i \in left : ImportOne(i) /\ left' = {}) =>
                      \A i \in Present(file) : Resolves(file, i) => Resolves(disk', i)
<1>1. ASSUME CatalogueInv, [CatalogueNext]_listVars
      PROVE  Kept
  <2> SUFFICES ASSUME NEW k \in left, ImportOne(k), left' = {},
                      NEW i \in Present(file), Resolves(file, i)
               PROVE  Resolves(disk', i)
    OBVIOUS
  <2>1. /\ file \in Lists /\ disk \in Lists /\ disk' \in Lists /\ left \in SUBSET Ids
        /\ ImportSoFar
    BY <1>1, CatalogueNextInv DEF CatalogueInv, CatalogueOK
  <2>2. left = {k} /\ disk' = [disk EXCEPT ![k] = file[k]]
    BY DEF ImportOne
  <2>3. \A j \in Present(file) : disk'[j] = file[j]
    BY <2>1, <2>2 DEF ImportSoFar, Present, Lists
  <2>4. i \in Present(disk')
    BY <2>3 DEF Present
  <2>5. ASSUME NEW X \in SUBSET Ids, Progressive(disk', X)
        PROVE  Progressive(file, X)
    BY <2>3, <2>5 DEF Progressive, Present
  <2>6. WellFounded(file, i)
    BY <2>1, ResolvesIffWellFounded
  <2>7. WellFounded(disk', i)
    BY <2>5, <2>6 DEF WellFounded, Progressive
  <2> QED  BY <2>1, <2>4, <2>7, ResolvesIffWellFounded
<1> QED  BY <1>1, CatalogueInvariant, PTL DEF CatalogueSpec, ImportKeepsRoutes
=============================================================================
