--------------------------- MODULE ConnectProofs ---------------------------
(***************************************************************************)
(* What connecting promises about keys and secrets, proved for any number  *)
(* of tasks, nodes, keys and routes.                                       *)
(*                                                                         *)
(* A secret is sent on the strength of a pin, so every place a pin may     *)
(* come from has to hold vouched keys only: the file, its temporary file,  *)
(* the contents a task is about to write, and the verifier's list.  With   *)
(* what a task's phase says about its own question this is inductive.      *)
(* That an append alone publishes no cut key adds what is known of the     *)
(* files for as long as no two tasks have been in the temporary file.      *)
(***************************************************************************)
EXTENDS Connect, TLAPS

\* Every pin of the map p is accounted for.
AllVouched(p) == \A n \in Nodes, k \in HostKeys : p[n] = k => Accounted(n, k)

PinsOK ==
    /\ AllVouched(file)
    /\ AllVouched(pinned)
    /\ tmp # None => AllVouched(tmp)

ImagesOK ==
    \A c \in Conns :
        /\ image[c] # None => AllVouched(image[c])
        /\ phase[c] \in {"loaded", "writing"} => image[c] # None
        /\ open[c] = "tmp" => tmp # None

\* The map p has no cut key.
Whole(p) == \A n \in Nodes : p[n] # Torn

Using(c) == phase[c] \in {"writing", "renaming"}

\* As long as no two tasks have used the temporary file at once: what is in it
\* before the text is complete is a part of the text of its only writer.
WholeOK ==
    crossed = FALSE =>
        /\ Whole(file)
        /\ Whole(pinned)
        /\ \A c \in Conns : image[c] # None => Whole(image[c])
        /\ \A c, d \in Conns : Using(c) /\ Using(d) => c = d
        /\ \A c \in Conns : phase[c] = "writing" =>
              /\ open[c] = "tmp"
              /\ Begins(tmp, image[c])
        /\ \A c \in Conns : phase[c] = "renaming" /\ tmp # None => Whole(tmp)

\* What a task has behind it when it appends.
AppendingOK ==
    \A c \in Conns : phase[c] \in Appending =>
        <<c, Node(c), shown[c]>> \in granted

\* A task that is past the handshake knows the key it was shown.
ShownOK ==
    \A c \in Conns : phase[c] \in {"checking", "asking"} \cup Appending \cup Sending =>
        shown[c] \in HostKeys

\* Under Strict nobody is ever asked, and nothing is written.
StrictOK ==
    policy = "strict" =>
        /\ granted = {}
        /\ crossed = FALSE
        /\ \A c \in Conns : phase[c] # "asking"

IInv ==
    /\ TypeOK
    /\ PinsOK
    /\ ImagesOK
    /\ WholeOK
    /\ AppendingOK
    /\ ShownOK
    /\ StrictOK
    /\ NoSecretBeforeTrust

-----------------------------------------------------------------------------
\* Every task stands at a node of its route.
LEMMA NodeInRoute ==
    ASSUME TypeOK
    PROVE  \A c \in Conns : Node(c) \in Nodes
BY RouteAssumption DEF TypeOK, Node

\* The state stays well typed, and a task past the handshake keeps its key.
LEMMA TypeStep ==
    ASSUME TypeOK, ShownOK, [Next]_vars
    PROVE  TypeOK' /\ ShownOK'
<1> USE DEF TypeOK, ShownOK, Phases, Appending, Sending, Pins, Passwords,
            Places, keyVars, diskVars, passVars, Goto, Fail
<1>0. \A c \in Conns : Node(c) \in Nodes
  BY NodeInRoute
<1>1. ASSUME NEW c \in Conns, KeyStep(c) PROVE TypeOK' /\ ShownOK'
  <2>1. CASE KeyTrusted(c)    BY <2>1 DEF KeyTrusted
  <2>2. CASE KeyAsked(c)      BY <2>2 DEF KeyAsked
  <2>3. CASE KeyRefused(c)    BY <2>3 DEF KeyRefused
  <2>4. CASE UserAccepts(c)
    <3>1. <<c, Node(c), shown[c]>> \in Conns \X Nodes \X HostKeys
      BY <1>0, <2>4 DEF UserAccepts
    <3> QED  BY <2>4, <3>1 DEF UserAccepts
  <2>5. CASE UserDeclines(c)  BY <2>5 DEF UserDeclines
  <2>6. CASE AppendLoads(c)   BY <1>0, <2>6 DEF AppendLoads
  <2>7. CASE AppendOpens(c)   BY <2>7 DEF AppendOpens, Empty
  <2>11. CASE AppendPuts(c)   BY <2>11 DEF AppendPuts, Put, Splices
  <2>12. CASE AppendWrites(c) BY <2>12 DEF AppendWrites, Put, Over
  <2>8. CASE AppendRenames(c) BY <2>8 DEF AppendRenames
  <2>9. CASE AppendFails(c)   BY <2>9 DEF AppendFails
  <2>10. CASE Pin(c)          BY <1>0, <2>10 DEF Pin
  <2> QED  BY <1>1, <2>1, <2>2, <2>3, <2>4, <2>5, <2>6, <2>7, <2>8, <2>9,
              <2>10, <2>11, <2>12 DEF KeyStep
<1>2. ASSUME NEW c \in Conns, TaskStep(c) PROVE TypeOK' /\ ShownOK'
  <2>1. CASE Begin(c)         BY <2>1 DEF Begin
  <2>2. ASSUME NEW k \in HostKeys, Handshake(c, k) PROVE TypeOK' /\ ShownOK'
    BY <2>2 DEF Handshake
  <2>3. CASE DialFails(c)     BY <2>3 DEF DialFails
  <2>4. CASE SecretFromCache(c)    BY <1>0, <2>4 DEF SecretFromCache
  <2>5. CASE SecretFromProfile(c)  BY <1>0, <2>5 DEF SecretFromProfile
  <2>6. CASE SecretPrompt(c)  BY <2>6 DEF SecretPrompt
  <2>7. ASSUME NEW s \in Secrets, SecretTyped(c, s) PROVE TypeOK' /\ ShownOK'
    BY <1>0, <2>7 DEF SecretTyped
  <2>8. CASE SecretRefused(c) BY <2>8 DEF SecretRefused
  <2>9. CASE NoSecretNeeded(c)  BY <2>9 DEF NoSecretNeeded
  <2>10. CASE LoginOk(c)
    <3>1. CASE at[c] = Len(Route[c])
      BY <2>10, <3>1 DEF LoginOk
    <3>2. CASE at[c] # Len(Route[c])
      <4>1. Len(Route[c]) \in Nat
        BY RouteAssumption
      <4>2. at[c] + 1 \in 1..Len(Route[c])
        BY <3>2, <4>1
      <4>3. /\ phase' = [phase EXCEPT ![c] = "dialing"]
            /\ at' = [at EXCEPT ![c] = at[c] + 1]
        BY <2>10, <3>2 DEF LoginOk
      <4>4. \A d \in Conns : at'[d] \in 1..Len(Route[d])
        BY <4>2, <4>3
      <4> QED  BY <2>10, <4>2, <4>3, <4>4 DEF LoginOk
    <3> QED  BY <3>1, <3>2
  <2>11. CASE LoginFails(c)   BY <2>11 DEF LoginFails
  <2> QED  BY <1>2, <2>1, <2>2, <2>3, <2>4, <2>5, <2>6, <2>7, <2>8, <2>9,
              <2>10, <2>11 DEF TaskStep
<1>3. ASSUME NEW n \in Nodes, NEW s \in Secrets \cup {None}, Seed(n, s)
      PROVE  TypeOK' /\ ShownOK'
  BY <1>3 DEF Seed
<1>4. ASSUME NEW readable \in BOOLEAN, Restart(readable)
      PROVE  TypeOK' /\ ShownOK'
  BY <1>4 DEF Restart, Empty
<1>5. CASE UNCHANGED vars
  BY <1>5 DEF vars
<1> QED  BY <1>1, <1>2, <1>3, <1>4, <1>5 DEF Next

-----------------------------------------------------------------------------
\* A step that leaves every key map alone, and sends its task to no phase in
\* which a key is asked about or appended.
TaskFrame(c) ==
    /\ UNCHANGED keyVars
    /\ \A d \in Conns \ {c} :
          phase'[d] = phase[d] /\ at'[d] = at[d] /\ shown'[d] = shown[d]
    /\ phase'[c] \notin Appending \cup {"asking"}

LEMMA TaskStepFrame ==
    ASSUME TypeOK, NEW c \in Conns, TaskStep(c)
    PROVE  TaskFrame(c)
<1> USE DEF TypeOK, TaskFrame, Appending, Sending, Goto, Fail
<1>1. CASE Begin(c)                BY <1>1 DEF Begin
<1>2. ASSUME NEW k \in HostKeys, Handshake(c, k) PROVE TaskFrame(c)
  BY <1>2 DEF Handshake
<1>3. CASE DialFails(c)            BY <1>3 DEF DialFails
<1>4. CASE SecretFromCache(c)      BY <1>4 DEF SecretFromCache
<1>5. CASE SecretFromProfile(c)    BY <1>5 DEF SecretFromProfile
<1>6. CASE SecretPrompt(c)         BY <1>6 DEF SecretPrompt
<1>7. ASSUME NEW s \in Secrets, SecretTyped(c, s) PROVE TaskFrame(c)
  BY <1>7 DEF SecretTyped
<1>8. CASE SecretRefused(c)        BY <1>8 DEF SecretRefused
<1>9. CASE NoSecretNeeded(c)       BY <1>9 DEF NoSecretNeeded
<1>10. CASE LoginOk(c)             BY <1>10 DEF LoginOk
<1>11. CASE LoginFails(c)          BY <1>11 DEF LoginFails
<1> QED  BY <1>1, <1>2, <1>3, <1>4, <1>5, <1>6, <1>7, <1>8, <1>9, <1>10, <1>11
         DEF TaskStep

LEMMA KeyStepFrame ==
    ASSUME TypeOK, NEW c \in Conns,
           KeyTrusted(c) \/ KeyRefused(c) \/ UserDeclines(c)
    PROVE  TaskFrame(c)
BY DEF TypeOK, TaskFrame, Appending, Goto, Fail, keyVars, KeyTrusted, KeyRefused,
       UserDeclines

\* What was vouched for stays so: answers are only added.
LEMMA VouchedStays ==
    ASSUME old' = old, granted \subseteq granted', crossed => crossed'
    PROVE  /\ \A n, k : Vouched(n, k) => Vouched(n, k)'
           /\ \A n, k : Accounted(n, k) => Accounted(n, k)'
BY DEF Vouched, Accounted

LEMMA AccountedSame ==
    ASSUME old' = old, granted' = granted, crossed' = crossed
    PROVE  \A n, k : Accounted(n, k)' <=> Accounted(n, k)
BY DEF Vouched, Accounted

\* A file in which vouched texts are mixed holds vouched keys and cut ones; a key
\* changes its node only where the one text is not the beginning of the other.
LEMMA Mixed ==
    ASSUME NEW p, NEW q, AllVouched(p), AllVouched(q), crossed \/ Begins(q, p)
    PROVE  /\ \A r \in Splices(p, q) : AllVouched(r)
           /\ \A r \in Over(p, q) : AllVouched(r)
<1>1. ASSUME NEW r, NEW n \in Nodes, r[n] \in HostKeys,
             \/ r[n] \in {p[n], q[n], None, Torn}
             \/ r[n] \in {Torn} \cup {q[l] : l \in Nodes} /\ ~Begins(q, p)
      PROVE  Accounted(n, r[n])
  <2>1. CASE r[n] \in {p[n], q[n], None, Torn}
    BY <1>1, <2>1, NoneAssumption, TornAssumption DEF AllVouched
  <2>2. CASE r[n] \in {Torn} \cup {q[l] : l \in Nodes} /\ ~Begins(q, p)
    <3>1. crossed
      BY <2>2
    <3>2. PICK l \in Nodes : r[n] = q[l]
      BY <1>1, <2>2, TornAssumption
    <3>3. Accounted(l, r[n])
      BY <1>1, <3>2 DEF AllVouched
    <3> QED  BY <3>1, <3>3 DEF Accounted
  <2> QED  BY <1>1, <2>1, <2>2
<1>2. \A r \in Splices(p, q) : AllVouched(r)
  <2> SUFFICES ASSUME NEW r \in Splices(p, q), NEW n \in Nodes, r[n] \in HostKeys
               PROVE  Accounted(n, r[n])
    BY DEF AllVouched
  <2>1. \/ r[n] \in {p[n], q[n], None, Torn}
        \/ r[n] \in {Torn} \cup {q[l] : l \in Nodes} /\ ~Begins(q, p)
    BY DEF Splices
  <2> QED  BY <1>1, <2>1
<1>3. \A r \in Over(p, q) : AllVouched(r)
  <2> SUFFICES ASSUME NEW r \in Over(p, q), NEW n \in Nodes, r[n] \in HostKeys
               PROVE  Accounted(n, r[n])
    BY DEF AllVouched
  <2>1. \/ r[n] \in {p[n], q[n], None, Torn}
        \/ r[n] \in {Torn} \cup {q[l] : l \in Nodes} /\ ~Begins(q, p)
    BY DEF Over
  <2> QED  BY <1>1, <2>1
<1> QED  BY <1>2, <1>3

\* A writer that is alone in the file has there a beginning of its text, and its
\* whole text once it is done.
LEMMA MixedWhole ==
    ASSUME NEW p, NEW q, Begins(q, p)
    PROVE  /\ \A r \in Splices(p, q) : Begins(r, p)
           /\ \A r \in Over(p, q) : \A n \in Nodes : r[n] = p[n]
BY DEF Splices, Over, Begins

\* What a task puts into the file it has open, when it is vouched for.
LEMMA PutVouched ==
    ASSUME IInv, NEW c \in Conns, NEW r, AllVouched(r), Put(c, r),
           granted' = granted, old' = old, pinned' = pinned, crossed' = crossed
    PROVE  PinsOK'
<1>1. \A n, k : Accounted(n, k)' <=> Accounted(n, k)
  BY AccountedSame
<1> QED  BY <1>1 DEF IInv, PinsOK, Put, AllVouched

\* The pins anywhere stay vouched for.
LEMMA PinStep ==
    ASSUME IInv, [Next]_vars
    PROVE  PinsOK' /\ ImagesOK' /\ AppendingOK' /\ StrictOK'
<1> DEFINE Goal == PinsOK' /\ ImagesOK' /\ AppendingOK' /\ StrictOK'
<1> SUFFICES Goal
  OBVIOUS
<1> USE DEF IInv
<1>0. \A c \in Conns : Node(c) \in Nodes
  BY NodeInRoute
<1>1. ASSUME NEW c \in Conns, TaskFrame(c) PROVE Goal
  <2>1. \A n, k : Accounted(n, k)' <=> Accounted(n, k)
    BY <1>1, AccountedSame DEF TaskFrame, keyVars, diskVars
  <2>2. PinsOK'
    BY <1>1, <2>1 DEF TaskFrame, keyVars, diskVars, PinsOK, AllVouched
  <2>3. ImagesOK'
    BY <1>1, <2>1 DEF TaskFrame, keyVars, diskVars, ImagesOK, AllVouched, Appending
  <2>4. AppendingOK' /\ StrictOK'
    BY <1>1 DEF TaskFrame, keyVars, diskVars, AppendingOK, StrictOK, Node
  <2> QED  BY <2>2, <2>3, <2>4
<1>2. ASSUME NEW c \in Conns, KeyStep(c) PROVE Goal
  <2>1. CASE KeyTrusted(c) \/ KeyRefused(c) \/ UserDeclines(c)
    BY <1>1, <2>1, KeyStepFrame
  <2>2. CASE KeyAsked(c)
    <3>1. policy # "strict"
      BY <2>2 DEF KeyAsked
    <3>2. \A n, k : Accounted(n, k)' <=> Accounted(n, k)
      BY <2>2, AccountedSame DEF KeyAsked, keyVars, diskVars
    <3>3. PinsOK' /\ ImagesOK'
      BY <2>2, <3>2 DEF KeyAsked, Goto, keyVars, diskVars, PinsOK, ImagesOK,
                        AllVouched, TypeOK
    <3>4. AppendingOK' /\ StrictOK'
      BY <2>2, <3>1 DEF KeyAsked, Goto, keyVars, AppendingOK, StrictOK, Node,
                        TypeOK, Appending
    <3> QED  BY <3>3, <3>4
  <2>3. CASE UserAccepts(c)
    <3>1. \A n, k : Accounted(n, k) => Accounted(n, k)'
      BY <2>3, VouchedStays DEF UserAccepts, diskVars
    <3>2. PinsOK' /\ ImagesOK'
      BY <2>3, <3>1 DEF UserAccepts, diskVars, PinsOK, ImagesOK, AllVouched,
                        Goto, TypeOK
    <3>3. AppendingOK' /\ StrictOK'
      BY <2>3 DEF UserAccepts, diskVars, AppendingOK, StrictOK, Appending, Goto,
                  TypeOK, Node
    <3> QED  BY <3>2, <3>3
  <2>4. CASE AppendLoads(c)
    <3>1. Vouched(Node(c), shown[c])
      BY <2>4 DEF AppendLoads, AppendingOK, Appending, Vouched
    <3>2. \A n, k : Accounted(n, k)' <=> Accounted(n, k)
      BY <2>4, AccountedSame DEF AppendLoads, diskVars
    <3>3. AllVouched([file EXCEPT ![Node(c)] = shown[c]])
      BY <1>0, <3>1 DEF PinsOK, AllVouched, Accounted, TypeOK, Pins
    <3>4. /\ image' = [image EXCEPT ![c] = [file EXCEPT ![Node(c)] = shown[c]]]
          /\ phase' = [phase EXCEPT ![c] = "loaded"]
      BY <2>4 DEF AppendLoads, Goto
    <3>5. [file EXCEPT ![Node(c)] = shown[c]] # None
      <4>1. shown[c] \in HostKeys
        BY <2>4 DEF AppendLoads, ShownOK, Appending
      <4>2. [file EXCEPT ![Node(c)] = shown[c]] \in [Nodes -> HostKeys \cup {None, Torn}]
        BY <1>0, <4>1 DEF TypeOK, Pins
      <4> QED  BY <4>2, NoneAssumption
    <3>6. PinsOK' /\ ImagesOK'
      BY <2>4, <3>2, <3>3, <3>4, <3>5
         DEF AppendLoads, diskVars, PinsOK, ImagesOK, AllVouched, TypeOK
    <3>7. AppendingOK' /\ StrictOK'
      BY <2>4, <3>4 DEF AppendLoads, AppendingOK, StrictOK, Node, TypeOK,
                        Appending
    <3> QED  BY <3>6, <3>7
  <2>5. CASE AppendOpens(c)
    <3>1. \A n, k : Accounted(n, k) => Accounted(n, k)'
      BY <2>5, VouchedStays DEF AppendOpens
    <3>2. AllVouched(Empty) /\ Empty # None
      BY NoneAssumption DEF AllVouched, Empty
    <3>3. PinsOK'
      BY <2>5, <3>1, <3>2 DEF AppendOpens, PinsOK, AllVouched
    <3>4. ImagesOK'
      BY <2>5, <3>1, <3>2 DEF AppendOpens, ImagesOK, AllVouched, Goto, TypeOK
    <3>5. AppendingOK'
      BY <2>5 DEF AppendOpens, AppendingOK, Node, TypeOK, Appending, Goto
    <3>6. granted # {}
      BY <2>5 DEF AppendOpens, AppendingOK, Appending
    <3>7. StrictOK'
      BY <2>5, <3>6 DEF AppendOpens, StrictOK
    <3> QED  BY <3>3, <3>4, <3>5, <3>7
  <2>6. ASSUME phase[c] = "writing", open[c] # "nowhere"
        PROVE  /\ \A r \in Splices(image[c], Held(c)) : AllVouched(r)
               /\ \A r \in Over(image[c], Held(c)) : AllVouched(r)
    <3>1. AllVouched(image[c])
      BY <2>6 DEF ImagesOK
    <3>2. AllVouched(Held(c))
      BY <2>6 DEF ImagesOK, PinsOK, Held, TypeOK, Places
    <3>3. crossed \/ Begins(Held(c), image[c])
      BY <2>6 DEF WholeOK, Held, TypeOK
    <3> QED  BY <3>1, <3>2, <3>3, Mixed
  <2>7. CASE AppendPuts(c)
    <3>1. PICK r \in Splices(image[c], Held(c)) : Put(c, r)
      BY <2>7 DEF AppendPuts
    <3>2. AllVouched(r)
      BY <2>6, <2>7 DEF AppendPuts
    <3>3. /\ PinsOK'
          /\ UNCHANGED <<policy, open, crossed, image, granted, old, phase, at, shown>>
      BY <2>7, <3>1, <3>2, PutVouched DEF AppendPuts
    <3>4. \A n, k : Accounted(n, k)' <=> Accounted(n, k)
      BY <3>3, AccountedSame
    <3>5. tmp # None => tmp' # None
      BY <3>1, NoneAssumption DEF Put, Splices, Pins
    <3>6. ImagesOK'
      BY <3>3, <3>4, <3>5 DEF ImagesOK, AllVouched
    <3>7. AppendingOK' /\ StrictOK'
      BY <3>3 DEF AppendingOK, StrictOK, Node
    <3> QED  BY <3>3, <3>6, <3>7
  <2>8. CASE AppendWrites(c)
    <3>1. /\ PinsOK'
          /\ tmp # None => tmp' # None
      <4>1. CASE open[c] = "nowhere"
        BY <2>8, <4>1, AccountedSame DEF AppendWrites, PinsOK, AllVouched
      <4>2. CASE open[c] # "nowhere"
        <5>1. PICK r \in Over(image[c], Held(c)) : Put(c, r)
          BY <2>8, <4>2 DEF AppendWrites
        <5>2. AllVouched(r)
          BY <2>6, <2>8, <4>2 DEF AppendWrites
        <5>3. PinsOK'
          BY <2>8, <5>1, <5>2, PutVouched DEF AppendWrites
        <5>4. tmp # None => tmp' # None
          BY <5>1, NoneAssumption DEF Put, Over, Pins
        <5> QED  BY <5>3, <5>4
      <4> QED  BY <4>1, <4>2
    <3>2. \A n, k : Accounted(n, k)' <=> Accounted(n, k)
      BY <2>8, AccountedSame DEF AppendWrites, diskVars
    <3>3. /\ image' = [image EXCEPT ![c] = None]
          /\ open' = [open EXCEPT ![c] = "nowhere"]
          /\ phase' = [phase EXCEPT ![c] = "renaming"]
      BY <2>8 DEF AppendWrites, Goto
    <3>4. ImagesOK'
      BY <3>1, <3>2, <3>3 DEF ImagesOK, AllVouched, TypeOK
    <3>5. AppendingOK' /\ StrictOK'
      BY <2>8, <3>3 DEF AppendWrites, AppendingOK, StrictOK, Node, TypeOK, Appending
    <3> QED  BY <3>1, <3>4, <3>5
  <2>9. CASE AppendRenames(c)
    <3>1. \A n, k : Accounted(n, k)' <=> Accounted(n, k)
      BY <2>9, AccountedSame DEF AppendRenames, diskVars
    <3>2. PinsOK'
      BY <2>9, <3>1 DEF AppendRenames, PinsOK, AllVouched
    <3>3. ImagesOK'
      BY <2>9, <3>1 DEF AppendRenames, ImagesOK, AllVouched, Goto, TypeOK
    <3>4. AppendingOK' /\ StrictOK'
      BY <2>9 DEF AppendRenames, AppendingOK, StrictOK, Node, TypeOK, Appending, Goto
    <3> QED  BY <3>2, <3>3, <3>4
  <2>10. CASE AppendFails(c)
    <3>1. \A n, k : Accounted(n, k)' <=> Accounted(n, k)
      BY <2>10, AccountedSame DEF AppendFails, diskVars
    <3>2. PinsOK'
      BY <2>10, <3>1 DEF AppendFails, PinsOK, AllVouched
    <3>3. ImagesOK'
      BY <2>10, <3>1 DEF AppendFails, ImagesOK, AllVouched, Goto, Fail, TypeOK
    <3>4. AppendingOK' /\ StrictOK'
      BY <2>10 DEF AppendFails, AppendingOK, StrictOK, Node, TypeOK, Appending,
                   Goto, Fail
    <3> QED  BY <3>2, <3>3, <3>4
  <2>11. CASE Pin(c)
    <3>1. Vouched(Node(c), shown[c])
      BY <2>11 DEF Pin, AppendingOK, Appending, Vouched
    <3>2. \A n, k : Accounted(n, k)' <=> Accounted(n, k)
      BY <2>11, AccountedSame DEF Pin, diskVars
    <3>3. AllVouched([pinned EXCEPT ![Node(c)] = shown[c]])
      BY <1>0, <3>1 DEF PinsOK, AllVouched, Accounted, TypeOK, Pins
    <3>4. PinsOK' /\ ImagesOK'
      BY <2>11, <3>2, <3>3 DEF Pin, Goto, diskVars, PinsOK, ImagesOK, AllVouched,
                               TypeOK
    <3>5. AppendingOK' /\ StrictOK'
      BY <2>11 DEF Pin, Goto, AppendingOK, StrictOK, Node, TypeOK, Appending
    <3> QED  BY <3>4, <3>5
  <2> QED  BY <1>2, <2>1, <2>2, <2>3, <2>4, <2>5, <2>7, <2>8, <2>9, <2>10,
              <2>11 DEF KeyStep
<1>3. ASSUME NEW n \in Nodes, NEW s \in Secrets \cup {None}, Seed(n, s)
      PROVE  Goal
  BY <1>3, AccountedSame DEF Seed, keyVars, diskVars, PinsOK, ImagesOK,
              AppendingOK, StrictOK, AllVouched, Node
<1>4. ASSUME NEW readable \in BOOLEAN, Restart(readable)
      PROVE  Goal
  <2>1. \A m, k : Accounted(m, k)' <=> Accounted(m, k)
    BY <1>4, AccountedSame DEF Restart, diskVars
  <2>2. AllVouched(Empty)
    BY NoneAssumption DEF AllVouched, Empty
  <2>3. PinsOK' /\ ImagesOK'
    BY <1>4, <2>1, <2>2 DEF Restart, PinsOK, ImagesOK, AllVouched, TypeOK
  <2>4. AppendingOK' /\ StrictOK'
    BY <1>4 DEF Restart, AppendingOK, StrictOK, Node, Appending, TypeOK
  <2> QED  BY <2>3, <2>4
<1>5. CASE UNCHANGED vars
  BY <1>5, AccountedSame DEF vars, diskVars, PinsOK, ImagesOK, AppendingOK,
              StrictOK, AllVouched, Node
<1> QED  BY <1>1, <1>2, <1>3, <1>4, <1>5, TaskStepFrame DEF Next

-----------------------------------------------------------------------------
\* A step that leaves the pins alone, and by which no task comes to the files.
QuietFrame ==
    /\ UNCHANGED <<file, tmp, pinned, crossed>>
    /\ \A c \in Conns :
          /\ image'[c] \in {image[c], None}
          /\ Using(c)' => UNCHANGED <<phase[c], open[c], image[c]>>

LEMMA QuietStep ==
    ASSUME WholeOK, QuietFrame
    PROVE  WholeOK'
BY DEF WholeOK, QuietFrame, Whole, Using, Begins

LEMMA TaskIsQuiet ==
    ASSUME TypeOK, NEW c \in Conns, TaskFrame(c)
    PROVE  QuietFrame
BY DEF TaskFrame, QuietFrame, Using, Appending, keyVars, diskVars

LEMMA KeyIsQuiet ==
    ASSUME TypeOK, NEW c \in Conns,
           KeyAsked(c) \/ UserAccepts(c) \/ AppendFails(c)
    PROVE  QuietFrame
<1> USE DEF TypeOK, QuietFrame, Using, Goto, keyVars, diskVars
<1>1. CASE KeyAsked(c)     BY <1>1 DEF KeyAsked
<1>2. CASE UserAccepts(c)  BY <1>2 DEF UserAccepts
<1>3. CASE AppendFails(c)  BY <1>3 DEF AppendFails, Fail
<1> QED  BY <1>1, <1>2, <1>3

\* Until two tasks meet in the temporary file no map has a cut key but a text
\* that its only writer has not finished.
LEMMA WholeStep ==
    ASSUME IInv, [Next]_vars
    PROVE  WholeOK'
<1> USE DEF IInv
<1>0. \A c \in Conns : Node(c) \in Nodes
  BY NodeInRoute
<1>1. ASSUME NEW c \in Conns, KeyStep(c) PROVE WholeOK'
  <2>1. CASE KeyTrusted(c) \/ KeyRefused(c) \/ UserDeclines(c)
    BY <2>1, KeyStepFrame, TaskIsQuiet, QuietStep
  <2>2. CASE KeyAsked(c) \/ UserAccepts(c) \/ AppendFails(c)
    BY <2>2, KeyIsQuiet, QuietStep
  <2>3. CASE AppendLoads(c)
    <3>1. /\ shown[c] \in HostKeys
          /\ image' = [image EXCEPT ![c] = [file EXCEPT ![Node(c)] = shown[c]]]
          /\ phase' = [phase EXCEPT ![c] = "loaded"]
          /\ UNCHANGED <<file, tmp, open, pinned, crossed>>
      BY <2>3 DEF AppendLoads, ShownOK, Appending, Goto, diskVars
    <3>2. Whole(file) => Whole([file EXCEPT ![Node(c)] = shown[c]])
      BY <1>0, <3>1, TornAssumption DEF Whole, TypeOK, Pins
    <3>3. \A d \in Conns : Using(d)' => Using(d) /\ d # c /\ phase'[d] = phase[d]
      BY <3>1 DEF Using, TypeOK
    <3>4. \A d \in Conns : d # c => image'[d] = image[d]
      BY <3>1 DEF TypeOK
    <3>5. image'[c] = [file EXCEPT ![Node(c)] = shown[c]]
      BY <3>1 DEF TypeOK
    <3> QED  BY <3>1, <3>2, <3>3, <3>4, <3>5 DEF WholeOK, Whole, Using
  <2>4. CASE AppendOpens(c)
    <3> SUFFICES ASSUME crossed' = FALSE PROVE WholeOK'
      BY DEF WholeOK
    <3>1. /\ tmp' = Empty
          /\ open' = [open EXCEPT ![c] = "tmp"]
          /\ phase' = [phase EXCEPT ![c] = "writing"]
          /\ UNCHANGED <<file, pinned, image>>
      BY <2>4 DEF AppendOpens, Goto
    <3>2. crossed = FALSE /\ \A d \in Conns : ~Using(d)
      BY <2>4 DEF AppendOpens, Using, TypeOK
    <3>3. \A d \in Conns : Using(d)' => d = c /\ phase'[d] = "writing"
      BY <3>1, <3>2 DEF Using, TypeOK
    <3>4. open'[c] = "tmp" /\ \A n \in Nodes : tmp'[n] = None
      BY <3>1 DEF TypeOK, Empty
    <3> QED  BY <3>1, <3>2, <3>3, <3>4 DEF WholeOK, Whole, Using, Begins
  <2>5. ASSUME crossed = FALSE, phase[c] = "writing"
        PROVE  /\ open[c] = "tmp" /\ Held(c) = tmp
               /\ Whole(image[c])
               /\ \A r \in Splices(image[c], Held(c)) :
                     Begins(r, image[c])
               /\ \A r \in Over(image[c], Held(c)) : Whole(r)
    <3>1. /\ open[c] = "tmp"
          /\ Begins(tmp, image[c])
          /\ Whole(image[c])
      BY <2>5 DEF WholeOK, ImagesOK
    <3>2. Held(c) = tmp
      BY <3>1 DEF Held
    <3>3. /\ \A r \in Splices(image[c], Held(c)) :
                Begins(r, image[c])
          /\ \A r \in Over(image[c], Held(c)) : \A n \in Nodes : r[n] = image[c][n]
      BY <3>1, <3>2, MixedWhole
    <3> QED  BY <3>1, <3>2, <3>3 DEF Whole
  <2>6. CASE AppendPuts(c)
    <3> SUFFICES ASSUME crossed = FALSE PROVE WholeOK'
      BY <2>6 DEF WholeOK, AppendPuts
    <3>1. PICK r \in Splices(image[c], Held(c)) : Put(c, r)
      BY <2>6 DEF AppendPuts
    <3>2. /\ phase[c] = "writing"
          /\ UNCHANGED <<open, image, phase, pinned, crossed>>
      BY <2>6 DEF AppendPuts
    <3>3. file' = file /\ tmp' = r
      BY <2>5, <3>1, <3>2 DEF Put
    <3>4. Begins(tmp', image[c])
      BY <2>5, <3>2, <3>3
    <3>5. \A d \in Conns : Using(d) => d = c
      BY <3>2 DEF WholeOK, Using
    <3> QED  BY <3>2, <3>3, <3>4, <3>5 DEF WholeOK, Whole, Using, Begins
  <2>7. CASE AppendWrites(c)
    <3> SUFFICES ASSUME crossed = FALSE PROVE WholeOK'
      BY <2>7 DEF WholeOK, AppendWrites
    <3>1. /\ phase[c] = "writing"
          /\ phase' = [phase EXCEPT ![c] = "renaming"]
          /\ image' = [image EXCEPT ![c] = None]
          /\ UNCHANGED <<pinned, crossed>>
      BY <2>7 DEF AppendWrites, Goto
    <3>2. PICK r \in Over(image[c], Held(c)) : Put(c, r)
      BY <2>5, <2>7, <3>1 DEF AppendWrites
    <3>3. file' = file /\ tmp' = r /\ Whole(r)
      BY <2>5, <3>1, <3>2 DEF Put
    <3>4. \A d \in Conns : Using(d) => d = c
      BY <3>1 DEF WholeOK, Using
    <3>5. \A d \in Conns : Using(d)' => d = c /\ phase'[d] = "renaming"
      BY <3>1, <3>4 DEF Using, TypeOK
    <3>6. \A d \in Conns : image'[d] # None => image'[d] = image[d]
      BY <3>1 DEF TypeOK
    <3> QED  BY <3>1, <3>3, <3>5, <3>6 DEF WholeOK, Whole, Using
  <2>8. CASE AppendRenames(c)
    <3> SUFFICES ASSUME crossed = FALSE PROVE WholeOK'
      BY <2>8 DEF WholeOK, AppendRenames
    <3>1. /\ phase[c] = "renaming" /\ tmp # None
          /\ phase' = [phase EXCEPT ![c] = "pinning"]
          /\ file' = tmp /\ tmp' = None
          /\ UNCHANGED <<image, pinned, crossed>>
      BY <2>8 DEF AppendRenames, Goto
    <3>2. Whole(tmp)
      BY <3>1 DEF WholeOK
    <3>3. \A d \in Conns : Using(d) => d = c
      BY <3>1 DEF WholeOK, Using
    <3>4. \A d \in Conns : ~Using(d)'
      BY <3>1, <3>3 DEF Using, TypeOK
    <3> QED  BY <3>1, <3>2, <3>4 DEF WholeOK, Whole, Using
  <2>9. CASE Pin(c)
    <3>1. /\ shown[c] \in HostKeys
          /\ pinned' = [pinned EXCEPT ![Node(c)] = shown[c]]
          /\ phase' = [phase EXCEPT ![c] = "auth"]
          /\ UNCHANGED <<file, tmp, open, image, crossed>>
      BY <2>9 DEF Pin, ShownOK, Appending, Goto, diskVars
    <3>2. Whole(pinned) => Whole(pinned')
      BY <1>0, <3>1, TornAssumption DEF Whole, TypeOK, Pins
    <3>3. \A d \in Conns : Using(d)' => Using(d) /\ phase'[d] = phase[d]
      BY <3>1 DEF Using, TypeOK
    <3> QED  BY <3>1, <3>2, <3>3 DEF WholeOK, Whole, Using
  <2> QED  BY <1>1, <2>1, <2>2, <2>3, <2>4, <2>6, <2>7, <2>8, <2>9 DEF KeyStep
<1>2. ASSUME NEW c \in Conns, TaskStep(c) PROVE WholeOK'
  BY <1>2, TaskStepFrame, TaskIsQuiet, QuietStep
<1>3. ASSUME NEW n \in Nodes, NEW s \in Secrets \cup {None}, Seed(n, s)
      PROVE  WholeOK'
  <2>1. QuietFrame
    BY <1>3 DEF Seed, QuietFrame, keyVars, diskVars
  <2> QED  BY <2>1, QuietStep
<1>4. ASSUME NEW readable \in BOOLEAN, Restart(readable)
      PROVE  WholeOK'
  <2>1. \A c \in Conns : ~Using(c)' /\ image'[c] = None
    BY <1>4 DEF Restart, Using, TypeOK
  <2>2. Whole(Empty)
    BY TornAssumption DEF Whole, Empty
  <2>3. crossed = FALSE => Whole(pinned')
    BY <1>4, <2>2 DEF Restart, WholeOK
  <2>4. UNCHANGED <<file, crossed>>
    BY <1>4 DEF Restart
  <2> QED  BY <2>1, <2>3, <2>4 DEF WholeOK, Whole, Using
<1>5. CASE UNCHANGED vars
  <2>1. QuietFrame
    BY <1>5 DEF vars, QuietFrame
  <2> QED  BY <2>1, QuietStep
<1> QED  BY <1>1, <1>2, <1>3, <1>4, <1>5 DEF Next

-----------------------------------------------------------------------------
\* A task comes to send secrets from the check or from the pin, and while it
\* does it stays at its node.
LEMMA IntoSending ==
    ASSUME TypeOK, [Next]_vars, NEW c \in Conns, phase'[c] \in Sending
    PROVE  \/ phase[c] \in Sending /\ at'[c] = at[c] /\ shown'[c] = shown[c]
           \/ KeyTrusted(c)
           \/ Pin(c)
<1> DEFINE Stays(d) ==
      phase[d] \in Sending /\ at'[d] = at[d] /\ shown'[d] = shown[d]
<1> DEFINE Goal == Stays(c) \/ KeyTrusted(c) \/ Pin(c)
<1> SUFFICES Goal
  OBVIOUS
<1> USE DEF TypeOK, Sending, Goto, Fail, keyVars
<1>1. ASSUME NEW d \in Conns, KeyStep(d) PROVE Goal
  BY <1>1 DEF KeyStep, KeyTrusted, KeyAsked, KeyRefused, UserAccepts,
              UserDeclines, AppendLoads, AppendOpens, AppendPuts, AppendWrites,
              AppendRenames, AppendFails, Pin
<1>2. ASSUME NEW d \in Conns, TaskStep(d) PROVE Goal
  <2>1. \/ d # c /\ Stays(c)
        \/ d = c
    <3> SUFFICES ASSUME d # c PROVE Stays(c)
      OBVIOUS
    <3> QED  BY <1>2, TaskStepFrame DEF TaskFrame
  <2>2. CASE d = c
    BY <1>2, <2>2 DEF TaskStep, Begin, Handshake, DialFails, SecretFromCache,
         SecretFromProfile, SecretPrompt, SecretTyped, SecretRefused,
         NoSecretNeeded, LoginOk, LoginFails
  <2> QED  BY <2>1, <2>2
<1>3. ASSUME NEW n \in Nodes, NEW s \in Secrets \cup {None}, Seed(n, s)
      PROVE  Goal
  BY <1>3 DEF Seed
<1>4. ASSUME NEW readable \in BOOLEAN, Restart(readable)
      PROVE  Goal
  BY <1>4 DEF Restart
<1>5. CASE UNCHANGED vars
  BY <1>5 DEF vars
<1> QED  BY <1>1, <1>2, <1>3, <1>4, <1>5 DEF Next

\* A secret is being sent only where the policy admits the key, after any step.
LEMMA PolicyStep ==
    ASSUME IInv, [Next]_vars
    PROVE  NoSecretBeforeTrust'
<1> USE DEF IInv
<1> DEFINE Admitted(c) ==
      /\ policy = "tofu" => Accounted(Node(c), shown[c])
      /\ policy = "ask" => <<c, Node(c), shown[c]>> \in granted
      /\ policy = "strict" => old[Node(c)] = shown[c]
<1>1. policy \in Policies /\ policy' = policy /\ old' = old
  BY DEF TypeOK, Next, vars, KeyStep, TaskStep, Begin, Handshake, DialFails,
         SecretFromCache, SecretFromProfile, SecretPrompt, SecretTyped,
         SecretRefused, NoSecretNeeded, LoginOk, LoginFails, KeyTrusted,
         KeyAsked, KeyRefused, UserAccepts, UserDeclines, AppendLoads,
         AppendOpens, AppendPuts, AppendWrites, AppendRenames, AppendFails, Pin,
         Seed, Restart, keyVars, Fail
<1>2. granted \subseteq granted' /\ (crossed => crossed')
  BY DEF TypeOK, Next, vars, KeyStep, TaskStep, Begin, Handshake, DialFails,
         SecretFromCache, SecretFromProfile, SecretPrompt, SecretTyped,
         SecretRefused, NoSecretNeeded, LoginOk, LoginFails, KeyTrusted,
         KeyAsked, KeyRefused, UserAccepts, UserDeclines, AppendLoads,
         AppendOpens, AppendPuts, AppendWrites, AppendRenames, AppendFails, Pin,
         Seed, Restart, keyVars, diskVars, Fail
<1>3. ASSUME NEW c \in Conns, phase'[c] \in Sending
      PROVE  Admitted(c)'
  <2>1. \/ phase[c] \in Sending /\ at'[c] = at[c] /\ shown'[c] = shown[c]
        \/ KeyTrusted(c)
        \/ Pin(c)
    BY <1>3, IntoSending
  <2>2. CASE phase[c] \in Sending /\ at'[c] = at[c] /\ shown'[c] = shown[c]
    <3>1. Admitted(c)
      BY <1>1, <2>2 DEF NoSecretBeforeTrust, Policies
    <3> QED  BY <1>1, <1>2, <2>2, <3>1, VouchedStays DEF Node
  <2>3. CASE KeyTrusted(c)
    <3>1. /\ pinned[Node(c)] = shown[c]
          /\ policy # "ask"
          /\ shown[c] \in HostKeys
          /\ Node(c) \in Nodes
          /\ UNCHANGED <<at, shown, granted>>
      BY <2>3, NodeInRoute DEF KeyTrusted, ShownOK, keyVars
    <3>2. Accounted(Node(c), shown[c])
      BY <3>1 DEF PinsOK, AllVouched
    <3>3. policy = "strict" => old[Node(c)] = shown[c]
      BY <3>2 DEF StrictOK, Accounted, Vouched
    <3> QED  BY <1>1, <1>2, <3>1, <3>2, <3>3, VouchedStays DEF Node
  <2>4. CASE Pin(c)
    <3>1. /\ <<c, Node(c), shown[c]>> \in granted
          /\ UNCHANGED <<at, shown, granted>>
      BY <2>4 DEF Pin, AppendingOK, Appending
    <3>2. policy # "strict" /\ Accounted(Node(c), shown[c])
      BY <3>1 DEF StrictOK, Accounted, Vouched
    <3> QED  BY <1>1, <1>2, <3>1, <3>2, VouchedStays DEF Node
  <2> QED  BY <2>1, <2>2, <2>3, <2>4
<1> QED  BY <1>1, <1>3 DEF NoSecretBeforeTrust, Policies

-----------------------------------------------------------------------------
LEMMA InvInit ==
    ASSUME Init
    PROVE  IInv
<1>1. TypeOK
  <2>1. \A c \in Conns : 1 \in 1..Len(Route[c])
    BY RouteAssumption
  <2> QED  BY <2>1 DEF Init, TypeOK, Phases, Pins, Passwords, Places
<1>2. PinsOK /\ ImagesOK
  BY DEF Init, PinsOK, ImagesOK, AllVouched, Accounted, Vouched
<1>4. WholeOK
  BY TornAssumption DEF Init, WholeOK, Whole, Using
<1>3. AppendingOK /\ ShownOK /\ StrictOK /\ NoSecretBeforeTrust
  BY DEF Init, AppendingOK, ShownOK, StrictOK, NoSecretBeforeTrust, Appending,
         Sending
<1> QED  BY <1>1, <1>2, <1>3, <1>4 DEF IInv

LEMMA Invariance == Spec => []IInv
<1>1. Init => IInv
  BY InvInit
<1>2. IInv /\ [Next]_vars => IInv'
  BY TypeStep, PinStep, WholeStep, PolicyStep DEF IInv
<1> QED  BY <1>1, <1>2, PTL DEF Spec

\* Every variable keeps its type: no task runs past the end of its route, and
\* known_hosts is always a whole map, never the absent temporary file.
THEOREM TypeCorrect == Spec => []TypeOK
<1>1. IInv => TypeOK
  BY DEF IInv
<1> QED  BY <1>1, Invariance, PTL

\* No credentials are resolved for, or sent to, a node whose host key the trust
\* policy does not admit, whatever the other tasks, the shared known_hosts
\* writers and the restarts do (verify_host_key before authenticate).
THEOREM SecretsOnlyAfterTrust == Spec => []NoSecretBeforeTrust
<1>1. IInv => NoSecretBeforeTrust
  BY DEF IInv
<1> QED  BY <1>1, Invariance, PTL

\* Every server's key in known_hosts and in the verifier was pinned before the
\* first start or accepted by the user, however the writers tear the file they
\* share; and for that very node, and not cut short, as long as no two tasks have
\* been in the temporary file at once (KnownHostsVerifier::remember, atomic_write).
THEOREM PinsComeFromTheUser == Spec => []PinsVouched
<1>1. IInv => PinsVouched
  BY DEF IInv, TypeOK, PinsOK, AllVouched, WholeOK, Whole, PinsVouched
<1> QED  BY <1>1, Invariance, PTL
=============================================================================
