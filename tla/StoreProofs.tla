---------------------------- MODULE StoreProofs -----------------------------
(***************************************************************************)
(* Theorems about what is kept for the users, for any number of requests,  *)
(* creations and connections: the active configuration settles and keeps   *)
(* the edits of saves that do not overlap, notifications reach the         *)
(* connections that are open, and of the stored ones the newest are kept.  *)
(***************************************************************************)
EXTENDS ConfigStore, Notifications, FoldLemmas, FiniteSetTheorems, SequenceTheorems, TLAPS

-----------------------------------------------------------------------------
\* The configuration.

Documents == [version : Nat, sources : SUBSET Nat, others : SUBSET Nat,
              active : BOOLEAN, default : BOOLEAN]
Copies == [version : Nat, sources : SUBSET Nat, others : SUBSET Nat]
InsertStages == {"createIn", "in"}
CreateStages == {"createOff", "createIn", "createCheck"}
Clientele == [op : {"none", "source", "other", "import", "view", "priority"}, edit : Nat,
              at : {"idle", "read", "off", "check", "regroup", "reread", "inPlace"}
                   \cup InsertStages \cup CreateStages,
              id : Nat, copy : Copies]

\* Which requests come to which stage.
Fitting(k) ==
    /\ k.at = "idle" => k.op = "none"
    /\ k.at \in {"read"} \cup CreateStages => k.op \in {"source", "other", "view"}
    /\ k.at \in {"off", "in", "check"} => k.op \in EditOps
    /\ k.at \in {"regroup", "reread", "inPlace"} => k.op = "priority"
    /\ k.at = "inPlace" => k.id \in DOMAIN docs
    /\ k.at = "check" => docs # <<>>

Inserters == {c \in Clients : client[c].at \in InsertStages}

StoreTyped ==
    /\ docs \in Seq(Documents) /\ client \in [Clients -> Clientele]
    /\ ops \in Nat /\ faults \in Nat /\ acked \subseteq Nat /\ raced \in BOOLEAN
    /\ \A c \in Clients : Fitting(client[c])

\* Who has switched off and has yet to insert counts as if it had.
Counted ==
    /\ Cardinality(Active) + Cardinality(Inserters) <= Cardinality(Clients)
    /\ faults = 0 /\ docs # <<>> => Active \cup Inserters # {}

StoreInv == StoreTyped /\ Counted

Undisturbed == faults = 0 /\ ~ raced

\* What the document of a save has to reflect.
Owes(k) == {k.edit} \cup (IF k.op = "import" THEN {} ELSE acked)

\* What the active document has to reflect: from the insertion on what the
\* save owes, else what is acknowledged.
Promised ==
    {Owes(client[c]) : c \in {d \in Clients : client[d].at = "check"}}
        \cup {P \in {acked} : \A c \in Clients : client[c].at # "check"}

Saver(k) == k.op \in EditOps \/ k.at \in CreateStages

\* One client at a time saves; nothing is active in the gap of its save; whoever
\* creates the default has nothing to lose; and what is promised is in the
\* active document, and in what a priority update will make of it.
OneSaver == \A c, d \in Clients : Saver(client[c]) /\ Saver(client[d]) => c = d

OneActive ==
    /\ \A i, j \in Active : i = j
    /\ \A c \in Clients : client[c].at \in InsertStages => Active = {}

CarriesAll ==
    /\ acked # {} => docs # <<>>
    /\ \A c \in Clients : client[c].at \in CreateStages => acked = {}
    /\ \A c \in Clients : client[c].at \in {"off", "in"} =>
          Owes(client[c]) \subseteq client[c].copy.sources \cup client[c].copy.others

Reflected ==
    \A P \in Promised : \A i \in Active :
        /\ P \subseteq docs[i].sources \cup docs[i].others
        /\ \A d \in Clients : client[d].at = "inPlace" /\ client[d].id = i =>
              P \subseteq client[d].copy.sources \cup docs[i].others

UndisturbedInv == Undisturbed => OneSaver /\ OneActive /\ CarriesAll /\ Reflected

ConfigInv == StoreInv /\ UndisturbedInv

\* What a client's record has to satisfy by itself for CarriesAll and Reflected.
Carries(k) ==
    /\ k.at \in CreateStages => acked = {}
    /\ k.at \in {"off", "in"} => Owes(k) \subseteq k.copy.sources \cup k.copy.others
    /\ k.at = "inPlace" => \A P \in Promised : k.id \in Active =>
          P \subseteq k.copy.sources \cup docs[k.id].others

LEMMA ActiveFinite ==
    ASSUME StoreTyped
    PROVE  IsFiniteSet(Active) /\ Cardinality(Active) \in Nat
<1>1. DOMAIN docs = 1 .. Len(docs) /\ Len(docs) \in Nat
  BY LenProperties DEF StoreTyped
<1>2. IsFiniteSet(1 .. Len(docs))
  BY <1>1, FS_Interval
<1>3. Active \subseteq 1 .. Len(docs)
  BY <1>1 DEF Active
<1> QED BY <1>2, <1>3, FS_Subset, FS_CardinalityType

LEMMA InsertersFinite ==
    ASSUME ConfigAssumption
    PROVE  /\ IsFiniteSet(Inserters) /\ Cardinality(Inserters) \in Nat
           /\ Cardinality(Inserters) <= Cardinality(Clients) /\ Cardinality(Clients) \in Nat
<1>1. IsFiniteSet(Clients) /\ Inserters \subseteq Clients
  BY DEF ConfigAssumption, Inserters
<1> QED BY <1>1, FS_Subset, FS_CardinalityType

\* A client moves on and no document changes.
LEMMA ClientMoves ==
    ASSUME ConfigInv, ConfigAssumption, NEW c \in Clients, NEW new \in Clientele,
           client' = [client EXCEPT ![c] = new], UNCHANGED <<docs, acked>>, Fitting(new),
           ops' \in Nat, faults' \in Nat, raced' \in BOOLEAN,
           new.at \notin InsertStages, new.at # "check",
           faults' = 0 => faults = 0 /\ client[c].at \notin InsertStages,
           ~ raced' => ~ raced,
           Undisturbed' =>
              /\ client[c].at # "check" /\ Carries(new)
              /\ Saver(new) => Saver(client[c]) \/ \A d \in Clients \ {c} : ~ Saver(client[d])
    PROVE  ConfigInv'
<1>1. /\ client' \in [Clients -> Clientele] /\ client'[c] = new
      /\ \A d \in Clients \ {c} : client'[d] = client[d]
  BY DEF ConfigInv, StoreInv, StoreTyped
<1>2. StoreTyped'
  BY <1>1 DEF ConfigInv, StoreInv, StoreTyped, Fitting
<1>3. Active' = Active
  BY DEF Active
<1>4. Inserters' \subseteq Inserters /\ (client[c].at \notin InsertStages => Inserters' = Inserters)
  BY <1>1 DEF Inserters
<1>5. Counted'
  <2>1. Cardinality(Inserters') <= Cardinality(Inserters) /\ Cardinality(Inserters') \in Nat
    BY <1>4, InsertersFinite, FS_Subset, FS_CardinalityType
  <2>2. Cardinality(Active) \in Nat /\ Cardinality(Inserters) \in Nat /\ Cardinality(Clients) \in Nat
    BY ActiveFinite, InsertersFinite DEF ConfigInv, StoreInv
  <2>3. Cardinality(Active) + Cardinality(Inserters) <= Cardinality(Clients)
    BY DEF ConfigInv, StoreInv, Counted
  <2>4. Cardinality(Active) + Cardinality(Inserters') <= Cardinality(Clients)
    BY <2>1, <2>2, <2>3
  <2>5. faults' = 0 /\ docs # <<>> => Active \cup Inserters' # {}
    BY <1>4 DEF ConfigInv, StoreInv, Counted
  <2> QED BY <1>3, <2>4, <2>5 DEF Counted
<1>6. ASSUME Undisturbed'
      PROVE  (OneSaver /\ OneActive /\ CarriesAll /\ Reflected)'
  <2>1. OneSaver /\ OneActive /\ CarriesAll /\ Reflected
    BY <1>6 DEF ConfigInv, UndisturbedInv, Undisturbed
  <2>2. OneSaver'
    BY <1>1, <1>6, <2>1 DEF OneSaver, Saver
  <2>3. OneActive'
    BY <1>1, <1>3, <2>1 DEF OneActive
  <2>4. CarriesAll'
    <3>1. \A d \in Clients : Owes(client[d]) = {client[d].edit} \cup (IF client[d].op = "import" THEN {} ELSE acked)
      BY DEF Owes
    <3>2. \A d \in Clients : Owes(client[d])' = {client'[d].edit} \cup (IF client'[d].op = "import" THEN {} ELSE acked)
      BY DEF Owes
    <3> QED BY <1>1, <1>6, <2>1, <3>1, <3>2 DEF CarriesAll, Carries, Owes
  <2>5. Promised' = Promised
    <3>1. client[c].at # "check" /\ new.at # "check"
      BY <1>6
    <3>2. \A d \in Clients : client'[d].at = "check" <=> client[d].at = "check"
      BY <1>1, <3>1
    <3>3. \A d \in Clients : client[d].at = "check" => Owes(client[d])' = Owes(client[d])
      BY <1>1, <3>1 DEF Owes
    <3>4. {Owes(client[d]) : d \in {e \in Clients : client[e].at = "check"}}'
             = {Owes(client[d]) : d \in {e \in Clients : client[e].at = "check"}}
      BY <3>2, <3>3
    <3> QED BY <3>2, <3>4 DEF Promised
  <2>6. Reflected'
    BY <1>1, <1>3, <1>6, <2>1, <2>5 DEF Reflected, Carries
  <2> QED BY <2>2, <2>3, <2>4, <2>6
<1> QED BY <1>2, <1>5, <1>6 DEF ConfigInv, StoreInv, UndisturbedInv

LEMMA IdleIs ==
    /\ Idle \in Clientele /\ Idle.at = "idle" /\ Idle.op = "none" /\ ~ Saver(Idle)
    /\ Fresh \in Copies /\ [Fresh EXCEPT !.version = 2] \in Copies
    /\ Fresh.sources = {} /\ Fresh.others = {}
BY DEF Idle, Clientele, Copies, Saver, EditOps, CreateStages, Fresh

LEMMA EditedIs ==
    ASSUME NEW c, NEW copy \in Copies, client[c].edit \in Nat, client[c].op \in {"source", "other"}
    PROVE  /\ Edited(c, copy) \in Copies
           /\ Edited(c, copy).sources \cup Edited(c, copy).others
                = {client[c].edit} \cup copy.sources \cup copy.others
<1>1. CASE client[c].op = "source"
  BY <1>1 DEF Edited, Copies
<1>2. CASE client[c].op = "other"
  BY <1>2 DEF Edited, Copies
<1> QED BY <1>1, <1>2

\* A client that has done with what it read, or is refused.
LEMMA LeavesKeeps ==
    ASSUME ConfigInv, ConfigAssumption, NEW c \in Clients, Leaves(c), UNCHANGED <<docs, acked>>,
           ops' \in Nat, faults' \in Nat, raced' \in BOOLEAN,
           faults' = 0 => faults = 0 /\ client[c].at \notin InsertStages \cup {"check"},
           ~ raced' => ~ raced
    PROVE  ConfigInv'
<1>1. Fitting(Idle)
  BY IdleIs DEF Fitting, CreateStages
<1>2. Carries(Idle)
  BY IdleIs DEF Carries, CreateStages
<1> QED BY <1>1, <1>2, IdleIs, ClientMoves DEF Leaves, Undisturbed, InsertStages

\* A client that has got a copy, and edits it or not.
LEMMA GotKeeps ==
    ASSUME ConfigInv, ConfigAssumption, NEW c \in Clients, NEW copy \in Copies, Got(c, copy),
           UNCHANGED <<docs, acked>>, client[c].at \in {"read"} \cup CreateStages,
           ops' \in Nat, faults' \in Nat, raced' \in BOOLEAN,
           faults' = 0 => faults = 0 /\ client[c].at \notin InsertStages,
           ~ raced' => ~ raced,
           Undisturbed' /\ client[c].op \in EditOps => acked \subseteq copy.sources \cup copy.others
    PROVE  ConfigInv'
<1>1. CASE Leaves(c)
  BY <1>1, LeavesKeeps DEF CreateStages
<1>2. CASE /\ client[c].op \in EditOps
           /\ client' = [client EXCEPT ![c].copy = Edited(c, copy), ![c].at = "off"]
  <2>0. PICK k : k = client[c]
    OBVIOUS
  <2>1. k \in Clientele /\ Fitting(k) /\ k.op \in EditOps /\ k.at \in {"read"} \cup CreateStages
    BY <1>2, <2>0 DEF ConfigInv, StoreInv, StoreTyped
  <2>2. k.op \in {"source", "other"} /\ k.edit \in Nat
    BY <2>1 DEF Fitting, EditOps, CreateStages, Clientele
  <2>3. PICK edited : edited = Edited(c, copy)
    OBVIOUS
  <2>4. /\ edited \in Copies
        /\ edited.sources \cup edited.others = {k.edit} \cup copy.sources \cup copy.others
    BY <2>0, <2>2, <2>3, EditedIs
  <2> DEFINE new == [k EXCEPT !.copy = edited, !.at = "off"]
  <2>5. client' = [client EXCEPT ![c] = new]
    BY <1>2, <2>0, <2>3
  <2>6. /\ new \in Clientele /\ new.at = "off" /\ new.op = k.op /\ new.copy = edited
        /\ new.edit = k.edit
    BY <2>1, <2>4 DEF Clientele
  <2> HIDE DEF new
  <2>7. Fitting(new)
    BY <2>1, <2>6 DEF Fitting, CreateStages
  <2>8. Undisturbed' => Carries(new)
    BY <2>0, <2>1, <2>2, <2>4, <2>6 DEF Carries, Owes, CreateStages
  <2>9. Saver(new) => Saver(client[c])
    BY <2>0, <2>1 DEF Saver
  <2>10. client[c].at # "check" /\ new.at \notin InsertStages /\ new.at # "check"
    BY <2>6 DEF CreateStages, InsertStages
  <2> QED BY <2>5, <2>6, <2>7, <2>8, <2>9, <2>10, ClientMoves
<1> QED BY <1>1, <1>2 DEF Got

LEMMA ServedIs ==
    ASSUME StoreTyped, NEW i \in Served
    PROVE  i \in Active /\ i \in DOMAIN docs /\ docs[i] \in Documents /\ Content(i) \in Copies
           /\ docs[i].sources \subseteq Nat
           /\ Content(i).sources = docs[i].sources /\ Content(i).others = docs[i].others
<1>1. i \in Active /\ i \in DOMAIN docs
  BY DEF Served, Active
<1>2. docs[i] \in Documents
  BY <1>1, ElementOfSeq, LenProperties DEF StoreTyped
<1>3. /\ docs[i].version \in Nat /\ docs[i].sources \subseteq Nat /\ docs[i].others \subseteq Nat
  BY <1>2 DEF Documents
<1> QED BY <1>1, <1>2, <1>3 DEF Content, Copies

\* Without overlaps and faults, nothing is served only when there is nothing,
\* or in the gap of a save.
LEMMA NothingServed ==
    ASSUME ConfigInv, Undisturbed, Served = {}
    PROVE  acked = {} \/ \E d \in Clients : Saver(client[d]) /\ client[d].at \in InsertStages
<1>1. Active = {}
  <2>1. SUFFICES ASSUME NEW i \in Active
                 PROVE  FALSE
    OBVIOUS
  <2>2. docs[i] \in Documents
    BY ElementOfSeq, LenProperties DEF ConfigInv, StoreInv, StoreTyped, Active
  <2>3. docs[i].version <= docs[i].version
    BY <2>2 DEF Documents
  <2>4. \A j \in Active : j = i
    BY DEF ConfigInv, UndisturbedInv, OneActive
  <2> QED BY <2>3, <2>4 DEF Served
<1>2. CASE docs = <<>>
  BY <1>2 DEF ConfigInv, UndisturbedInv, CarriesAll
<1>3. CASE docs # <<>>
  <2>1. PICK d \in Inserters : TRUE
    BY <1>1, <1>3 DEF ConfigInv, StoreInv, Counted, Undisturbed
  <2> QED BY <2>1 DEF Inserters, ConfigInv, StoreInv, StoreTyped, Fitting, Saver, InsertStages,
                      CreateStages, EditOps
<1> QED BY <1>2, <1>3

LEMMA ReadKeeps ==
    ASSUME ConfigInv, ConfigAssumption, NEW c \in Clients, Read(c) \/ ReadFails(c)
    PROVE  ConfigInv'
<1>0. PICK k : k = client[c]
  OBVIOUS
<1>1. /\ k \in Clientele /\ Fitting(k) /\ k.at = "read" /\ k.op \in {"source", "other", "view"}
      /\ ops \in Nat /\ faults \in Nat /\ raced \in BOOLEAN /\ StoreTyped
      /\ ops' = ops /\ UNCHANGED <<docs, acked>>
  BY <1>0 DEF ConfigInv, StoreInv, StoreTyped, Fitting, Read, ReadFails
<1>2. client[c].at \notin InsertStages \cup CreateStages \cup {"check"}
  BY <1>0, <1>1 DEF InsertStages, CreateStages
<1>3. CASE Read(c) /\ \E i \in Served : Got(c, Content(i))
  <2>1. PICK i \in Served : Got(c, Content(i))
    BY <1>3
  <2>2. faults' = faults /\ raced' \in BOOLEAN /\ (~ raced' => ~ raced)
    BY <1>1, <1>3 DEF Read
  <2>3. Content(i) \in Copies /\ i \in Active /\ i \in DOMAIN docs
        /\ Content(i).sources = docs[i].sources /\ Content(i).others = docs[i].others
    BY <1>1, <2>1, ServedIs
  <2>4. ASSUME Undisturbed', client[c].op \in EditOps
        PROVE  acked \subseteq Content(i).sources \cup Content(i).others
    <3>0. Undisturbed
      BY <2>2, <2>4 DEF Undisturbed
    <3>1. OneSaver /\ Reflected
      BY <3>0 DEF ConfigInv, UndisturbedInv
    <3>2. ASSUME NEW d \in Clients, client[d].at = "check"
          PROVE  FALSE
      <4>1. client[d].op \in EditOps
        BY <3>2, <1>1 DEF StoreTyped, Fitting
      <4> QED BY <1>0, <1>1, <2>4, <3>1, <3>2, <4>1 DEF OneSaver, Saver
    <3>3. acked \in Promised
      BY <3>2 DEF Promised
    <3> QED BY <2>3, <3>1, <3>3 DEF Reflected
  <2> QED BY <1>0, <1>1, <1>2, <2>1, <2>2, <2>3, <2>4, GotKeeps
<1>4. CASE Read(c) /\ Served = {} /\ Moves(c, "createOff") /\ raced' = (raced \/ OtherSaves(c))
  <2> DEFINE new == [k EXCEPT !.at = "createOff"]
  <2>1. client' = [client EXCEPT ![c] = new] /\ faults' = faults
    BY <1>0, <1>4 DEF Moves, Read
  <2>2. new \in Clientele /\ new.at = "createOff" /\ new.op = k.op
    BY <1>1 DEF Clientele, CreateStages
  <2> HIDE DEF new
  <2>3. Fitting(new)
    BY <1>1, <2>2 DEF Fitting, CreateStages
  <2>4. ASSUME Undisturbed'
        PROVE  /\ Carries(new) /\ \A d \in Clients \ {c} : ~ Saver(client[d])
    <3>1. Undisturbed /\ ~ OtherSaves(c)
      BY <1>4, <2>1, <2>4 DEF Undisturbed
    <3>2. \A d \in Clients \ {c} : ~ Saver(client[d])
      BY <3>1 DEF OtherSaves, Saves, Saver, CreateStages
    <3>3. acked = {}
      BY <1>2, <1>4, <3>1, <3>2, NothingServed
    <3> QED BY <2>2, <3>2, <3>3 DEF Carries
  <2>5. raced' \in BOOLEAN /\ (~ raced' => ~ raced)
    BY <1>1, <1>4 DEF OtherSaves
  <2>6. new.at \notin InsertStages /\ new.at # "check"
    BY <2>2 DEF InsertStages
  <2> QED BY <1>1, <1>2, <2>1, <2>2, <2>3, <2>4, <2>5, <2>6, ClientMoves
<1>5. CASE ReadFails(c)
  <2>1. PICK s \in {{}} \cup {docs[i].sources : i \in Served} :
               Got(c, [Fresh EXCEPT !.sources = s])
    BY <1>5 DEF ReadFails
  <2>2. s \subseteq Nat
    BY <1>1, ServedIs
  <2>3. [Fresh EXCEPT !.sources = s] \in Copies
    BY <2>2 DEF Fresh, Copies
  <2>4. faults' \in Nat /\ faults' # 0 /\ raced' = raced
    BY <1>1, <1>5 DEF ReadFails, Fault
  <2> QED BY <1>0, <1>1, <2>1, <2>3, <2>4, GotKeeps DEF Undisturbed
<1> QED BY <1>3, <1>4, <1>5 DEF Read

LEMMA RequestKeeps ==
    ASSUME ConfigInv, ConfigAssumption, NEW c \in Clients,
           NEW op \in EditOps \cup {"view", "priority"}, Request(c, op)
    PROVE  ConfigInv'
<1> DEFINE at == CASE op = "import" -> "off" [] op = "priority" -> "regroup" [] OTHER -> "read"
           copy == IF op = "import" THEN [Fresh EXCEPT !.others = {ops'}] ELSE Fresh
           new == [Idle EXCEPT !.op = op, !.edit = ops', !.at = at, !.copy = copy]
<1>1. /\ client' = [client EXCEPT ![c] = new] /\ client[c] = Idle /\ ops' = ops + 1
      /\ raced' = (raced \/ (op \in EditOps /\ OtherSaves(c)))
      /\ UNCHANGED <<docs, faults, acked>>
  BY DEF Request
<1>2. ops \in Nat /\ faults \in Nat /\ raced \in BOOLEAN
  BY DEF ConfigInv, StoreInv, StoreTyped
<1>3. ops' \in Nat
  BY <1>1, <1>2
<1>4. /\ op = "import" => at = "off"
      /\ op = "priority" => at = "regroup"
      /\ op \in {"source", "other", "view"} => at = "read"
  BY DEF EditOps
<1>5. copy \in Copies /\ (op = "import" => copy.others = {ops'})
  BY <1>3 DEF Copies, Fresh
<1>6. /\ new \in Clientele /\ new.at = at /\ new.op = op /\ new.copy = copy /\ new.edit = ops'
  BY <1>3, <1>4, <1>5 DEF Clientele, Idle, EditOps
<1> HIDE DEF new, at, copy
<1>a. op \in {"source", "other", "import", "view", "priority"}
  BY DEF EditOps
<1>7. /\ at \in {"off", "regroup", "read"} /\ (at = "off" => op = "import")
      /\ (at = "regroup" => op = "priority") /\ (at = "read" => op \in {"source", "other", "view"})
  <2>1. op \in {"import", "priority"} \/ op \in {"source", "other", "view"}
    BY <1>a
  <2> QED BY <1>4, <2>1
<1>8. Fitting(new)
  BY <1>6, <1>7 DEF Fitting, EditOps, CreateStages
<1>9. Carries(new)
  BY <1>4, <1>5, <1>6, <1>7 DEF Carries, Owes, CreateStages
<1>10. ASSUME ~ raced', Saver(new)
       PROVE  \A d \in Clients \ {c} : ~ Saver(client[d])
  <2>1. op \in EditOps
    BY <1>6, <1>7, <1>10 DEF Saver, CreateStages
  <2> QED BY <1>1, <1>10, <2>1 DEF OtherSaves, Saves, Saver, CreateStages
<1>11. raced' \in BOOLEAN /\ (~ raced' => ~ raced)
  BY <1>1, <1>2 DEF OtherSaves
<1>12. /\ new.at \notin InsertStages /\ new.at # "check" /\ client[c].at \notin InsertStages
       /\ client[c].at # "check"
  BY <1>1, <1>6, <1>7, IdleIs DEF InsertStages
<1> QED BY <1>1, <1>2, <1>3, <1>6, <1>8, <1>9, <1>10, <1>11, <1>12, ClientMoves DEF Undisturbed

LEMMA DeactivateKeeps ==
    ASSUME ConfigInv, ConfigAssumption, NEW c \in Clients, Deactivate(c)
    PROVE  ConfigInv'
<1>0. PICK k : k = client[c]
  OBVIOUS
<1>1. /\ k \in Clientele /\ Fitting(k) /\ k.at \in {"createOff", "off"} /\ StoreTyped
      /\ docs' = SwitchedOff /\ UNCHANGED <<ops, faults, acked, raced>>
  BY <1>0 DEF ConfigInv, StoreInv, StoreTyped, Deactivate
<1>2. PICK stage \in InsertStages : /\ stage = IF k.at = "off" THEN "in" ELSE "createIn"
  BY DEF InsertStages
<1> DEFINE new == [k EXCEPT !.at = stage]
<1>3. client' = [client EXCEPT ![c] = new]
  BY <1>0, <1>2 DEF Deactivate, Moves
<1>4. /\ new \in Clientele /\ new.at = stage /\ new.op = k.op /\ new.edit = k.edit
      /\ new.copy = k.copy
  BY <1>1, <1>2 DEF Clientele
<1> HIDE DEF new
<1>5. /\ client' \in [Clients -> Clientele] /\ client'[c] = new
      /\ \A d \in Clients \ {c} : client'[d] = client[d]
  BY <1>1, <1>3, <1>4 DEF StoreTyped
<1>6. docs' \in Seq(Documents) /\ DOMAIN docs' = DOMAIN docs /\ Len(docs') = Len(docs)
      /\ \A i \in DOMAIN docs : ~ docs'[i].active
  <2>1. docs \in Seq(Documents) /\ DOMAIN docs = 1 .. Len(docs) /\ Len(docs) \in Nat
    BY <1>1, LenProperties DEF StoreTyped
  <2>2. ASSUME NEW i \in DOMAIN docs
        PROVE  [docs[i] EXCEPT !.active = FALSE] \in Documents /\ ~ [docs[i] EXCEPT !.active = FALSE].active
    <3>1. docs[i] \in Documents
      BY <2>1, ElementOfSeq
    <3> QED BY <3>1 DEF Documents
  <2>3. docs' = [i \in DOMAIN docs |-> [docs[i] EXCEPT !.active = FALSE]]
    BY <1>1 DEF SwitchedOff
  <2>4. DOMAIN docs' = 1 .. Len(docs) /\ \A i \in 1 .. Len(docs) : docs'[i] \in Documents
    BY <2>1, <2>2, <2>3
  <2>5. docs' \in Seq(Documents)
    BY <2>1, <2>2, <2>3, IsASeq
  <2>6. Len(docs') = Len(docs)
    BY <2>1, <2>4, <2>5, LenProperties
  <2> QED BY <2>1, <2>2, <2>3, <2>5, <2>6
<1>6a. docs' = <<>> <=> docs = <<>>
  BY <1>6, <1>1, EmptySeq, LenProperties DEF StoreTyped
<1>7. Active' = {}
  BY <1>6 DEF Active
<1>8. Fitting(new)'
  BY <1>1, <1>2, <1>4 DEF Fitting, InsertStages, CreateStages, EditOps
<1>9. StoreTyped'
  BY <1>1, <1>5, <1>6, <1>6a, <1>8 DEF StoreTyped, Fitting
<1>10. Counted'
  <2>1. Inserters' \subseteq Clients /\ c \in Inserters'
    BY <1>2, <1>4, <1>5 DEF Inserters
  <2>2. Cardinality(Inserters') <= Cardinality(Clients) /\ Cardinality(Inserters') \in Nat
    BY <2>1, FS_Subset, FS_CardinalityType DEF ConfigAssumption
  <2>3. Cardinality({}) = 0
    BY FS_EmptySet
  <2>4. Cardinality(Active') + Cardinality(Inserters') <= Cardinality(Clients)
    BY <1>7, <2>2, <2>3
  <2> QED BY <2>1, <2>4 DEF Counted
<1>11. ASSUME Undisturbed'
       PROVE  (OneSaver /\ OneActive /\ CarriesAll /\ Reflected)'
  <2>1. OneSaver /\ OneActive /\ CarriesAll
    BY <1>1, <1>11 DEF ConfigInv, UndisturbedInv, Undisturbed
  <2>2. Saver(new) <=> Saver(k)
    BY <1>1, <1>2, <1>4 DEF Saver, Fitting, CreateStages, EditOps, InsertStages
  <2>3. OneSaver'
    BY <1>0, <1>5, <2>1, <2>2 DEF OneSaver, Saver
  <2>4. OneActive' /\ Reflected'
    BY <1>7 DEF OneActive, Reflected
  <2>6. \A d \in Clients : client'[d].at \in CreateStages => acked = {}
    <3>1. new.at \in CreateStages => k.at \in CreateStages
      BY <1>1, <1>2, <1>4 DEF CreateStages
    <3> QED BY <1>0, <1>5, <2>1, <3>1 DEF CarriesAll
  <2>7. \A d \in Clients : client'[d].at \in {"off", "in"} =>
          /\ client[d].at \in {"off", "in"}
          /\ client'[d].copy = client[d].copy /\ client'[d].edit = client[d].edit
          /\ client'[d].op = client[d].op
    <3>1. new.at \in {"off", "in"} => k.at \in {"off", "in"}
      BY <1>1, <1>2, <1>4
    <3> QED BY <1>0, <1>4, <1>5, <3>1
  <2>8. CarriesAll'
    BY <1>1, <1>6a, <2>1, <2>6, <2>7 DEF CarriesAll, Owes
  <2> QED BY <2>3, <2>4, <2>8
<1> QED BY <1>9, <1>10, <1>11 DEF ConfigInv, StoreInv, UndisturbedInv

LEMMA InsertKeeps ==
    ASSUME ConfigInv, ConfigAssumption, NEW c \in Clients, InsertDoc(c)
    PROVE  ConfigInv'
<1>0. PICK k : k = client[c]
  OBVIOUS
<1>1. /\ k \in Clientele /\ Fitting(k) /\ k.at \in InsertStages /\ StoreTyped /\ Counted
      /\ UNCHANGED <<ops, faults, acked, raced>>
  BY <1>0 DEF ConfigInv, StoreInv, StoreTyped, InsertDoc, InsertStages
<1>2. PICK stage \in {"check", "createCheck"} :
         stage = IF k.at = "in" THEN "check" ELSE "createCheck"
  OBVIOUS
<1>3. PICK doc : doc = Stored(k.copy, k.at = "createIn")
  OBVIOUS
<1>4. /\ doc \in Documents /\ doc.active /\ doc.sources = k.copy.sources
      /\ doc.others = k.copy.others
  BY <1>1, <1>3 DEF Stored, Clientele, Copies, Documents
<1> DEFINE new == [k EXCEPT !.at = stage]
<1>5. client' = [client EXCEPT ![c] = new] /\ docs' = Append(docs, doc)
  BY <1>0, <1>2, <1>3 DEF InsertDoc, Moves
<1>6. /\ new \in Clientele /\ new.at = stage /\ new.op = k.op /\ new.edit = k.edit
      /\ new.copy = k.copy
  BY <1>1, <1>2 DEF Clientele, CreateStages
<1> HIDE DEF new
<1>7. /\ client' \in [Clients -> Clientele] /\ client'[c] = new
      /\ \A d \in Clients \ {c} : client'[d] = client[d]
  BY <1>1, <1>5, <1>6 DEF StoreTyped
<1>8. PICK n \in Nat : n = Len(docs)
  BY <1>1, LenProperties DEF StoreTyped
<1>9. /\ docs' \in Seq(Documents) /\ DOMAIN docs = 1 .. n /\ DOMAIN docs' = 1 .. n + 1
      /\ docs'[n + 1] = doc /\ \A i \in 1 .. n : docs'[i] = docs[i]
      /\ docs' # <<>>
  BY <1>1, <1>4, <1>5, <1>8, AppendProperties, LenProperties DEF StoreTyped
<1>10. Active' = Active \cup {n + 1} /\ n + 1 \notin Active /\ n + 1 \notin DOMAIN docs
  BY <1>4, <1>8, <1>9 DEF Active
<1>11. Inserters' = Inserters \ {c} /\ c \in Inserters
  BY <1>0, <1>1, <1>2, <1>6, <1>7 DEF Inserters, InsertStages
<1>12. Fitting(new)'
  BY <1>1, <1>2, <1>6, <1>9 DEF Fitting, InsertStages, CreateStages, EditOps
<1>13. StoreTyped'
  BY <1>1, <1>7, <1>8, <1>9, <1>12 DEF StoreTyped, Fitting
<1>14. Counted'
  <2>1. IsFiniteSet(Active) /\ Cardinality(Active) \in Nat
    BY <1>1, ActiveFinite
  <2>2. Cardinality(Active') = Cardinality(Active) + 1
    BY <1>10, <2>1, FS_AddElement
  <2>3. IsFiniteSet(Inserters) /\ Cardinality(Inserters) \in Nat /\ Cardinality(Clients) \in Nat
    BY InsertersFinite
  <2>4. Cardinality(Inserters') = Cardinality(Inserters) - 1
    BY <1>11, <2>3, FS_RemoveElement
  <2>5. Cardinality(Active') + Cardinality(Inserters') <= Cardinality(Clients)
    BY <1>1, <2>1, <2>2, <2>3, <2>4 DEF Counted
  <2> QED BY <1>10, <2>5 DEF Counted
<1>15. ASSUME Undisturbed'
       PROVE  (OneSaver /\ OneActive /\ CarriesAll /\ Reflected)'
  <2>1. OneSaver /\ OneActive /\ CarriesAll
    BY <1>1, <1>15 DEF ConfigInv, UndisturbedInv, Undisturbed
  <2>2. Saver(k) /\ \A d \in Clients \ {c} : ~ Saver(client[d])
    <3>1. Saver(k)
      BY <1>1 DEF Saver, Fitting, CreateStages, InsertStages
    <3> QED BY <1>0, <2>1, <3>1 DEF OneSaver
  <2>3. OneSaver'
    BY <1>7, <2>2 DEF OneSaver, Saver
  <2>4. Active = {} /\ Active' = {n + 1}
    BY <1>0, <1>1, <1>10, <2>1 DEF OneActive
  <2>5. \A d \in Clients \ {c} : client[d].at \notin {"off", "in", "check"} \cup CreateStages
    BY <1>1, <2>2 DEF StoreTyped, Fitting, Saver
  <2>6. OneActive'
    <3>1. \A d \in Clients : client'[d].at \notin InsertStages
      BY <1>2, <1>6, <1>7, <2>5 DEF InsertStages, CreateStages
    <3> QED BY <2>4, <3>1 DEF OneActive
  <2>7. k.at = "createIn" => acked = {}
    BY <1>0, <2>1 DEF CarriesAll, CreateStages
  <2>8. CarriesAll'
    <3>1. new.at \in CreateStages => acked = {}
      BY <1>2, <1>6, <1>1, <2>7 DEF CreateStages, InsertStages
    <3>2. new.at \notin {"off", "in"}
      BY <1>2, <1>6
    <3> QED BY <1>1, <1>7, <1>9, <2>5, <3>1, <3>2 DEF CarriesAll
  <2>9. ASSUME NEW P \in Promised'
        PROVE  P \subseteq doc.sources \cup doc.others
    <3>1. CASE k.at = "in"
      <4>1. new.at = "check" /\ client'[c].at = "check"
        BY <1>2, <1>6, <1>7, <3>1
      <4>2. P = Owes(client[c])'
        BY <1>7, <2>5, <2>9, <4>1 DEF Promised
      <4>3. Owes(client[c])' = Owes(k)
        BY <1>1, <1>6, <1>7 DEF Owes
      <4>4. Owes(k) \subseteq k.copy.sources \cup k.copy.others
        BY <1>0, <2>1, <3>1 DEF CarriesAll
      <4> QED BY <1>4, <4>2, <4>3, <4>4
    <3>2. CASE k.at = "createIn"
      <4>1. \A d \in Clients : client'[d].at # "check"
        BY <1>2, <1>6, <1>7, <2>5, <3>2
      <4>2. P = acked
        BY <1>1, <2>9, <4>1 DEF Promised
      <4> QED BY <2>7, <3>2, <4>2
    <3> QED BY <1>1, <3>1, <3>2 DEF InsertStages
  <2>10. \A d \in Clients : ~ (client'[d].at = "inPlace" /\ client'[d].id = n + 1)
    <3>1. \A d \in Clients \ {c} : client[d].at = "inPlace" => client[d].id \in DOMAIN docs
      BY <1>1 DEF StoreTyped, Fitting
    <3> QED BY <1>2, <1>6, <1>7, <1>10, <3>1
  <2>11. Reflected'
    BY <1>9, <2>4, <2>9, <2>10 DEF Reflected
  <2> QED BY <2>3, <2>6, <2>8, <2>11
<1> QED BY <1>13, <1>14, <1>15 DEF ConfigInv, StoreInv, UndisturbedInv

LEMMA ConfirmKeeps ==
    ASSUME ConfigInv, ConfigAssumption, NEW c \in Clients, Confirm(c)
    PROVE  ConfigInv'
<1>0. PICK k : k = client[c]
  OBVIOUS
<1>1. /\ k \in Clientele /\ Fitting(k) /\ StoreTyped /\ Counted
      /\ ops \in Nat /\ faults \in Nat /\ raced \in BOOLEAN
      /\ UNCHANGED <<docs, ops, faults, raced>>
  BY <1>0 DEF ConfigInv, StoreInv, StoreTyped, Confirm
<1>2. CASE /\ client[c].at = "createCheck" /\ Got(c, [Fresh EXCEPT !.version = 2])
           /\ UNCHANGED acked
  <2>1. Undisturbed' => acked = {}
    BY <1>1, <1>2 DEF Undisturbed, ConfigInv, UndisturbedInv, CarriesAll, CreateStages
  <2>2. client[c].at \in CreateStages /\ client[c].at \notin InsertStages
    BY <1>2 DEF CreateStages, InsertStages
  <2> QED BY <1>1, <1>2, <2>1, <2>2, IdleIs, GotKeeps
<1>3. CASE /\ client[c].at = "check" /\ Leaves(c)
           /\ acked' = {client[c].edit} \cup (IF client[c].op = "import" THEN {} ELSE acked)
  <2>1. /\ client' \in [Clients -> Clientele] /\ client'[c] = Idle
        /\ \A d \in Clients \ {c} : client'[d] = client[d]
    BY <1>1, <1>3, IdleIs DEF StoreTyped, Leaves
  <2>2. acked' = Owes(k) /\ acked' \subseteq Nat
    <3>1. k.edit \in Nat /\ acked \subseteq Nat
      BY <1>1 DEF Clientele, StoreTyped
    <3> QED BY <1>0, <1>3, <3>1 DEF Owes
  <2>3. Fitting(Idle)'
    BY IdleIs DEF Fitting, CreateStages
  <2>4. StoreTyped'
    BY <1>1, <2>1, <2>2, <2>3 DEF StoreTyped, Fitting
  <2>5. Active' = Active /\ Inserters' = Inserters
    BY <1>1, <1>3, <2>1, IdleIs DEF Active, Inserters, InsertStages
  <2>6. Counted'
    BY <1>1, <2>5 DEF Counted
  <2>7. ASSUME Undisturbed'
        PROVE  (OneSaver /\ OneActive /\ CarriesAll /\ Reflected)'
    <3>1. OneSaver /\ OneActive /\ CarriesAll /\ Reflected
      BY <1>1, <2>7 DEF ConfigInv, UndisturbedInv, Undisturbed
    <3>2. \A d \in Clients \ {c} : ~ Saver(client[d])
      BY <1>0, <1>1, <1>3, <3>1 DEF OneSaver, Saver, Fitting
    <3>3. \A d \in Clients : ~ Saver(client'[d])
      BY <2>1, <3>2, IdleIs
    <3>4. \A d \in Clients : client'[d].at \notin {"off", "in", "check"} \cup CreateStages
      BY <2>4, <3>3 DEF StoreTyped, Fitting, Saver
    <3>5. OneSaver'
      BY <3>3 DEF OneSaver, Saver
    <3>6. OneActive'
      BY <2>1, <2>5, <3>1, IdleIs DEF OneActive, InsertStages
    <3>7. CarriesAll'
      BY <1>0, <1>1, <1>3, <3>4 DEF CarriesAll, Fitting
    <3>8. Owes(k) \in Promised
      BY <1>0, <1>3 DEF Promised
    <3>9. Promised' = {Owes(k)}
      <4>1. Promised' = {acked'}
        BY <3>4 DEF Promised
      <4> QED BY <2>2, <4>1
    <3>10. Reflected'
      BY <1>1, <2>1, <2>5, <3>1, <3>8, <3>9, IdleIs DEF Reflected
    <3> QED BY <3>5, <3>6, <3>7, <3>10
  <2> QED BY <2>4, <2>6, <2>7 DEF ConfigInv, StoreInv, UndisturbedInv
<1> QED BY <1>2, <1>3 DEF Confirm

LEMMA FailKeeps ==
    ASSUME ConfigInv, ConfigAssumption, NEW c \in Clients, SaveFails(c) \/ PriorityFails(c)
    PROVE  ConfigInv'
<1>1. /\ ops' \in Nat /\ faults' \in Nat /\ faults' # 0 /\ raced' \in BOOLEAN /\ raced' = raced
      /\ UNCHANGED <<docs, acked>>
  BY DEF ConfigInv, StoreInv, StoreTyped, SaveFails, PriorityFails, Fault
<1>2. CASE Leaves(c)
  BY <1>1, <1>2, LeavesKeeps
<1>3. CASE client[c].at \in CreateStages /\ Got(c, [Fresh EXCEPT !.version = 2])
  BY <1>1, <1>3, IdleIs, GotKeeps DEF Undisturbed
<1> QED BY <1>2, <1>3 DEF SaveFails, PriorityFails, CreateStages

LEMMA RereadKeeps ==
    ASSUME ConfigInv, ConfigAssumption, NEW c \in Clients, Regroup(c) \/ Reread(c)
    PROVE  ConfigInv'
<1>0. PICK k : k = client[c]
  OBVIOUS
<1>1. /\ k \in Clientele /\ Fitting(k) /\ StoreTyped /\ k.at \in {"regroup", "reread"}
      /\ k.op = "priority" /\ client[c].at \notin InsertStages /\ client[c].at # "check"
      /\ ops' \in Nat /\ faults' \in Nat /\ raced' \in BOOLEAN
      /\ UNCHANGED <<docs, faults, raced, acked>>
  BY <1>0 DEF ConfigInv, StoreInv, StoreTyped, Regroup, Reread, Fitting, InsertStages
<1>2. CASE Regroup(c)
  <2> DEFINE new == [k EXCEPT !.at = "reread"]
  <2>1. client' = [client EXCEPT ![c] = new]
    BY <1>0, <1>2 DEF Regroup, Moves
  <2>2. new \in Clientele /\ new.at = "reread" /\ new.op = k.op
    BY <1>1 DEF Clientele
  <2> HIDE DEF new
  <2>3. Fitting(new) /\ Carries(new) /\ ~ Saver(new) /\ new.at \notin InsertStages
    BY <1>1, <2>2 DEF Fitting, Carries, Saver, EditOps, CreateStages, InsertStages
  <2> QED BY <1>1, <2>1, <2>2, <2>3, ClientMoves
<1>3. CASE Reread(c) /\ Leaves(c)
  BY <1>1, <1>3, LeavesKeeps
<1>4. ASSUME NEW i \in Served,
             client' = [client EXCEPT ![c].copy = Content(i), ![c].id = i, ![c].at = "inPlace"]
      PROVE  ConfigInv'
  <2>1. /\ Content(i) \in Copies /\ i \in Active /\ i \in DOMAIN docs
        /\ Content(i).sources = docs[i].sources
    BY <1>1, ServedIs
  <2>2. i \in Nat
    BY <1>1, <2>1, LenProperties DEF StoreTyped
  <2>3. PICK copy \in Copies : copy = Content(i)
    BY <2>1
  <2> DEFINE new == [k EXCEPT !.copy = copy, !.id = i, !.at = "inPlace"]
  <2>4. client' = [client EXCEPT ![c] = new]
    BY <1>0, <1>4, <2>3
  <2>5. /\ new \in Clientele /\ new.at = "inPlace" /\ new.op = k.op /\ new.id = i
        /\ new.copy = copy
    BY <1>1, <2>2 DEF Clientele
  <2> HIDE DEF new
  <2>6. Fitting(new) /\ ~ Saver(new) /\ new.at \notin InsertStages
    BY <1>1, <2>1, <2>5 DEF Fitting, Saver, EditOps, CreateStages, InsertStages
  <2>7. Undisturbed' => Reflected
    BY <1>1 DEF Undisturbed, ConfigInv, UndisturbedInv
  <2>8. Undisturbed' => Carries(new)
    BY <2>1, <2>3, <2>5, <2>7 DEF Carries, Reflected, CreateStages
  <2> QED BY <1>1, <2>4, <2>5, <2>6, <2>8, ClientMoves
<1> QED BY <1>2, <1>3, <1>4 DEF Reread

LEMMA WriteKeeps ==
    ASSUME ConfigInv, ConfigAssumption, NEW c \in Clients, WriteInPlace(c)
    PROVE  ConfigInv'
<1>0. PICK k : k = client[c]
  OBVIOUS
<1>1. /\ k \in Clientele /\ Fitting(k) /\ StoreTyped /\ Counted /\ k.at = "inPlace"
      /\ k.id \in DOMAIN docs /\ UNCHANGED <<ops, faults, acked, raced>>
  BY <1>0 DEF ConfigInv, StoreInv, StoreTyped, WriteInPlace, Fitting
<1>2. PICK i \in DOMAIN docs : i = k.id
  BY <1>1
<1>3. docs[i] \in Documents
  BY <1>1, ElementOfSeq, LenProperties DEF StoreTyped
<1>4. PICK doc : doc = [docs[i] EXCEPT !.sources = k.copy.sources \cup {k.edit},
                                       !.version = k.copy.version + 1]
  OBVIOUS
<1>5. /\ doc \in Documents /\ doc.sources = k.copy.sources \cup {k.edit}
      /\ doc.others = docs[i].others /\ doc.active = docs[i].active
  <2>1. PICK sources \in SUBSET Nat : sources = k.copy.sources \cup {k.edit}
    BY <1>1 DEF Clientele, Copies
  <2>2. PICK version \in Nat : version = k.copy.version + 1
    BY <1>1 DEF Clientele, Copies
  <2>3. doc = [docs[i] EXCEPT !.sources = sources, !.version = version]
    BY <1>4, <2>1, <2>2
  <2> QED BY <1>3, <2>1, <2>3 DEF Documents
<1>6. docs' = [docs EXCEPT ![i] = doc]
  BY <1>0, <1>2, <1>4 DEF WriteInPlace, InPlace
<1>7. /\ docs' \in Seq(Documents) /\ DOMAIN docs' = DOMAIN docs /\ docs'[i] = doc
      /\ \A j \in DOMAIN docs \ {i} : docs'[j] = docs[j]
  BY <1>1, <1>5, <1>6, ExceptSeq, LenProperties DEF StoreTyped
<1>8. docs' # <<>> /\ docs # <<>>
  BY <1>7, EmptySeq, LenProperties
<1>9. /\ client' \in [Clients -> Clientele] /\ client'[c] = Idle
      /\ \A d \in Clients \ {c} : client'[d] = client[d]
  BY <1>1, IdleIs DEF StoreTyped, WriteInPlace, Leaves
<1>10. Fitting(Idle)'
  BY IdleIs DEF Fitting, CreateStages
<1>11. StoreTyped'
  BY <1>1, <1>7, <1>8, <1>9, <1>10 DEF StoreTyped, Fitting
<1>12. Active' = Active /\ Inserters' = Inserters
  BY <1>0, <1>1, <1>5, <1>7, <1>9, IdleIs DEF Active, Inserters, InsertStages
<1>13. Counted'
  BY <1>1, <1>8, <1>12 DEF Counted
<1>14. ASSUME Undisturbed'
       PROVE  (OneSaver /\ OneActive /\ CarriesAll /\ Reflected)'
  <2>1. OneSaver /\ OneActive /\ CarriesAll /\ Reflected
    BY <1>1, <1>14 DEF ConfigInv, UndisturbedInv, Undisturbed
  <2>2. OneSaver'
    BY <1>9, <2>1, IdleIs DEF OneSaver
  <2>3. OneActive'
    BY <1>9, <1>12, <2>1, IdleIs DEF OneActive, InsertStages
  <2>4. CarriesAll'
    BY <1>1, <1>8, <1>9, <2>1, IdleIs DEF CarriesAll, CreateStages, Owes
  <2>5. Promised' = Promised
    <3>1. \A d \in Clients : client'[d].at = "check" <=> client[d].at = "check"
      BY <1>0, <1>1, <1>9, IdleIs
    <3>2. \A d \in Clients : client[d].at = "check" => Owes(client[d])' = Owes(client[d])
      BY <1>0, <1>1, <1>9 DEF Owes
    <3>3. {Owes(client[d]) : d \in {e \in Clients : client[e].at = "check"}}'
             = {Owes(client[d]) : d \in {e \in Clients : client[e].at = "check"}}
      BY <3>1, <3>2
    <3> QED BY <1>1, <3>1, <3>3 DEF Promised
  <2>6. ASSUME NEW P \in Promised, NEW j \in Active
        PROVE  /\ P \subseteq docs'[j].sources \cup docs'[j].others
               /\ \A d \in Clients : client'[d].at = "inPlace" /\ client'[d].id = j =>
                     P \subseteq client'[d].copy.sources \cup docs'[j].others
    <3>1. docs'[j].others = docs[j].others
      BY <1>5, <1>7 DEF Active
    <3>2. P \subseteq docs'[j].sources \cup docs'[j].others
      <4>1. CASE j = i
        <5>1. P \subseteq k.copy.sources \cup docs[i].others
          BY <1>0, <1>1, <1>2, <2>1, <4>1 DEF Reflected
        <5> QED BY <1>5, <1>7, <4>1, <5>1
      <4>2. CASE j # i
        BY <1>7, <2>1, <4>2 DEF Reflected, Active
      <4> QED BY <4>1, <4>2
    <3>3. \A d \in Clients : client'[d].at = "inPlace" => client'[d] = client[d]
      BY <1>9, IdleIs
    <3> QED BY <2>1, <3>1, <3>2, <3>3 DEF Reflected
  <2>7. Reflected'
    BY <1>12, <2>5, <2>6 DEF Reflected
  <2> QED BY <2>2, <2>3, <2>4, <2>7
<1> QED BY <1>11, <1>13, <1>14 DEF ConfigInv, StoreInv, UndisturbedInv

LEMMA ConfigStart ==
    ASSUME ConfigAssumption, ConfigInit
    PROVE  ConfigInv
<1>1. docs = <<>> /\ DOMAIN docs = {} /\ docs \in Seq(Documents)
  BY EmptySeq DEF ConfigInit
<1>2. \A c \in Clients : client[c] = Idle
  BY DEF ConfigInit
<1>3. Fitting(Idle)
  BY IdleIs DEF Fitting, CreateStages
<1>4. StoreTyped
  BY <1>1, <1>2, <1>3, IdleIs DEF ConfigInit, StoreTyped
<1>5. Active = {} /\ Inserters = {}
  BY <1>1, <1>2, IdleIs DEF Active, Inserters, InsertStages
<1>6. Counted
  <2>1. Cardinality({}) = 0 /\ Cardinality(Clients) \in Nat
    BY FS_EmptySet, FS_CardinalityType DEF ConfigAssumption
  <2> QED BY <1>1, <1>5, <2>1 DEF Counted
<1>7. OneSaver /\ OneActive /\ CarriesAll /\ Reflected
  BY <1>2, <1>5, IdleIs DEF OneSaver, OneActive, CarriesAll, Reflected, ConfigInit, InsertStages,
     CreateStages
<1> QED BY <1>4, <1>6, <1>7 DEF ConfigInv, StoreInv, UndisturbedInv

LEMMA ConfigStep ==
    ASSUME ConfigInv, ConfigAssumption, [ConfigNext]_configVars
    PROVE  ConfigInv'
<1>1. CASE UNCHANGED configVars
  <2>1. StoreInv'
    BY <1>1 DEF configVars, ConfigInv, StoreInv, StoreTyped, Fitting, Counted, Active, Inserters
  <2>2. Promised' = Promised /\ Active' = Active
    BY <1>1 DEF configVars, Promised, Owes, Active
  <2>3. /\ OneSaver' <=> OneSaver
        /\ OneActive' <=> OneActive
        /\ CarriesAll' <=> CarriesAll
        /\ Reflected' <=> Reflected
    BY <1>1, <2>2 DEF configVars, OneSaver, OneActive, CarriesAll, Reflected, Owes
  <2>4. UndisturbedInv'
    BY <1>1, <2>3 DEF configVars, ConfigInv, UndisturbedInv, Undisturbed
  <2> QED BY <2>1, <2>4 DEF ConfigInv
<1>2. CASE ConfigNext
  <2>1. PICK c \in Clients :
           \/ \E op \in EditOps \cup {"view", "priority"} : Request(c, op)
           \/ Read(c) \/ ReadFails(c)
           \/ Deactivate(c) \/ InsertDoc(c) \/ Confirm(c) \/ SaveFails(c)
           \/ Regroup(c) \/ Reread(c) \/ WriteInPlace(c) \/ PriorityFails(c)
    BY <1>2 DEF ConfigNext
  <2> QED BY <2>1, RequestKeeps, ReadKeeps, DeactivateKeeps, InsertKeeps, ConfirmKeeps, FailKeeps,
             RereadKeeps, WriteKeeps
<1> QED BY <1>1, <1>2

LEMMA ConfigHolds == ConfigSpec => []ConfigInv
<1> USE ConfigAssumption
<1>1. ConfigInit => ConfigInv
  BY ConfigStart
<1>2. ConfigInv /\ [ConfigNext]_configVars => ConfigInv'
  BY ConfigStep
<1> QED BY <1>1, <1>2, PTL DEF ConfigSpec

\* However many requests save at once and wherever calls raise: there are never
\* more active documents than requests at work, and unless a call raises some
\* document is active whenever none is (save_system_config switches all off
\* before it inserts).
THEOREM ActiveIsSettled == ConfigSpec => []ActiveSettles
<1> USE ConfigAssumption
<1>1. ConfigInv => ActiveBounded
  <2>1. SUFFICES ASSUME ConfigInv
                 PROVE  Cardinality(Active) <= Cardinality(Clients)
    BY DEF ActiveBounded
  <2>2. /\ Cardinality(Active) \in Nat /\ Cardinality(Inserters) \in Nat
        /\ Cardinality(Clients) \in Nat
    BY <2>1, ActiveFinite, InsertersFinite DEF ConfigInv, StoreInv
  <2>3. Cardinality(Active) + Cardinality(Inserters) <= Cardinality(Clients)
    BY <2>1 DEF ConfigInv, StoreInv, Counted
  <2> QED BY <2>2, <2>3
<1>2. ConfigInv => AlwaysServed
  BY IdleIs DEF ConfigInv, StoreInv, Counted, AlwaysServed, ConfigAtRest, Inserters, InsertStages
<1>3. ConfigInv => ActiveSettles
  BY <1>1, <1>2 DEF ActiveSettles
<1> QED BY <1>3, ConfigHolds, PTL

\* For any number of requests: as long as saves do not overlap and no call
\* raises, the active document reflects every edit reported as saved, whatever
\* priority updates run meanwhile.
THEOREM EditsAreKept == ConfigSpec => []EditsKept
<1>1. ConfigInv => EditsKept
  <2>1. SUFFICES ASSUME ConfigInv, Undisturbed, ConfigAtRest, NEW i \in Active
                 PROVE  acked \subseteq docs[i].sources \cup docs[i].others
    BY DEF EditsKept, Undisturbed
  <2>2. acked \in Promised
    BY <2>1, IdleIs DEF Promised, ConfigAtRest
  <2> QED BY <2>1, <2>2 DEF ConfigInv, UndisturbedInv, Reflected
<1> QED BY <1>1, ConfigHolds, PTL

-----------------------------------------------------------------------------
\* Notifications.

Creations == [at : {"idle", "insert", "send", "expire", "count", "find", "delete"}, id : Nat,
              todo : SUBSET Sockets, dead : SUBSET Sockets, count : Nat, ids : SUBSET Nat,
              owed : SUBSET Sockets, lingering : SUBSET Sockets]
SocketStages == {"new", "greeting", "open", "gone", "over"}

NotesTyped ==
    /\ notes \subseteq Nat /\ IsFiniteSet(notes) /\ lastNote \in Nat
    /\ creator \in [Creators -> Creations]
    /\ socket \in [Sockets -> SocketStages] /\ listed \subseteq Sockets

\* Who is listed, and who is no longer but for the greeting.
Listing ==
    /\ \A w \in Sockets : socket[w] \in {"greeting", "open"} => w \in listed
    /\ \A w \in listed : socket[w] # "new" /\ (socket[w] = "over" => w \in ungreeted)

\* What a publication has still to do is at least what it owes; what it found
\* dead is, and includes what lingered.
Publishing(c) ==
    /\ \A w \in creator[c].owed : socket[w] = "open"
    /\ \A w \in creator[c].dead : socket[w] \in {"gone", "over"}
    /\ \A w \in creator[c].lingering : socket[w] = "over"
    /\ creator[c].at = "send" =>
          /\ creator[c].owed \subseteq creator[c].todo
          /\ creator[c].lingering \cap listed \subseteq creator[c].todo \cup creator[c].dead
    /\ creator[c].at = "expire" => creator[c].owed = {} /\ creator[c].lingering \cap listed = {}

NotesInv == NotesTyped /\ Listing /\ \A c \in Creators : Publishing(c)

-----------------------------------------------------------------------------
LEMMA NoCreationIs ==
    /\ NoCreation \in Creations /\ NoCreation.at = "idle" /\ NoCreation.owed = {}
    /\ NoCreation.dead = {} /\ NoCreation.lingering = {}
BY DEF NoCreation, Creations

\* A step of one creation that changes no connection.
LEMMA CreatorMoves ==
    ASSUME NotesInv, NEW c \in Creators, NEW new \in Creations,
           creator' = [creator EXCEPT ![c] = new],
           notes' \subseteq Nat, IsFiniteSet(notes'), lastNote' \in Nat, UNCHANGED <<socket, listed, ungreeted>>,
           Publishing(c)'
    PROVE  NotesInv'
<1>1. \A d \in Creators \ {c} : creator'[d] = creator[d]
  BY DEF NotesInv, NotesTyped
<1>2. \A d \in Creators \ {c} : Publishing(d)'
  BY <1>1 DEF NotesInv, Publishing
<1>3. NotesTyped'
  BY DEF NotesInv, NotesTyped
<1> QED BY <1>2, <1>3 DEF NotesInv, Listing

\* A creation that owes nobody anything may do what it likes.
LEMMA CreatorOwesNobody ==
    ASSUME NotesInv, NEW c \in Creators, NEW new \in Creations,
           creator' = [creator EXCEPT ![c] = new],
           notes' \subseteq Nat, IsFiniteSet(notes'), lastNote' \in Nat, UNCHANGED <<socket, listed, ungreeted>>,
           new.owed = {}, new.dead = {}, new.lingering = {}
    PROVE  NotesInv'
<1>1. creator'[c] = new
  BY DEF NotesInv, NotesTyped
<1> QED BY <1>1, CreatorMoves DEF Publishing

LEMMA OwedIsLess ==
    ASSUME NEW k \in Creations, NEW w, NEW l, l = [k EXCEPT !.owed = @ \ {w}]
    PROVE  /\ l \in Creations /\ l.owed = k.owed \ {w} /\ l.at = k.at /\ l.dead = k.dead
           /\ l.todo = k.todo /\ l.lingering = k.lingering
BY DEF Creations

LEMMA ConnectionsKeep ==
    ASSUME NotesInv, NEW w \in Sockets,
           Connect(w) \/ Greet(w) \/ GreetRaises(w) \/ HangUp(w) \/ Disconnect(w)
    PROVE  NotesInv'
<1>1. CASE Connect(w)
  <2>1. NotesTyped' /\ Listing'
    BY <1>1 DEF Connect, NotesInv, NotesTyped, Listing, SocketStages
  <2>2. \A c \in Creators : Publishing(c)'
    BY <1>1 DEF Connect, NotesInv, NotesTyped, Publishing
  <2> QED BY <2>1, <2>2 DEF NotesInv
<1>2. CASE Greet(w)
  <2>1. NotesTyped' /\ Listing'
    BY <1>2 DEF Greet, NotesInv, NotesTyped, Listing, SocketStages
  <2>2. \A c \in Creators : Publishing(c)'
    BY <1>2 DEF Greet, NotesInv, NotesTyped, Publishing
  <2> QED BY <2>1, <2>2 DEF NotesInv
<1>3. CASE GreetRaises(w)
  <2>1. NotesTyped' /\ Listing'
    BY <1>3 DEF GreetRaises, NotesInv, NotesTyped, Listing, SocketStages
  <2>2. \A c \in Creators : Publishing(c)'
    BY <1>3 DEF GreetRaises, NotesInv, NotesTyped, Publishing
  <2> QED BY <2>1, <2>2 DEF NotesInv
<1>4. CASE HangUp(w)
  <2>1. \A c \in Creators : /\ creator'[c] = [creator[c] EXCEPT !.owed = @ \ {w}]
                            /\ creator[c] \in Creations
    BY <1>4 DEF HangUp, NotesInv, NotesTyped
  <2>2. ASSUME NEW c \in Creators
        PROVE  /\ creator'[c] \in Creations /\ creator'[c].owed = creator[c].owed \ {w}
               /\ creator'[c].at = creator[c].at /\ creator'[c].dead = creator[c].dead
               /\ creator'[c].todo = creator[c].todo
               /\ creator'[c].lingering = creator[c].lingering
    <3>1. PICK k : k = creator[c]
      OBVIOUS
    <3>2. PICK l : l = creator'[c]
      OBVIOUS
    <3>3. k \in Creations /\ l = [k EXCEPT !.owed = @ \ {w}]
      BY <2>1, <3>1, <3>2
    <3>4. /\ l \in Creations /\ l.owed = k.owed \ {w} /\ l.at = k.at /\ l.dead = k.dead
          /\ l.todo = k.todo /\ l.lingering = k.lingering
      BY <3>3, OwedIsLess
    <3> QED BY <3>1, <3>2, <3>4
  <2>3. creator' \in [Creators -> Creations]
    BY <1>4, <2>2 DEF HangUp
  <2>4. NotesTyped' /\ Listing'
    BY <1>4, <2>3 DEF HangUp, NotesInv, NotesTyped, Listing, SocketStages
  <2>5. ASSUME NEW c \in Creators
        PROVE  Publishing(c)'
    <3>1. Publishing(c) /\ creator[c] \in Creations
      BY DEF NotesInv, NotesTyped
    <3>2. socket[w] = "open" /\ socket' = [socket EXCEPT ![w] = "gone"] /\ listed' = listed
      BY <1>4 DEF HangUp
    <3>3. \A x \in Sockets : socket'[x] = IF x = w THEN "gone" ELSE socket[x]
      BY <3>2 DEF NotesInv, NotesTyped
    <3> QED BY <2>2, <3>1, <3>2, <3>3 DEF Publishing, Creations
  <2> QED BY <2>4, <2>5 DEF NotesInv
<1>5. CASE Disconnect(w)
  <2>1. NotesTyped' /\ Listing'
    BY <1>5 DEF Disconnect, Unlisted, NotesInv, NotesTyped, Listing, SocketStages
  <2>2. \A c \in Creators : Publishing(c)'
    BY <1>5 DEF Disconnect, Unlisted, NotesInv, NotesTyped, Publishing
  <2> QED BY <2>1, <2>2 DEF NotesInv
<1> QED BY <1>1, <1>2, <1>3, <1>4, <1>5

LEMMA PublicationKeeps ==
    ASSUME NotesInv, NEW c \in Creators,
           Create(c) \/ InsertNote(c) \/ (\E w \in Sockets : Send(c, w)) \/ DropDead(c)
    PROVE  NotesInv'
<1>0. creator[c] \in Creations /\ Publishing(c)
  BY DEF NotesInv, NotesTyped
<1>1. CASE Create(c)
  <2> DEFINE new == [NoCreation EXCEPT !.at = "insert", !.id = lastNote',
                         !.owed = {w \in Sockets : socket[w] = "open"},
                         !.lingering = {w \in listed : socket[w] = "over"}]
  <2>1. lastNote' \in Nat
    BY <1>1 DEF Create, NotesInv, NotesTyped
  <2>2. new \in Creations /\ new.at = "insert" /\ new.dead = {}
        /\ new.owed = {w \in Sockets : socket[w] = "open"}
        /\ new.lingering = {w \in listed : socket[w] = "over"}
    BY <2>1 DEF NoCreation, Creations, NotesInv, NotesTyped
  <2>3. creator' = [creator EXCEPT ![c] = new] /\ UNCHANGED <<socket, listed, ungreeted, notes>>
    BY <1>1 DEF Create
  <2> HIDE DEF new
  <2>4. creator'[c] = new
    BY <2>3 DEF NotesInv, NotesTyped
  <2>5. Publishing(c)'
    BY <2>2, <2>3, <2>4 DEF Publishing
  <2> QED BY <2>1, <2>2, <2>3, <2>5, CreatorMoves DEF NotesInv, NotesTyped
<1>2. CASE InsertNote(c)
  <2> DEFINE new == [creator[c] EXCEPT !.at = "send", !.todo = listed]
  <2>1. new \in Creations /\ new.at = "send" /\ new.dead = creator[c].dead /\ new.todo = listed
        /\ new.owed = creator[c].owed /\ new.lingering = creator[c].lingering
    BY <1>0 DEF Creations, NotesInv, NotesTyped
  <2>2. creator' = [creator EXCEPT ![c] = new] /\ UNCHANGED <<socket, listed, ungreeted, lastNote>>
    BY <1>2 DEF InsertNote, NotesInv, NotesTyped
  <2>3. notes' \subseteq Nat /\ IsFiniteSet(notes')
    BY <1>0, <1>2, FS_AddElement DEF InsertNote, Creations, NotesInv, NotesTyped
  <2> HIDE DEF new
  <2>4. creator'[c] = new
    BY <2>2 DEF NotesInv, NotesTyped
  <2>5. creator[c].owed \subseteq listed
    BY <1>0 DEF Publishing, NotesInv, Listing, Creations
  <2>6. Publishing(c)'
    BY <1>0, <2>1, <2>2, <2>4, <2>5 DEF Publishing
  <2> QED BY <2>1, <2>2, <2>3, <2>6, CreatorMoves DEF NotesInv, NotesTyped
<1>3. ASSUME NEW w \in Sockets, Send(c, w)
      PROVE  NotesInv'
  <2>1. CASE socket[w] # "over" /\ creator' = [creator EXCEPT ![c].todo = @ \ {w}, ![c].owed = @ \ {w}]
    <3> DEFINE new == [creator[c] EXCEPT !.todo = @ \ {w}, !.owed = @ \ {w}]
    <3>1. new \in Creations /\ new.at = creator[c].at /\ new.dead = creator[c].dead
          /\ new.todo = creator[c].todo \ {w}
          /\ new.owed = creator[c].owed \ {w} /\ new.lingering = creator[c].lingering
      BY <1>0 DEF Creations
    <3>2. creator' = [creator EXCEPT ![c] = new]
          /\ UNCHANGED <<socket, listed, ungreeted, lastNote, notes>> /\ creator[c].at = "send"
      BY <1>3, <2>1 DEF Send, NotesInv, NotesTyped
    <3> HIDE DEF new
    <3>3. creator'[c] = new
      BY <3>2 DEF NotesInv, NotesTyped
    <3>4. Publishing(c)'
      BY <1>0, <2>1, <3>1, <3>2, <3>3 DEF Publishing
    <3> QED BY <3>1, <3>2, <3>4, CreatorMoves DEF NotesInv, NotesTyped
  <2>2. CASE socket[w] \in {"gone", "over"}
             /\ creator' = [creator EXCEPT ![c].todo = @ \ {w}, ![c].dead = @ \cup {w}]
    <3> DEFINE new == [creator[c] EXCEPT !.todo = @ \ {w}, !.dead = @ \cup {w}]
    <3>1. new \in Creations /\ new.at = creator[c].at /\ new.dead = creator[c].dead \cup {w}
          /\ new.todo = creator[c].todo \ {w}
          /\ new.owed = creator[c].owed /\ new.lingering = creator[c].lingering
      BY <1>0 DEF Creations
    <3>2. creator' = [creator EXCEPT ![c] = new]
          /\ UNCHANGED <<socket, listed, ungreeted, lastNote, notes>> /\ creator[c].at = "send"
      BY <1>3, <2>2 DEF Send, NotesInv, NotesTyped
    <3> HIDE DEF new
    <3>3. creator'[c] = new
      BY <3>2 DEF NotesInv, NotesTyped
    <3>4. Publishing(c)'
      BY <1>0, <2>2, <3>1, <3>2, <3>3 DEF Publishing
    <3> QED BY <3>1, <3>2, <3>4, CreatorMoves DEF NotesInv, NotesTyped
  <2> QED BY <1>3, <2>1, <2>2 DEF Send
<1>4. CASE DropDead(c)
  <2> DEFINE new == [creator[c] EXCEPT !.at = "expire", !.dead = {}]
  <2>1. new \in Creations /\ new.at = "expire" /\ new.dead = {}
        /\ new.owed = creator[c].owed /\ new.lingering = creator[c].lingering
    BY <1>0 DEF Creations
  <2>2. creator' = [creator EXCEPT ![c] = new] /\ UNCHANGED <<socket, ungreeted, lastNote, notes>>
        /\ creator[c].at = "send" /\ creator[c].todo = {} /\ listed' = listed \ creator[c].dead
    BY <1>4 DEF DropDead, Living, NotesInv, NotesTyped
  <2> HIDE DEF new
  <2>3. creator'[c] = new /\ \A d \in Creators \ {c} : creator'[d] = creator[d]
    BY <2>2 DEF NotesInv, NotesTyped
  <2>4. Publishing(c)'
    BY <1>0, <2>1, <2>2, <2>3 DEF Publishing
  <2>5. \A d \in Creators \ {c} : Publishing(d)'
    BY <2>2, <2>3 DEF NotesInv, Publishing
  <2>6. NotesTyped' /\ Listing'
    BY <1>0, <2>1, <2>2 DEF NotesInv, NotesTyped, Listing, Publishing
  <2> QED BY <2>4, <2>5, <2>6 DEF NotesInv
<1> QED BY <1>1, <1>2, <1>3, <1>4

\* What comes after the publication leaves its debts alone.
LEMMA PruningKeeps ==
    ASSUME NotesInv, NEW c \in Creators,
           DeleteExpired(c) \/ CountNotes(c) \/ FindOldest(c) \/ DeleteFound(c) \/ CreationRaises(c)
    PROVE  NotesInv'
<1>0. creator[c] \in Creations /\ Publishing(c) /\ notes \subseteq Nat /\ IsFiniteSet(notes)
      /\ lastNote \in Nat
  BY DEF NotesInv, NotesTyped
<1>1. UNCHANGED <<socket, listed, ungreeted, lastNote>>
  BY DEF DeleteExpired, CountNotes, FindOldest, DeleteFound, CreationRaises
<1>2. notes' \subseteq notes /\ IsFiniteSet(notes')
  <2>1. notes' \subseteq notes
    BY DEF DeleteExpired, CountNotes, FindOldest, DeleteFound, CreationRaises
  <2> QED BY <1>0, <2>1, FS_Subset
<1>3. ASSUME NEW new \in Creations, creator' = [creator EXCEPT ![c] = new],
             new.at \notin {"send", "expire"}, new.owed \subseteq creator[c].owed,
             new.dead \subseteq creator[c].dead, new.lingering \subseteq creator[c].lingering
      PROVE  NotesInv'
  <2>1. creator'[c] = new
    BY <1>3 DEF NotesInv, NotesTyped
  <2>2. Publishing(c)'
    BY <1>0, <1>1, <1>3, <2>1 DEF Publishing
  <2> QED BY <1>0, <1>1, <1>2, <1>3, <2>2, CreatorMoves
<1>4. CASE creator' = [creator EXCEPT ![c] = NoCreation]
  BY <1>3, <1>4, NoCreationIs
<1>5. CASE DeleteExpired(c)
  <2> DEFINE new == [NoCreation EXCEPT !.at = "count", !.id = creator[c].id]
  <2>1. new \in Creations /\ new.at = "count" /\ new.owed = {} /\ new.dead = {} /\ new.lingering = {}
    BY <1>0 DEF NoCreation, Creations
  <2>2. creator' = [creator EXCEPT ![c] = new]
    BY <1>5 DEF DeleteExpired
  <2> HIDE DEF new
  <2> QED BY <1>3, <2>1, <2>2
<1>6. CASE CountNotes(c)
  <2> DEFINE new == [creator[c] EXCEPT !.at = "find", !.count = Cardinality(notes)]
  <2>1. Cardinality(notes) \in Nat
    BY <1>0, FS_CardinalityType
  <2>2. /\ new \in Creations /\ new.at = "find" /\ new.owed = creator[c].owed
        /\ new.dead = creator[c].dead /\ new.lingering = creator[c].lingering
    BY <1>0, <2>1 DEF Creations
  <2>3. creator' = [creator EXCEPT ![c] = new] \/ creator' = [creator EXCEPT ![c] = NoCreation]
    BY <1>6 DEF CountNotes, NotesInv, NotesTyped
  <2> HIDE DEF new
  <2> QED BY <1>3, <1>4, <2>2, <2>3
<1>7. CASE FindOldest(c)
  <2> DEFINE new == [creator[c] EXCEPT !.at = "delete", !.ids = Oldest(Excess(creator[c].count))]
  <2>1. Oldest(Excess(creator[c].count)) \subseteq Nat
    BY <1>0 DEF Oldest
  <2>2. /\ new \in Creations /\ new.at = "delete" /\ new.owed = creator[c].owed
        /\ new.dead = creator[c].dead /\ new.lingering = creator[c].lingering
    BY <1>0, <2>1 DEF Creations
  <2>3. creator' = [creator EXCEPT ![c] = new]
    BY <1>7 DEF FindOldest, NotesInv, NotesTyped
  <2> HIDE DEF new
  <2> QED BY <1>3, <2>2, <2>3
<1> QED BY <1>4, <1>5, <1>6, <1>7 DEF DeleteFound, CreationRaises

LEMMA NotesInitInv == NotesInit => NotesInv
<1> SUFFICES ASSUME NotesInit PROVE NotesInv
  OBVIOUS
<1> USE DEF NotesInit
<1>1. NotesTyped
  <2>1. MaxPerUser \in Nat
    BY NotesAssumption
  <2>2. IsFiniteSet(1 .. MaxPerUser) /\ 1 .. MaxPerUser \subseteq Nat
    BY <2>1, FS_Interval
  <2> QED BY <2>1, <2>2, NoCreationIs DEF NotesTyped, SocketStages
<1>2. Listing
  BY DEF Listing
<1>3. \A c \in Creators : Publishing(c)
  BY NoCreationIs DEF Publishing
<1> QED BY <1>1, <1>2, <1>3 DEF NotesInv

LEMMA NotesNextInv == NotesInv /\ [NotesNext]_notesVars => NotesInv'
<1> SUFFICES ASSUME NotesInv, [NotesNext]_notesVars PROVE NotesInv'
  OBVIOUS
<1>1. CASE UNCHANGED notesVars \/ Expire
  BY <1>1 DEF notesVars, Expire, NotesInv, NotesTyped, Listing, Publishing
<1>2. CASE NotesNext /\ ~ Expire
  BY <1>2, ConnectionsKeep, PublicationKeeps, PruningKeeps DEF NotesNext
<1> QED BY <1>1, <1>2

\* Publications reach the connections that are open, and the list of connections
\* forgets those that are not: a publication works through a copy of the list,
\* which had every open one, and takes off it what it has found dead.
THEOREM ConnectionsAreServed == NotesSpec => []ConnectionsServed
<1>1. NotesInv => ConnectionsServed
  BY DEF NotesInv, NotesTyped, Listing, Publishing, ConnectionsServed, OpenAreSent,
         OnlyUngreetedLinger
<1> QED BY <1>1, NotesInitInv, NotesNextInv, PTL DEF NotesSpec

-----------------------------------------------------------------------------
\* What is kept of the notifications.

\* The k smallest of a set of numbers.
Firsts(s, k) == {n \in s : Cardinality({m \in s : m < n}) < k}

LEMMA FirstsAre ==
    ASSUME NEW s, s \subseteq Nat, IsFiniteSet(s)
    PROVE  \A k \in Nat : /\ IsFiniteSet(Firsts(s, k))
                          /\ Cardinality(Firsts(s, k)) <= k
                          /\ Cardinality(Firsts(s, k)) = k \/ Firsts(s, k) = s
<1> DEFINE Below(n) == {m \in s : m < n}
           Right(k) == Cardinality(Firsts(s, k)) <= k
                       /\ (Cardinality(Firsts(s, k)) = k \/ Firsts(s, k) = s)
           P == {k \in Nat : Right(k)}
<1>1. \A k : IsFiniteSet(Firsts(s, k)) /\ Cardinality(Firsts(s, k)) \in Nat
  <2> SUFFICES ASSUME NEW k PROVE IsFiniteSet(Firsts(s, k)) /\ Cardinality(Firsts(s, k)) \in Nat
    OBVIOUS
  <2>1. Firsts(s, k) \in SUBSET s
    BY DEF Firsts
  <2> QED BY <2>1, FS_Subset, FS_CardinalityType
<1>2. \A n : IsFiniteSet(Below(n)) /\ Cardinality(Below(n)) \in Nat
  <2> SUFFICES ASSUME NEW n PROVE IsFiniteSet(Below(n)) /\ Cardinality(Below(n)) \in Nat
    OBVIOUS
  <2>1. Below(n) \in SUBSET s
    OBVIOUS
  <2> QED BY <2>1, FS_Subset, FS_CardinalityType
<1>3. \A k : Firsts(s, k) = {n \in s : Cardinality(Below(n)) < k}
  BY DEF Firsts
<1>4. 0 \in P
  <2>1. Firsts(s, 0) = {}
    <3>1. \A n : ~ (Cardinality(Below(n)) < 0)
      BY <1>2
    <3> HIDE DEF Below
    <3> QED BY <1>3, <3>1
  <2> QED BY <2>1, FS_EmptySet
<1>5. ASSUME NEW k \in Nat, k \in P
      PROVE  k + 1 \in P
  <2>1. Right(k)
    BY <1>5
  <2> DEFINE F == Firsts(s, k)
             G == Firsts(s, k + 1)
  <2>2. F \subseteq G /\ G \subseteq s
    <3>1. \A n : Cardinality(Below(n)) < k => Cardinality(Below(n)) < k + 1
      BY <1>2
    <3> HIDE DEF Below
    <3> QED BY <1>3, <3>1
  <2>3. CASE F = s
    <3>1. G = s
      BY <2>2, <2>3
    <3>2. Cardinality(G) <= k
      BY <2>1, <2>3, <3>1
    <3>3. Cardinality(G) <= k + 1
      BY <1>1, <3>2
    <3> QED BY <3>1, <3>3
  <2>4. CASE F # s
    <3>1. PICK x \in s \ F : \A y \in s \ F : x <= y
      <4>1. s \ F # {} /\ s \ F \subseteq Nat
        BY <2>2, <2>4
      <4> QED BY <4>1, LeastNat
    <3>2. Below(x) \subseteq F
      <4>1. \A y \in s : y < x => ~ (x <= y)
        BY <2>2, <3>1
      <4> HIDE DEF F
      <4> QED BY <3>1, <4>1
    <3>3. F \subseteq Below(x)
      <4>1. SUFFICES ASSUME NEW y \in F, ~ (y < x) PROVE FALSE
        BY <2>2
      <4>2. x < y
        <5>1. y \in Nat /\ x \in Nat /\ y # x
          BY <2>2, <3>1
        <5> QED BY <4>1, <5>1
      <4>3. Below(x) \in SUBSET Below(y)
        <5>1. x \in Nat /\ y \in Nat /\ \A z \in s : z \in Nat
          BY <2>2, <3>1
        <5>2. \A z \in s : z < x => z < y
          BY <4>2, <5>1
        <5> QED BY <5>2
      <4>4. Cardinality(Below(x)) <= Cardinality(Below(y))
        BY <1>2, <4>3, FS_Subset
      <4>5. Cardinality(Below(y)) < k /\ ~ (Cardinality(Below(x)) < k)
        BY <1>3, <3>1, <4>1
      <4> QED BY <1>2, <4>4, <4>5
    <3>4. Below(x) = F /\ Cardinality(F) = k
      BY <2>1, <2>4, <3>2, <3>3
    <3>5. G = F \cup {x}
      <4>1. x \in G
        BY <1>3, <3>1, <3>4
      <4>2. ASSUME NEW y \in G, y \notin F, y # x
            PROVE  FALSE
        <5>1. x < y
          <6>1. y \in s /\ x <= y /\ x \in Nat /\ y \in Nat
            BY <2>2, <3>1, <4>2
          <6> QED BY <4>2, <6>1
        <5>2. F \cup {x} \in SUBSET Below(y)
          <6>1. \A z \in F : z < y
            <7>1. x \in Nat /\ y \in Nat /\ \A z \in F : z \in Nat /\ z < x
              <8>1. \A z \in F : z < x
                BY <3>3
              <8>2. x \in s /\ y \in s
                BY <2>2, <3>1, <4>2
              <8>3. F \subseteq s
                BY <2>2
              <8> HIDE DEF F, G, Below
              <8> QED BY <8>1, <8>2, <8>3
            <7> HIDE DEF F, G, Below
            <7> QED BY <5>1, <7>1
          <6> QED BY <2>2, <3>1, <5>1, <6>1
        <5>3. Cardinality(F \cup {x}) = k + 1
          <6>1. IsFiniteSet(F) /\ x \notin F /\ Cardinality(F) = k
            BY <1>1, <3>1, <3>4
          <6> HIDE DEF F
          <6> QED BY <6>1, FS_AddElement
        <5>4. Cardinality(F \cup {x}) <= Cardinality(Below(y))
          BY <1>2, <5>2, FS_Subset
        <5>5. Cardinality(Below(y)) < k + 1
          BY <1>3, <4>2
        <5> QED BY <1>2, <5>3, <5>4, <5>5
      <4> QED BY <2>2, <4>1, <4>2
    <3>6. Cardinality(G) = k + 1
      BY <1>1, <3>1, <3>4, <3>5, FS_AddElement
    <3> QED BY <3>6
  <2> QED BY <2>3, <2>4
<1> HIDE DEF P
<1>6. Nat \subseteq P
  BY <1>4, <1>5, NatSets
<1> QED BY <1>1, <1>6 DEF P

\* Without its k smallest a set has k elements less, or none.
LEMMA FirstsGone ==
    ASSUME NEW s, s \subseteq Nat, IsFiniteSet(s), NEW k \in Nat
    PROVE  /\ IsFiniteSet(s \ Firsts(s, k))
           /\ \/ Cardinality(s \ Firsts(s, k)) = Cardinality(s) - k
              \/ Cardinality(s \ Firsts(s, k)) = 0
<1>1. Firsts(s, k) \subseteq s /\ s \cap Firsts(s, k) = Firsts(s, k)
  BY DEF Firsts
<1>2. CASE Cardinality(Firsts(s, k)) = k
  <2>1. Cardinality(s \ Firsts(s, k)) = Cardinality(s) - Cardinality(s \cap Firsts(s, k))
    BY FS_Difference
  <2> QED BY <1>1, <1>2, <2>1, FS_Difference
<1>3. CASE Firsts(s, k) = s
  <2>1. s \ Firsts(s, k) = {}
    BY <1>3
  <2> QED BY <2>1, FS_EmptySet
<1> QED BY <1>2, <1>3, FirstsAre

\* The other creations stay as they are.
LEMMA OthersStay ==
    ASSUME NotesInv, NEW c \in Creators,
           \/ Create(c) \/ InsertNote(c) \/ (\E w \in Sockets : Send(c, w)) \/ DropDead(c)
           \/ DeleteExpired(c) \/ CountNotes(c) \/ FindOldest(c) \/ DeleteFound(c)
           \/ CreationRaises(c)
    PROVE  \A d \in Creators \ {c} : creator'[d] = creator[d]
BY DEF NotesInv, NotesTyped, Create, InsertNote, Send, DropDead, DeleteExpired, CountNotes,
       FindOldest, DeleteFound, CreationRaises

-----------------------------------------------------------------------------
\* One creation after another: the user's notifications are those from lo to hi,
\* and lo is as far down as the expiry and the quota allow.
Spans(lo, hi) ==
    /\ hi \in Nat /\ lo <= hi + 1 /\ notes = lo .. hi
    /\ lo = 1 \/ lo <= expired + 1 \/ lo + MaxPerUser <= hi + 1

Along(c, lo) ==
    /\ creator[c].at = "insert" =>
          /\ creator[c].id = lastNote /\ Spans(lo, lastNote - 1)
          /\ lastNote - 1 < lo + MaxPerUser
    /\ creator[c].at \in {"send", "expire", "count"} =>
          Spans(lo, lastNote) /\ lastNote <= lo + MaxPerUser
    /\ creator[c].at \in {"find", "delete"} =>
          Spans(lo, lastNote) /\ lastNote = lo + MaxPerUser
    /\ creator[c].at = "find" => creator[c].count = MaxPerUser + 1
    /\ creator[c].at = "delete" => creator[c].ids = {lo}

OneCreation == \A c, d \in Creators : creator[c].at # "idle" /\ creator[d].at # "idle" => c = d

InTurn(lo) ==
    /\ lo \in Nat \ {0}
    /\ NotesAtRest => Spans(lo, lastNote) /\ lastNote < lo + MaxPerUser
    /\ \A c \in Creators : Along(c, lo)

SequenceInv ==
    /\ mishaps \in Nat /\ expired \in Nat
    /\ ~ crossed /\ mishaps = 0 => OneCreation /\ \E lo \in Nat : InTurn(lo)

\* A step that leaves what these speak of alone.
LEMMA SequenceQuiet ==
    ASSUME NotesInv, SequenceInv, UNCHANGED <<notes, lastNote, expired, mishaps, crossed>>,
           \A c \in Creators :
               /\ creator'[c].at = creator[c].at /\ creator'[c].id = creator[c].id
               /\ creator'[c].count = creator[c].count /\ creator'[c].ids = creator[c].ids
    PROVE  SequenceInv'
<1>1. SUFFICES ASSUME ~ crossed, mishaps = 0 PROVE OneCreation' /\ \E lo \in Nat : InTurn(lo)'
  BY DEF SequenceInv
<1>2. OneCreation'
  BY <1>1 DEF SequenceInv, OneCreation
<1>3. PICK lo \in Nat : InTurn(lo)
  BY <1>1 DEF SequenceInv
<1>4. \A c \in Creators : Along(c, lo)'
  BY <1>3 DEF InTurn, Along, Spans
<1>5. InTurn(lo)'
  BY <1>3, <1>4 DEF InTurn, NotesAtRest, Spans
<1> QED BY <1>2, <1>5

\* A step of the one creation that goes on.
LEMMA SequenceGoes ==
    ASSUME NotesInv, SequenceInv, ~ crossed, mishaps = 0, UNCHANGED <<mishaps, crossed, expired>>,
           NEW c \in Creators, creator[c].at # "idle",
           \A d \in Creators \ {c} : creator'[d] = creator[d],
           NEW lo \in Nat \ {0}, Along(c, lo)',
           creator'[c].at = "idle" => Spans(lo, lastNote)' /\ (lastNote < lo + MaxPerUser)'
    PROVE  SequenceInv'
<1>1. OneCreation /\ \A d \in Creators \ {c} : creator[d].at = "idle" /\ creator'[d].at = "idle"
  BY DEF SequenceInv, OneCreation
<1>2. OneCreation'
  BY <1>1 DEF OneCreation
<1>3. \A d \in Creators \ {c} : Along(d, lo)'
  BY <1>1 DEF Along
<1>4. InTurn(lo)'
  BY <1>3 DEF InTurn, NotesAtRest
<1>5. lo \in Nat
  OBVIOUS
<1> QED BY <1>2, <1>4, <1>5 DEF SequenceInv

LEMMA SequenceCreate ==
    ASSUME NotesInv, SequenceInv, NEW c \in Creators, Create(c)
    PROVE  SequenceInv'
<1>1. UNCHANGED <<notes, expired, mishaps>> /\ creator[c].at = "idle"
  BY DEF Create
<1>2. SUFFICES ASSUME ~ crossed', mishaps = 0
               PROVE  OneCreation' /\ \E lo \in Nat : InTurn(lo)'
  BY <1>1 DEF SequenceInv
<1>3. ~ crossed /\ NotesAtRest
  BY <1>2 DEF Create, NotesAtRest
<1>4. PICK lo \in Nat : InTurn(lo)
  BY <1>2, <1>3 DEF SequenceInv
<1>5. /\ creator'[c].at = "insert" /\ creator'[c].id = lastNote' /\ lastNote' = lastNote + 1
      /\ lastNote \in Nat
      /\ \A d \in Creators \ {c} : creator'[d].at = "idle"
  BY <1>3, OthersStay DEF Create, NoCreation, NotesInv, NotesTyped, NotesAtRest
<1>6. OneCreation'
  BY <1>5 DEF OneCreation
<1>7. Spans(lo, lastNote) /\ lastNote < lo + MaxPerUser
  BY <1>3, <1>4 DEF InTurn
<1>8. lastNote' - 1 = lastNote
  BY <1>5
<1>9. Along(c, lo)'
  BY <1>1, <1>5, <1>7, <1>8 DEF Along, Spans
<1>10. \A d \in Creators : Along(d, lo)'
  BY <1>5, <1>9 DEF Along
<1>11. ~ NotesAtRest'
  BY <1>5 DEF NotesAtRest
<1>12. InTurn(lo)'
  BY <1>4, <1>10, <1>11 DEF InTurn
<1> QED BY <1>6, <1>12

\* What a creation that is alone has got.
LEMMA ActsAlone ==
    ASSUME SequenceInv, ~ crossed, mishaps = 0, NEW c \in Creators
    PROVE  \E lo \in Nat \ {0} : Along(c, lo)
BY DEF SequenceInv, InTurn

LEMMA SequenceInsert ==
    ASSUME NotesInv, SequenceInv, ~ crossed, mishaps = 0, NEW c \in Creators, InsertNote(c)
    PROVE  SequenceInv'
<1>1. /\ creator[c].at = "insert" /\ creator'[c].at = "send" /\ notes' = notes \cup {creator[c].id}
      /\ UNCHANGED <<lastNote, expired, mishaps, crossed>> /\ lastNote \in Nat
      /\ \A d \in Creators \ {c} : creator'[d] = creator[d]
  BY OthersStay DEF InsertNote, NotesInv, NotesTyped, Creations
<1>2. PICK lo \in Nat \ {0} : Along(c, lo)
  BY ActsAlone
<1>3. /\ creator[c].id = lastNote /\ lastNote - 1 \in Nat /\ lo <= lastNote - 1 + 1
      /\ notes = lo .. (lastNote - 1) /\ lastNote - 1 < lo + MaxPerUser
      /\ lo = 1 \/ lo <= expired + 1 \/ lo + MaxPerUser <= lastNote - 1 + 1
  BY <1>1, <1>2 DEF Along, Spans
<1>4. MaxPerUser \in Nat /\ expired \in Nat
  BY NotesAssumption DEF SequenceInv
<1>5. notes' = lo .. lastNote
  BY <1>1, <1>3
<1>6. /\ lo <= lastNote + 1 /\ lastNote <= lo + MaxPerUser
      /\ lo = 1 \/ lo <= expired + 1 \/ lo + MaxPerUser <= lastNote + 1
  BY <1>1, <1>3, <1>4
<1>7. Along(c, lo)'
  BY <1>1, <1>5, <1>6 DEF Along, Spans
<1> QED BY <1>1, <1>7, SequenceGoes

LEMMA SequenceDropDead ==
    ASSUME NotesInv, SequenceInv, ~ crossed, mishaps = 0, NEW c \in Creators, DropDead(c)
    PROVE  SequenceInv'
<1>1. /\ creator[c].at = "send" /\ creator'[c].at = "expire"
      /\ UNCHANGED <<notes, lastNote, expired, mishaps, crossed>>
      /\ \A d \in Creators \ {c} : creator'[d] = creator[d]
  BY OthersStay DEF DropDead, NotesInv, NotesTyped, Creations
<1>2. PICK lo \in Nat \ {0} : Along(c, lo)
  BY ActsAlone
<1>3. Along(c, lo)'
  BY <1>1, <1>2 DEF Along, Spans
<1> QED BY <1>1, <1>3, SequenceGoes

LEMMA SequenceExpire ==
    ASSUME NotesInv, SequenceInv, ~ crossed, mishaps = 0, NEW c \in Creators, DeleteExpired(c)
    PROVE  SequenceInv'
<1>1. /\ creator[c].at = "expire" /\ creator'[c].at = "count" /\ notes' = notes \ (1 .. expired)
      /\ UNCHANGED <<lastNote, expired, mishaps, crossed>> /\ lastNote \in Nat
      /\ \A d \in Creators \ {c} : creator'[d] = creator[d]
  BY OthersStay DEF DeleteExpired, NoCreation, NotesInv, NotesTyped, Creations
<1>2. PICK lo \in Nat \ {0} : Along(c, lo)
  BY ActsAlone
<1>3. /\ lo <= lastNote + 1 /\ notes = lo .. lastNote /\ lastNote <= lo + MaxPerUser
      /\ lo = 1 \/ lo <= expired + 1 \/ lo + MaxPerUser <= lastNote + 1
  BY <1>1, <1>2 DEF Along, Spans
<1>4. MaxPerUser \in Nat /\ expired \in Nat
  BY NotesAssumption DEF SequenceInv
<1>5. ASSUME NEW low \in Nat \ {0}, lo <= low, low <= lastNote + 1, notes' = low .. lastNote,
             low = lo \/ low <= expired + 1
      PROVE  SequenceInv'
  <2>1. /\ lastNote <= low + MaxPerUser
        /\ low = 1 \/ low <= expired + 1 \/ low + MaxPerUser <= lastNote + 1
    BY <1>1, <1>3, <1>4, <1>5
  <2>2. Along(c, low)'
    BY <1>1, <1>5, <2>1 DEF Along, Spans
  <2> QED BY <1>1, <2>2, SequenceGoes
<1>6. CASE expired < lo
  <2>1. notes' = lo .. lastNote
    BY <1>1, <1>3, <1>4, <1>6
  <2> QED BY <1>3, <1>5, <2>1
<1>7. CASE lo <= expired /\ expired <= lastNote
  <2>1. notes' = (expired + 1) .. lastNote
    BY <1>1, <1>3, <1>4, <1>7
  <2>2. expired + 1 \in Nat \ {0} /\ lo <= expired + 1 /\ expired + 1 <= lastNote + 1
    BY <1>1, <1>4, <1>7
  <2> QED BY <1>5, <2>1, <2>2
<1>8. CASE lo <= expired /\ lastNote < expired
  <2>1. notes' = (lastNote + 1) .. lastNote
    BY <1>1, <1>3, <1>4, <1>8
  <2>2. /\ lastNote + 1 \in Nat \ {0} /\ lo <= lastNote + 1 /\ lastNote + 1 <= lastNote + 1
        /\ lastNote + 1 <= expired + 1
    BY <1>1, <1>3, <1>4, <1>8
  <2> QED BY <1>5, <2>1, <2>2
<1> QED BY <1>1, <1>4, <1>6, <1>7, <1>8

LEMMA SequenceCount ==
    ASSUME NotesInv, SequenceInv, ~ crossed, mishaps = 0, NEW c \in Creators, CountNotes(c)
    PROVE  SequenceInv'
<1>1. /\ creator[c].at = "count" /\ UNCHANGED <<notes, lastNote, expired, mishaps, crossed>>
      /\ lastNote \in Nat /\ \A d \in Creators \ {c} : creator'[d] = creator[d]
  BY OthersStay DEF CountNotes, NotesInv, NotesTyped, Creations
<1>2. PICK lo \in Nat \ {0} : Along(c, lo)
  BY ActsAlone
<1>3. Spans(lo, lastNote) /\ lastNote <= lo + MaxPerUser /\ MaxPerUser \in Nat
  BY <1>1, <1>2, NotesAssumption DEF Along
<1>4. Cardinality(notes) = lastNote - lo + 1
  <2>1. notes = lo .. lastNote /\ lo <= lastNote + 1 /\ lo \in Int /\ lastNote \in Int
    BY <1>1, <1>3 DEF Spans
  <2>2. Cardinality(lo .. lastNote) = IF lo > lastNote THEN 0 ELSE lastNote - lo + 1
    BY <2>1, FS_Interval
  <2> QED BY <2>1, <2>2
<1>5. CASE Cardinality(notes) > MaxPerUser
  <2>1. creator'[c].at = "find" /\ creator'[c].count = Cardinality(notes)
    BY <1>5 DEF CountNotes, NotesInv, NotesTyped, Creations
  <2>2. lastNote = lo + MaxPerUser /\ Cardinality(notes) = MaxPerUser + 1
    BY <1>1, <1>3, <1>4, <1>5
  <2>3. Along(c, lo)'
    BY <1>1, <1>3, <2>1, <2>2 DEF Along, Spans
  <2> QED BY <1>1, <2>1, <2>3, SequenceGoes
<1>6. CASE ~ (Cardinality(notes) > MaxPerUser)
  <2>1. creator'[c].at = "idle"
    BY <1>6, NoCreationIs DEF CountNotes, NotesInv, NotesTyped
  <2>2. lastNote < lo + MaxPerUser
    BY <1>1, <1>3, <1>4, <1>6
  <2>3. Along(c, lo)' /\ Spans(lo, lastNote)'
    BY <1>1, <1>3, <2>1 DEF Along, Spans
  <2> QED BY <1>1, <2>1, <2>2, <2>3, SequenceGoes
<1> QED BY <1>5, <1>6

LEMMA SequenceFind ==
    ASSUME NotesInv, SequenceInv, ~ crossed, mishaps = 0, NEW c \in Creators, FindOldest(c)
    PROVE  SequenceInv'
<1>1. /\ creator[c].at = "find" /\ creator'[c].at = "delete"
      /\ creator'[c].ids = Oldest(creator[c].count - MaxPerUser)
      /\ UNCHANGED <<notes, lastNote, expired, mishaps, crossed>>
      /\ lastNote \in Nat /\ \A d \in Creators \ {c} : creator'[d] = creator[d]
  BY OthersStay DEF FindOldest, Excess, NotesInv, NotesTyped, Creations
<1>2. PICK lo \in Nat \ {0} : Along(c, lo)
  BY ActsAlone
<1>3. /\ Spans(lo, lastNote) /\ lastNote = lo + MaxPerUser /\ creator[c].count = MaxPerUser + 1
      /\ MaxPerUser \in Nat
  BY <1>1, <1>2, NotesAssumption DEF Along
<1>4. creator'[c].ids = {lo}
  <2>1. creator[c].count - MaxPerUser = 1
    BY <1>3
  <2>2. notes = lo .. lastNote /\ lo \in notes /\ IsFiniteSet(notes)
    BY <1>1, <1>3 DEF Spans, NotesInv, NotesTyped
  <2>3. ASSUME NEW n \in notes
        PROVE  Cardinality({m \in notes : m < n}) < 1 <=> n = lo
    <3>1. {m \in notes : m < n} \in SUBSET notes
      OBVIOUS
    <3>2. /\ IsFiniteSet({m \in notes : m < n}) /\ Cardinality({m \in notes : m < n}) \in Nat
      BY <2>2, <3>1, FS_Subset, FS_CardinalityType
    <3>3. Cardinality({m \in notes : m < n}) = 0 <=> {m \in notes : m < n} = {}
      BY <3>2, FS_EmptySet
    <3>4. {m \in notes : m < n} = {} <=> n = lo
      <4>1. CASE n = lo
        BY <2>2, <4>1
      <4>2. CASE n # lo
        <5>1. lo < n
          BY <1>1, <2>2, <4>2
        <5>2. lo \in {m \in notes : m < n}
          BY <2>2, <5>1
        <5> QED BY <4>2, <5>2
      <4> QED BY <4>1, <4>2
    <3>5. Cardinality({m \in notes : m < n}) < 1 <=> Cardinality({m \in notes : m < n}) = 0
      BY <3>2
    <3> QED BY <3>3, <3>4, <3>5
  <2>4. Oldest(1) = {lo}
    BY <2>2, <2>3 DEF Oldest
  <2> QED BY <1>1, <2>1, <2>4
<1>5. Along(c, lo)'
  BY <1>1, <1>3, <1>4 DEF Along, Spans
<1> QED BY <1>1, <1>5, SequenceGoes

LEMMA SequenceDelete ==
    ASSUME NotesInv, SequenceInv, ~ crossed, mishaps = 0, NEW c \in Creators, DeleteFound(c)
    PROVE  SequenceInv'
<1>1. /\ creator[c].at = "delete" /\ creator'[c].at = "idle" /\ notes' = notes \ creator[c].ids
      /\ UNCHANGED <<lastNote, expired, mishaps, crossed>>
      /\ lastNote \in Nat /\ \A d \in Creators \ {c} : creator'[d] = creator[d]
  BY OthersStay, NoCreationIs DEF DeleteFound, NotesInv, NotesTyped
<1>2. PICK lo \in Nat \ {0} : Along(c, lo)
  BY ActsAlone
<1>3. /\ notes = lo .. lastNote /\ lastNote = lo + MaxPerUser /\ creator[c].ids = {lo}
      /\ MaxPerUser \in Nat
  BY <1>1, <1>2, NotesAssumption DEF Along, Spans
<1>4. PICK low : low = lo + 1
  OBVIOUS
<1>5. low \in Nat \ {0} /\ low <= lastNote + 1 /\ low + MaxPerUser <= lastNote + 1
      /\ lastNote < low + MaxPerUser /\ notes' = low .. lastNote
  BY <1>1, <1>3, <1>4
<1>6. Along(c, low)' /\ Spans(low, lastNote)'
  BY <1>1, <1>5 DEF Along, Spans
<1> QED BY <1>1, <1>5, <1>6, SequenceGoes

LEMMA SequenceNext == NotesInv /\ SequenceInv /\ [NotesNext]_notesVars => SequenceInv'
<1> SUFFICES ASSUME NotesInv, SequenceInv, [NotesNext]_notesVars PROVE SequenceInv'
  OBVIOUS
<1>1. CASE \/ UNCHANGED notesVars
           \/ \E w \in Sockets : Connect(w) \/ Greet(w) \/ GreetRaises(w) \/ Disconnect(w)
  BY <1>1, SequenceQuiet DEF notesVars, Connect, Greet, GreetRaises, Disconnect
<1>2. ASSUME NEW w \in Sockets, HangUp(w)
      PROVE  SequenceInv'
  <2>1. \A c \in Creators : creator'[c] = [creator[c] EXCEPT !.owed = @ \ {w}]
                            /\ creator[c] \in Creations
    BY <1>2 DEF HangUp, NotesInv, NotesTyped
  <2>2. ASSUME NEW c \in Creators
        PROVE  /\ creator'[c].at = creator[c].at /\ creator'[c].id = creator[c].id
               /\ creator'[c].count = creator[c].count /\ creator'[c].ids = creator[c].ids
    <3>1. PICK k, l : k = creator[c] /\ l = creator'[c]
      OBVIOUS
    <3>2. k \in Creations /\ l = [k EXCEPT !.owed = @ \ {w}]
      BY <2>1, <3>1
    <3>3. l.at = k.at /\ l.id = k.id /\ l.count = k.count /\ l.ids = k.ids
      BY <3>2 DEF Creations
    <3> QED BY <3>1, <3>3
  <2> QED BY <1>2, <2>2, SequenceQuiet DEF HangUp
<1>3. ASSUME NEW c \in Creators, NEW w \in Sockets, Send(c, w)
      PROVE  SequenceInv'
  <2>1. /\ creator'[c].at = creator[c].at /\ creator'[c].id = creator[c].id
        /\ creator'[c].count = creator[c].count /\ creator'[c].ids = creator[c].ids
    BY <1>3 DEF Send, NotesInv, NotesTyped, Creations
  <2>2. \A d \in Creators \ {c} : creator'[d] = creator[d]
    BY <1>3, OthersStay
  <2>3. \A d \in Creators : /\ creator'[d].at = creator[d].at /\ creator'[d].id = creator[d].id
                            /\ creator'[d].count = creator[d].count /\ creator'[d].ids = creator[d].ids
    BY <2>1, <2>2
  <2> QED BY <1>3, <2>3, SequenceQuiet DEF Send
<1>4. CASE Expire
  <2>1. \E n \in notes : \A m \in notes : n <= m
    BY <1>4, LeastNat DEF Expire, NotesInv, NotesTyped
  <2>2. expired' \in notes
    BY <1>4, <2>1 DEF Expire, Min
  <2>3. expired' \in Nat /\ expired < expired' /\ expired \in Nat
    BY <1>4, <2>2 DEF Expire, SequenceInv, NotesInv, NotesTyped
  <2>4. UNCHANGED <<notes, lastNote, creator, mishaps, crossed>>
    BY <1>4 DEF Expire
  <2>5. \A lo \in Nat : lo <= expired + 1 => lo <= expired' + 1
    <3>1. PICK e, f : e = expired /\ f = expired'
      OBVIOUS
    <3>2. e \in Nat /\ f \in Nat /\ e < f
      BY <2>3, <3>1
    <3>3. \A lo \in Nat : lo <= e + 1 => lo <= f + 1
      BY <3>2
    <3> QED BY <3>1, <3>3
  <2>6. ASSUME NEW lo \in Nat, InTurn(lo)
        PROVE  InTurn(lo)'
    <3>1. \A hi : Spans(lo, hi) => Spans(lo, hi)'
      BY <2>4, <2>5 DEF Spans
    <3>2. \A c \in Creators : Along(c, lo)'
      BY <2>4, <2>6, <3>1 DEF InTurn, Along
    <3> QED BY <2>4, <2>6, <3>1, <3>2 DEF InTurn, NotesAtRest
  <2> QED BY <2>3, <2>4, <2>6 DEF SequenceInv, OneCreation
<1>5. ASSUME NEW c \in Creators,
             \/ InsertNote(c) \/ DropDead(c) \/ DeleteExpired(c) \/ CountNotes(c)
             \/ FindOldest(c) \/ DeleteFound(c)
      PROVE  SequenceInv'
  <2>1. UNCHANGED <<mishaps, expired, crossed>>
    BY <1>5 DEF InsertNote, DropDead, DeleteExpired, CountNotes, FindOldest, DeleteFound
  <2>2. CASE ~ crossed /\ mishaps = 0
    BY <1>5, <2>2, SequenceInsert, SequenceDropDead, SequenceExpire, SequenceCount,
       SequenceFind, SequenceDelete
  <2> QED BY <2>1, <2>2 DEF SequenceInv
<1>6. ASSUME NEW c \in Creators, CreationRaises(c)
      PROVE  SequenceInv'
  <2>1. mishaps' \in Nat /\ mishaps' # 0 /\ expired' \in Nat
    BY <1>6 DEF CreationRaises, SequenceInv
  <2> QED BY <2>1 DEF SequenceInv
<1> QED BY <1>1, <1>2, <1>3, <1>4, <1>5, <1>6, SequenceCreate DEF NotesNext

-----------------------------------------------------------------------------
\* Creations that overlap: how many notifications there may be.

Standing(stages) == {c \in Creators : creator[c].at \in stages}
\* Those that have inserted theirs, and those that have counted too many.
Past    == Standing({"send", "expire", "count", "find", "delete"})
Pruners == Standing({"find", "delete"})

\* When x has deleted what it has found or will find, at most n are left beyond
\* the quota.
Leaving(x, n) ==
    /\ creator[x].at = "find" => Cardinality(notes) <= creator[x].count + n
    /\ creator[x].at = "delete" => Cardinality(notes \ creator[x].ids) <= MaxPerUser + n

\* No more than those of base are beyond the quota, and those that have inserted
\* since x has counted when x has deleted.  Who counted later has fewer since.
Overshot(base, since) ==
    /\ base \in SUBSET Past /\ since \in [Creators -> SUBSET Past]
    /\ Cardinality(notes) <= MaxPerUser + Cardinality(base)
    /\ \A x \in Pruners : /\ x \notin since[x] /\ creator[x].count > MaxPerUser
                          /\ Leaving(x, Cardinality(since[x]))
                          /\ x \in base => since[x] \subseteq base
    /\ \A x, y \in Pruners : x \in since[y] => since[x] \subseteq since[y]

OvershootInv == mishaps \in Nat /\ (mishaps = 0 => \E base, since : Overshot(base, since))

LEMMA CreatorSets ==
    ASSUME NEW T \in SUBSET Creators
    PROVE  IsFiniteSet(T) /\ Cardinality(T) \in Nat /\ Cardinality(T) <= Cardinality(Creators)
BY NotesAssumption, FS_Subset, FS_CardinalityType

LEMMA SmallerSet ==
    ASSUME NEW s, IsFiniteSet(s), NEW t \in SUBSET s
    PROVE  /\ IsFiniteSet(t) /\ Cardinality(t) \in Nat /\ Cardinality(s) \in Nat
           /\ Cardinality(t) <= Cardinality(s)
BY FS_Subset, FS_CardinalityType

LEMMA OneMore ==
    ASSUME NEW s, IsFiniteSet(s), NEW x
    PROVE  /\ IsFiniteSet(s \cup {x}) /\ Cardinality(s) \in Nat /\ Cardinality(s \cup {x}) \in Nat
           /\ Cardinality(s \cup {x}) <= Cardinality(s) + 1
           /\ x \notin s => Cardinality(s \cup {x}) = Cardinality(s) + 1
<1>1. IsFiniteSet(s \cup {x})
  BY FS_AddElement
<1>2. Cardinality(s) \in Nat /\ Cardinality(s \cup {x}) \in Nat
  BY <1>1, FS_CardinalityType
<1>3. Cardinality(s \cup {x}) = IF x \in s THEN Cardinality(s) ELSE Cardinality(s) + 1
  BY FS_AddElement
<1> QED BY <1>1, <1>2, <1>3

\* Fewer notifications, more allowed.
LEMMA LeavingLess ==
    ASSUME NotesInv, notes' \subseteq notes, NEW x \in Creators,
           creator'[x].at = creator[x].at, creator'[x].count = creator[x].count,
           creator'[x].ids = creator[x].ids,
           NEW n \in Nat, NEW m \in Nat, n <= m, Leaving(x, n)
    PROVE  Leaving(x, m)'
<1>1. IsFiniteSet(notes) /\ MaxPerUser \in Nat /\ creator[x].count \in Nat
  BY NotesAssumption DEF NotesInv, NotesTyped, Creations
<1>2. ASSUME creator'[x].at = "find"
      PROVE  Cardinality(notes') <= creator'[x].count + m
  <2>1. Cardinality(notes) <= creator[x].count + n
    BY <1>2 DEF Leaving
  <2>2. Cardinality(notes') <= Cardinality(notes) /\ Cardinality(notes) \in Nat /\ Cardinality(notes') \in Nat
    BY <1>1, SmallerSet
  <2> QED BY <1>1, <2>1, <2>2
<1>3. ASSUME creator'[x].at = "delete"
      PROVE  Cardinality(notes' \ creator'[x].ids) <= MaxPerUser + m
  <2> DEFINE s == notes \ creator[x].ids
             t == notes' \ creator[x].ids
  <2>1. Cardinality(s) <= MaxPerUser + n
    BY <1>3 DEF Leaving
  <2>2. IsFiniteSet(s)
    BY <1>1, FS_Difference
  <2>3. t \in SUBSET s
    OBVIOUS
  <2> HIDE DEF s, t
  <2>4. Cardinality(t) <= Cardinality(s) /\ Cardinality(s) \in Nat /\ Cardinality(t) \in Nat
    BY <2>2, <2>3, SmallerSet
  <2>5. Cardinality(t) <= MaxPerUser + m
    BY <1>1, <2>1, <2>4
  <2> QED BY <2>5 DEF t
<1> QED BY <1>2, <1>3 DEF Leaving

\* Steps that add no notification and take no creation past its count or out.
LEMMA OvershotQuiet ==
    ASSUME NotesInv, OvershootInv, notes' \subseteq notes, UNCHANGED mishaps,
           \A c \in Creators :
               \/ creator'[c] = creator[c]
               \/ /\ creator[c].at \in {"idle", "send", "expire"}
                  /\ creator'[c].at \in {"insert", "send", "expire", "count"}
                  /\ creator[c].at # "idle" => creator'[c].at # "insert"
               \/ /\ creator'[c].at = creator[c].at /\ creator'[c].count = creator[c].count
                  /\ creator'[c].ids = creator[c].ids
    PROVE  OvershootInv'
<1>1. SUFFICES ASSUME mishaps = 0 PROVE \E base, since : Overshot(base, since)'
  BY DEF OvershootInv
<1>2. PICK base, since : Overshot(base, since)
  BY <1>1 DEF OvershootInv
<1>3. Past \subseteq Past' /\ Pruners' = Pruners
  BY DEF Past, Pruners, Standing
<1>4. \A c \in Pruners : /\ creator'[c].at = creator[c].at /\ creator'[c].count = creator[c].count
                         /\ creator'[c].ids = creator[c].ids
  BY DEF Pruners, Standing
<1>5. ASSUME NEW c \in Pruners
      PROVE  Leaving(c, Cardinality(since[c]))'
  <2>1. c \in Creators /\ since[c] \in SUBSET Creators
    BY <1>2, <1>5 DEF Overshot, Pruners, Past, Standing
  <2>2. PICK n : n = Cardinality(since[c])
    OBVIOUS
  <2>3. n \in Nat /\ n <= n
    BY <2>1, <2>2, CreatorSets
  <2>4. Leaving(c, n)
    BY <1>2, <1>5, <2>2 DEF Overshot
  <2>5. Leaving(c, n)'
    BY <1>4, <1>5, <2>1, <2>3, <2>4, LeavingLess
  <2> QED BY <2>2, <2>5 DEF Leaving
<1>6. Cardinality(notes') <= MaxPerUser + Cardinality(base)
  <2>1. /\ Cardinality(notes') <= Cardinality(notes) /\ Cardinality(notes) \in Nat
        /\ Cardinality(notes') \in Nat
    BY SmallerSet DEF NotesInv, NotesTyped
  <2>2. base \in SUBSET Creators
    BY <1>2 DEF Overshot, Past, Standing
  <2>3. Cardinality(base) \in Nat /\ MaxPerUser \in Nat
    BY <2>2, CreatorSets, NotesAssumption
  <2>4. Cardinality(notes) <= MaxPerUser + Cardinality(base)
    BY <1>2 DEF Overshot
  <2> QED BY <2>1, <2>3, <2>4
<1>7. Overshot(base, since)'
  BY <1>2, <1>3, <1>4, <1>5, <1>6 DEF Overshot
<1> QED BY <1>7

\* A peer that goes leaves every creation where it stands.
LEMMA HangUpLeaves ==
    ASSUME NotesInv, NEW w \in Sockets, HangUp(w), NEW c \in Creators
    PROVE  /\ creator'[c].at = creator[c].at /\ creator'[c].id = creator[c].id
           /\ creator'[c].count = creator[c].count /\ creator'[c].ids = creator[c].ids
<1>1. creator'[c] = [creator[c] EXCEPT !.owed = @ \ {w}] /\ creator[c] \in Creations
  BY DEF HangUp, NotesInv, NotesTyped
<1>2. PICK k, l : k = creator[c] /\ l = creator'[c]
  OBVIOUS
<1>3. k \in Creations /\ l = [k EXCEPT !.owed = @ \ {w}]
  BY <1>1, <1>2
<1>4. l.at = k.at /\ l.id = k.id /\ l.count = k.count /\ l.ids = k.ids
  BY <1>3 DEF Creations
<1> QED BY <1>2, <1>4

LEMMA OvershotInsert ==
    ASSUME NotesInv, NEW c \in Creators, InsertNote(c), NEW base, NEW since, Overshot(base, since)
    PROVE  \E b, s : Overshot(b, s)'
<1> DEFINE b == base \cup {c}
           s == [x \in Creators |-> since[x] \cup {c}]
<1>1. /\ creator'[c].at = "send" /\ creator[c].at = "insert" /\ notes' = notes \cup {creator[c].id}
      /\ \A d \in Creators \ {c} : creator'[d] = creator[d]
  BY OthersStay DEF InsertNote, NotesInv, NotesTyped, Creations
<1>2. c \notin Past /\ Past' = Past \cup {c} /\ Pruners' = Pruners /\ c \notin Pruners
  BY <1>1 DEF Past, Pruners, Standing
<1>3. base \subseteq Past /\ since \in [Creators -> SUBSET Past] /\ Past \subseteq Creators
      /\ Pruners \subseteq Creators
  BY DEF Overshot, Past, Pruners, Standing
<1>4. ASSUME NEW T \in SUBSET Past
      PROVE  Cardinality(T \cup {c}) = Cardinality(T) + 1 /\ Cardinality(T) \in Nat
  BY <1>2, <1>3, CreatorSets, OneMore
<1>5. IsFiniteSet(notes) /\ MaxPerUser \in Nat
  BY NotesAssumption DEF NotesInv, NotesTyped
<1>6. ASSUME NEW t, IsFiniteSet(t), NEW n \in Nat, NEW m \in Nat, Cardinality(t) <= m + n,
             NEW t1 \in SUBSET (t \cup {creator[c].id})
      PROVE  Cardinality(t1) <= m + (n + 1)
  <2>1. PICK i : i = creator[c].id
    OBVIOUS
  <2>2. /\ IsFiniteSet(t \cup {i}) /\ Cardinality(t \cup {i}) <= Cardinality(t) + 1
        /\ Cardinality(t) \in Nat /\ Cardinality(t \cup {i}) \in Nat
    BY <1>6, OneMore
  <2>3. Cardinality(t1) <= Cardinality(t \cup {i}) /\ Cardinality(t1) \in Nat
    BY <1>6, <2>1, <2>2, SmallerSet
  <2> QED BY <1>6, <2>2, <2>3
<1>7. Cardinality(notes') <= MaxPerUser + Cardinality(b)
  <2>1. Cardinality(notes) <= MaxPerUser + Cardinality(base)
    BY DEF Overshot
  <2>2. Cardinality(b) = Cardinality(base) + 1 /\ Cardinality(base) \in Nat
    BY <1>3, <1>4
  <2>3. notes' \in SUBSET (notes \cup {creator[c].id})
    BY <1>1
  <2>4. Cardinality(notes') <= MaxPerUser + (Cardinality(base) + 1)
    BY <1>5, <1>6, <2>1, <2>2, <2>3
  <2> QED BY <2>2, <2>4
<1>8. ASSUME NEW x \in Pruners
      PROVE  Leaving(x, Cardinality(s[x]))'
  <2>1. x \in Creators /\ x # c /\ creator'[x] = creator[x] /\ creator[x].count \in Nat
    BY <1>1, <1>2, <1>3 DEF NotesInv, NotesTyped, Creations
  <2>2. PICK n : n = Cardinality(since[x])
    OBVIOUS
  <2>3. n \in Nat /\ Cardinality(s[x]) = n + 1
    BY <1>3, <1>4, <2>1, <2>2
  <2>4. Leaving(x, n)
    BY <2>2 DEF Overshot
  <2>5. ASSUME creator'[x].at = "find"
        PROVE  Cardinality(notes') <= creator[x].count + (n + 1)
    <3>1. Cardinality(notes) <= creator[x].count + n
      BY <2>1, <2>4, <2>5 DEF Leaving
    <3>2. notes' \in SUBSET (notes \cup {creator[c].id})
      BY <1>1
    <3> QED BY <1>5, <1>6, <2>1, <2>3, <3>1, <3>2
  <2>6. ASSUME creator'[x].at = "delete"
        PROVE  Cardinality(notes' \ creator[x].ids) <= MaxPerUser + (n + 1)
    <3>1. Cardinality(notes \ creator[x].ids) <= MaxPerUser + n
      BY <2>1, <2>4, <2>6 DEF Leaving
    <3>2. notes' \ creator[x].ids \in SUBSET ((notes \ creator[x].ids) \cup {creator[c].id})
      BY <1>1
    <3>3. IsFiniteSet(notes \ creator[x].ids)
      BY <1>5, FS_Difference
    <3> QED BY <1>5, <1>6, <2>3, <3>1, <3>2, <3>3
  <2>7. Leaving(x, n + 1)'
    BY <2>1, <2>5, <2>6 DEF Leaving
  <2> QED BY <2>3, <2>7 DEF Leaving
<1>9. b \in SUBSET Past' /\ s \in [Creators -> SUBSET (Past')]
  BY <1>2, <1>3
<1>10. \A x \in Pruners' : /\ x \notin s[x] /\ creator'[x].count > MaxPerUser
                           /\ x \in b => s[x] \subseteq b
  BY <1>1, <1>2, <1>3 DEF Overshot
<1>11. \A x, y \in Pruners' : x \in s[y] => s[x] \subseteq s[y]
  BY <1>2, <1>3 DEF Overshot
<1>12. Overshot(b, s)'
  <2> HIDE DEF b, s
  <2> QED BY <1>2, <1>7, <1>8, <1>9, <1>10, <1>11 DEF Overshot
<1> QED BY <1>12

LEMMA OvershotCount ==
    ASSUME NotesInv, NEW c \in Creators, CountNotes(c), NEW base, NEW since, Overshot(base, since)
    PROVE  \E b, s : Overshot(b, s)'
<1>1. /\ creator[c].at = "count" /\ notes' = notes
      /\ \A d \in Creators \ {c} : creator'[d] = creator[d]
  BY OthersStay DEF CountNotes
<1>2. c \in Past /\ c \notin Pruners /\ Past \subseteq Creators /\ Pruners \subseteq Creators
  BY <1>1 DEF Past, Pruners, Standing
<1>3. base \subseteq Past /\ since \in [Creators -> SUBSET Past]
  BY DEF Overshot
<1>4. /\ IsFiniteSet(notes) /\ MaxPerUser \in Nat /\ Cardinality(notes) \in Nat
      /\ Cardinality({}) = 0 /\ \A x \in Creators : creator[x].count \in Nat
  BY NotesAssumption, FS_CardinalityType, FS_EmptySet DEF NotesInv, NotesTyped, Creations
<1>5. CASE Cardinality(notes) > MaxPerUser
  <2>0. PICK s : s = [since EXCEPT ![c] = {}]
    OBVIOUS
  <2>1. creator'[c].at = "find" /\ creator'[c].count = Cardinality(notes)
    BY <1>5 DEF CountNotes, NotesInv, NotesTyped, Creations
  <2>2. Past' = Past /\ Pruners' = Pruners \cup {c}
    BY <1>1, <2>1 DEF Past, Pruners, Standing
  <2>3. s[c] = {} /\ \A x \in Creators \ {c} : s[x] = since[x]
    BY <1>3, <2>0
  <2>4. s \in [Creators -> SUBSET (Past')]
    BY <1>3, <2>0, <2>2
  <2>5. ASSUME NEW x \in Pruners
        PROVE  Leaving(x, Cardinality(s[x]))'
    <3>1. x \in Creators /\ x # c /\ creator'[x] = creator[x]
      BY <1>1, <1>2
    <3>2. Leaving(x, Cardinality(since[x]))
      BY DEF Overshot
    <3> QED BY <1>1, <2>3, <3>1, <3>2 DEF Leaving
  <2>6. Leaving(c, Cardinality(s[c]))'
    BY <1>1, <1>4, <2>1, <2>3 DEF Leaving
  <2>7. \A x \in Pruners' : /\ x \notin s[x] /\ creator'[x].count > MaxPerUser
                            /\ x \in base => s[x] \subseteq base
    BY <1>1, <1>2, <1>5, <2>1, <2>2, <2>3 DEF Overshot
  <2>8. \A x, y \in Pruners' : x \in s[y] => s[x] \subseteq s[y]
    BY <1>2, <2>2, <2>3 DEF Overshot
  <2>9. (Cardinality(notes) <= MaxPerUser + Cardinality(base))'
    BY <1>1 DEF Overshot
  <2>10. \A x \in Pruners' : Leaving(x, Cardinality(s[x]))'
    BY <2>2, <2>5, <2>6
  <2>11. base \in SUBSET Past'
    BY <1>3, <2>2
  <2>12. Overshot(base, s)'
    BY <2>4, <2>7, <2>8, <2>9, <2>10, <2>11 DEF Overshot
  <2> QED BY <2>12
<1>6. CASE ~ (Cardinality(notes) > MaxPerUser)
  <2> DEFINE s == [x \in Creators |-> {}]
  <2>1. creator'[c].at = "idle"
    BY <1>6, NoCreationIs DEF CountNotes, NotesInv, NotesTyped
  <2>2. Pruners' = Pruners
    BY <1>1, <2>1 DEF Pruners, Standing
  <2>3. s \in [Creators -> SUBSET (Past')] /\ \A x \in Creators : s[x] = {}
    OBVIOUS
  <2> HIDE DEF s
  <2>4. \A x \in Pruners : /\ creator'[x] = creator[x] /\ creator[x].count > MaxPerUser
                           /\ creator[x].count \in Nat
    BY <1>1, <1>2, <1>4 DEF Overshot
  <2>5. ASSUME NEW x \in Pruners
        PROVE  Leaving(x, 0)'
    <3>1. x \in Creators /\ creator'[x] = creator[x] /\ Cardinality(notes) <= creator[x].count + 0
      BY <1>2, <1>4, <1>6, <2>4
    <3>2. PICK t : t = notes \ creator[x].ids
      OBVIOUS
    <3>3. t \in SUBSET notes
      BY <3>2
    <3>4. Cardinality(t) <= Cardinality(notes) /\ Cardinality(t) \in Nat
      BY <1>4, <3>3, SmallerSet
    <3>5. Cardinality(t) <= MaxPerUser + 0
      BY <1>4, <1>6, <3>4
    <3> QED BY <1>1, <3>1, <3>2, <3>5 DEF Leaving
  <2>6. \A x \in Pruners : Leaving(x, Cardinality(s[x]))'
    BY <1>2, <1>4, <2>3, <2>5
  <2>7. (Cardinality(notes) <= MaxPerUser + Cardinality({}))'
    BY <1>1, <1>4, <1>6
  <2>8. Overshot({}, s)'
    BY <1>2, <2>2, <2>3, <2>4, <2>6, <2>7 DEF Overshot
  <2> QED BY <2>8
<1> QED BY <1>5, <1>6

LEMMA OvershotFind ==
    ASSUME NotesInv, NEW c \in Creators, FindOldest(c), NEW base, NEW since, Overshot(base, since)
    PROVE  Overshot(base, since)'
<1> DEFINE k == creator[c].count - MaxPerUser
<1>1. /\ creator[c].at = "find" /\ creator'[c].at = "delete" /\ creator'[c].ids = Firsts(notes, k)
      /\ creator'[c].count = creator[c].count
      /\ notes' = notes /\ \A d \in Creators \ {c} : creator'[d] = creator[d]
  BY OthersStay DEF FindOldest, Oldest, Firsts, Excess, NotesInv, NotesTyped, Creations
<1>2. /\ Past' = Past /\ Pruners' = Pruners /\ c \in Pruners
      /\ Past \subseteq Creators /\ Pruners \subseteq Creators
  BY <1>1 DEF Past, Pruners, Standing
<1>3. creator[c].count \in Nat /\ MaxPerUser \in Nat /\ k \in Nat
  <2>1. creator[c].count \in Nat /\ creator[c].count > MaxPerUser
    BY <1>2 DEF Overshot, NotesInv, NotesTyped, Creations
  <2> QED BY <2>1, NotesAssumption
<1>4. since[c] \in SUBSET Creators
  BY <1>2 DEF Overshot
<1>5. PICK n : n = Cardinality(since[c])
  OBVIOUS
<1>6. n \in Nat /\ Leaving(c, n)
  BY <1>2, <1>4, <1>5, CreatorSets DEF Overshot
<1>7. Cardinality(notes \ Firsts(notes, k)) <= MaxPerUser + n
  <2>1. notes \subseteq Nat /\ IsFiniteSet(notes) /\ Cardinality(notes) \in Nat
    BY FS_CardinalityType DEF NotesInv, NotesTyped
  <2>2. \/ Cardinality(notes \ Firsts(notes, k)) = Cardinality(notes) - k
        \/ Cardinality(notes \ Firsts(notes, k)) = 0
    BY <1>3, <2>1, FirstsGone
  <2>3. Cardinality(notes) <= creator[c].count + n
    BY <1>1, <1>6 DEF Leaving
  <2> QED BY <1>3, <1>6, <2>1, <2>2, <2>3
<1>8. Leaving(c, n)'
  BY <1>1, <1>7 DEF Leaving
<1>9. \A x \in Pruners \ {c} : Leaving(x, Cardinality(since[x]))'
  BY <1>1, <1>2 DEF Overshot, Leaving
<1>10. \A x \in Pruners : Leaving(x, Cardinality(since[x]))'
  BY <1>5, <1>8, <1>9 DEF Leaving
<1>11. \A x \in Pruners : creator'[x].count = creator[x].count
  BY <1>1, <1>2
<1> QED BY <1>1, <1>2, <1>10, <1>11 DEF Overshot

LEMMA OvershotDelete ==
    ASSUME NotesInv, NEW c \in Creators, DeleteFound(c), NEW base, NEW since, Overshot(base, since)
    PROVE  \E b, s : Overshot(b, s)'
<1>0. PICK s : s = [y \in Creators |-> IF c \in since[y] THEN since[c] ELSE since[y]]
  OBVIOUS
<1>1. /\ creator[c].at = "delete" /\ creator'[c].at = "idle" /\ notes' = notes \ creator[c].ids
      /\ \A d \in Creators \ {c} : creator'[d] = creator[d]
  BY OthersStay, NoCreationIs DEF DeleteFound, NotesInv, NotesTyped
<1>2. /\ Past' = Past \ {c} /\ Pruners' = Pruners \ {c} /\ c \in Pruners
      /\ Past \subseteq Creators /\ Pruners \subseteq Creators
  BY <1>1 DEF Past, Pruners, Standing
<1>3. since \in [Creators -> SUBSET Past] /\ c \notin since[c]
  BY <1>2 DEF Overshot
<1>4. s \in [Creators -> SUBSET (Past')] /\ since[c] \in SUBSET Past'
  BY <1>0, <1>2, <1>3
<1>5. \A y \in Creators : s[y] = IF c \in since[y] THEN since[c] ELSE since[y]
  BY <1>0
<1>6. PICK n : n = Cardinality(since[c])
  OBVIOUS
<1>7. n \in Nat
  BY <1>2, <1>3, <1>6, CreatorSets
<1>8. Leaving(c, n)
  BY <1>2, <1>6 DEF Overshot
<1>9. Cardinality(notes') <= MaxPerUser + n
  BY <1>1, <1>8 DEF Leaving
<1>10. /\ IsFiniteSet(notes') /\ Cardinality(notes') \in Nat /\ MaxPerUser \in Nat
  <2>1. notes' \in SUBSET notes /\ IsFiniteSet(notes)
    BY <1>1 DEF NotesInv, NotesTyped
  <2>2. MaxPerUser \in Nat
    BY NotesAssumption
  <2> QED BY <2>1, <2>2, SmallerSet
<1>11. ASSUME NEW y \in Pruners', c \in since[y]
       PROVE  Leaving(y, n)'
  <2>1. y \in Creators /\ creator'[y] = creator[y] /\ creator[y].count > MaxPerUser
        /\ creator[y].count \in Nat
    BY <1>1, <1>2 DEF Overshot, NotesInv, NotesTyped, Creations
  <2>2. Cardinality(notes') <= creator[y].count + n
    BY <1>7, <1>9, <1>10, <2>1
  <2>3. PICK t : t = notes' \ creator[y].ids
    OBVIOUS
  <2>4. t \in SUBSET notes'
    BY <2>3
  <2>5. Cardinality(t) <= Cardinality(notes') /\ Cardinality(t) \in Nat
    BY <1>10, <2>4, SmallerSet
  <2>6. Cardinality(t) <= MaxPerUser + n
    BY <1>7, <1>9, <1>10, <2>5
  <2> QED BY <2>1, <2>2, <2>3, <2>6 DEF Leaving
<1>12. ASSUME NEW y \in Pruners', c \notin since[y]
       PROVE  Leaving(y, Cardinality(since[y]))'
  <2>1. y \in Creators /\ y \in Pruners /\ creator'[y] = creator[y]
    BY <1>1, <1>2
  <2>2. PICK m : m = Cardinality(since[y])
    OBVIOUS
  <2>3. m \in Nat /\ m <= m
    BY <1>2, <1>3, <2>1, <2>2, CreatorSets
  <2>4. Leaving(y, m)
    BY <2>1, <2>2 DEF Overshot
  <2>5. Leaving(y, m)'
    BY <1>1, <2>1, <2>3, <2>4, LeavingLess
  <2> QED BY <2>2, <2>5 DEF Leaving
<1>13. \A y \in Pruners' : Leaving(y, Cardinality(s[y]))'
  BY <1>2, <1>5, <1>6, <1>11, <1>12 DEF Leaving
<1>14. \A y \in Pruners' : /\ y \notin s[y] /\ creator'[y].count > MaxPerUser
                           /\ y \in since[c] => s[y] \subseteq since[c]
  <2> SUFFICES ASSUME NEW y \in Pruners'
               PROVE  /\ y \notin s[y] /\ creator'[y].count > MaxPerUser
                      /\ y \in since[c] => s[y] \subseteq since[c]
    OBVIOUS
  <2>1. y \in Pruners /\ y \in Creators /\ y # c /\ creator'[y] = creator[y]
    BY <1>1, <1>2
  <2>2. /\ y \notin since[y] /\ creator[y].count > MaxPerUser
        /\ c \in since[y] => since[c] \subseteq since[y]
        /\ y \in since[c] => since[y] \subseteq since[c]
    BY <1>2, <2>1 DEF Overshot
  <2> QED BY <1>3, <1>5, <2>1, <2>2
<1>15. ASSUME NEW x \in Pruners', NEW y \in Pruners', x \in s[y]
       PROVE  s[x] \subseteq s[y]
  <2>1. x \in Pruners /\ y \in Pruners /\ x \in Creators /\ y \in Creators
    BY <1>2
  <2>2. CASE c \in since[y]
    <3>1. s[y] = since[c]
      BY <1>5, <2>1, <2>2
    <3>2. x \in since[c]
      BY <1>15, <3>1
    <3>3. x \in Pruners'
      BY <1>15
    <3>4. x \in since[c] => s[x] \subseteq since[c]
      BY <1>14, <3>3
    <3>5. s[x] \subseteq since[c]
      BY <3>2, <3>4
    <3> QED BY <3>1, <3>5
  <2>3. CASE c \notin since[y]
    <3>1. since[x] \subseteq since[y]
      BY <1>5, <1>15, <2>1, <2>3 DEF Overshot
    <3> QED BY <1>5, <2>1, <2>3, <3>1
  <2> QED BY <2>2, <2>3
<1>16. \A x, y \in Pruners' : x \in s[y] => s[x] \subseteq s[y]
  BY <1>15
<1>17. PICK b : b = since[c]
  OBVIOUS
<1>18. (Cardinality(notes) <= MaxPerUser + Cardinality(b))'
  BY <1>6, <1>9, <1>17
<1>19. Overshot(b, s)'
  BY <1>4, <1>13, <1>14, <1>16, <1>17, <1>18 DEF Overshot
<1> QED BY <1>19

LEMMA OvershotNext == NotesInv /\ OvershootInv /\ [NotesNext]_notesVars => OvershootInv'
<1> SUFFICES ASSUME NotesInv, OvershootInv, [NotesNext]_notesVars PROVE OvershootInv'
  OBVIOUS
<1>1. CASE UNCHANGED notesVars \/ Expire \/ (\E w \in Sockets : Connect(w) \/ Greet(w) \/ GreetRaises(w) \/ Disconnect(w))
  BY <1>1, OvershotQuiet DEF notesVars, Expire, Connect, Greet, GreetRaises, Disconnect
<1>2. ASSUME NEW w \in Sockets, HangUp(w)
      PROVE  OvershootInv'
  <2>1. \A c \in Creators : /\ creator'[c].at = creator[c].at /\ creator'[c].count = creator[c].count
                            /\ creator'[c].ids = creator[c].ids
    BY <1>2, HangUpLeaves
  <2> QED BY <1>2, <2>1, OvershotQuiet DEF HangUp
<1>3. ASSUME NEW c \in Creators,
             \/ Create(c) \/ (\E w \in Sockets : Send(c, w)) \/ DropDead(c) \/ DeleteExpired(c)
      PROVE  OvershootInv'
  <2>1. notes' \subseteq notes /\ mishaps' = mishaps
    BY <1>3 DEF Create, Send, DropDead, DeleteExpired
  <2>2. \A d \in Creators \ {c} : creator'[d] = creator[d]
    BY <1>3, OthersStay
  <2>3. creator[c] \in Creations /\ creator \in [Creators -> Creations]
    BY DEF NotesInv, NotesTyped
  <2>4. creator[c].at \in {"idle", "send", "expire"}
             /\ creator'[c].at \in {"insert", "send", "expire", "count"}
             /\ (creator[c].at # "idle" => creator'[c].at # "insert")
    <3>1. CASE Create(c)
      BY <2>3, <3>1 DEF Create, NoCreation
    <3>2. ASSUME NEW w \in Sockets, Send(c, w)
          PROVE  creator[c].at = "send" /\ creator'[c].at = "send"
      BY <2>3, <3>2 DEF Send, Creations
    <3>3. CASE DropDead(c)
      BY <2>3, <3>3 DEF DropDead, Creations
    <3>4. CASE DeleteExpired(c)
      BY <2>3, <3>4 DEF DeleteExpired, NoCreation
    <3> QED BY <1>3, <3>1, <3>2, <3>3, <3>4
  <2> QED BY <2>1, <2>2, <2>4, OvershotQuiet
<1>4. ASSUME NEW c \in Creators, InsertNote(c) \/ CountNotes(c) \/ FindOldest(c) \/ DeleteFound(c)
      PROVE  OvershootInv'
  <2>1. mishaps' = mishaps
    BY <1>4 DEF InsertNote, CountNotes, FindOldest, DeleteFound
  <2>2. SUFFICES ASSUME mishaps = 0 PROVE \E b, s : Overshot(b, s)'
    BY <2>1 DEF OvershootInv
  <2>3. PICK base, since : Overshot(base, since)
    BY <2>2 DEF OvershootInv
  <2> QED BY <1>4, <2>3, OvershotInsert, OvershotCount, OvershotFind, OvershotDelete
<1>5. ASSUME NEW c \in Creators, CreationRaises(c)
      PROVE  OvershootInv'
  <2>1. mishaps' \in Nat /\ mishaps' # 0
    BY <1>5 DEF CreationRaises, OvershootInv
  <2> QED BY <2>1 DEF OvershootInv
<1> QED BY <1>1, <1>2, <1>3, <1>4, <1>5 DEF NotesNext

-----------------------------------------------------------------------------
\* Creations that overlap: how many notifications are left.

Inserting == Standing({"insert"})
\* Those that have inserted theirs and not yet deleted what is expired.
Upper     == Standing({"send", "expire"})

\* The weight of so many prunings, and that of all but one.
Weight(n) == Cardinality(Creators) * n
Room      == Cardinality(Creators) * (Cardinality(Creators) - 1)

\* What is expired and not yet deleted counts as one.
Elder(s, e) == {n \in s : n <= e}
Young(s, e) == {n \in s : n > e}
Worth(s, e) == Cardinality(Young(s, e)) + (IF Elder(s, e) = {} THEN 0 ELSE 1)

\* The unexpired that have been inserted, and those of them above m that are
\* gone.  Those to be inserted are not missed as long as few above them are.
Due     == {n \in 1 .. lastNote : n > expired} \ {creator[c].id : c \in Inserting}
Lost(m) == {n \in Due \ notes : n > m}
Small(m) == Cardinality(Lost(m)) + Weight(Cardinality(Pruners)) <= Room

\* What the prunings may still take: each of them its creators' number, or one
\* of them just what it has counted too many.
Debts == {Weight(Cardinality(Pruners))}
             \cup {creator[z].count - MaxPerUser + Weight(Cardinality(Pruners) - 1) : z \in Pruners}

\* Enough is left for the creations of R to be counted with.
Owing(R) == \E p \in Debts :
    Worth(notes, expired) + Room >= MaxPerUser + Cardinality(R) + p
Enough(R) ==
    /\ Upper \subseteq R /\ R \subseteq Upper \cup Inserting
    /\ Owing(R)
    /\ \A y \in Inserting \ R : Small(creator[y].id)

Named ==
    /\ notes \subseteq 1 .. lastNote
    /\ \A c \in Inserting : creator[c].id \in 1 .. lastNote /\ creator[c].id \notin notes
    /\ \A c, d \in Inserting : creator[c].id = creator[d].id => c = d
Takes(z) ==
    /\ creator[z].count > MaxPerUser
    /\ creator[z].count <= MaxPerUser + Cardinality(Creators)
    /\ creator[z].at = "delete" =>
          /\ IsFiniteSet(creator[z].ids)
          /\ Cardinality(creator[z].ids) <= creator[z].count - MaxPerUser
LateFew == Cardinality(Elder(notes, expired)) <= 1 + Cardinality(Upper)

LossHolds ==
    /\ Named /\ LateFew /\ \A z \in Pruners : Takes(z)
    /\ Small(0) \/ \E R : Enough(R)
LossInv == expired \in Nat /\ (mishaps = 0 => LossHolds)

LEMMA WeightIs ==
    /\ Cardinality(Creators) \in Nat /\ Room \in Nat
    /\ \A n \in Nat : /\ Weight(n) \in Nat /\ Weight(n + 1) = Weight(n) + Cardinality(Creators)
                      /\ n + 1 <= Cardinality(Creators) => Weight(n) <= Room
                      /\ \A q, u \in Nat : q + n + 1 <= Cardinality(Creators)
                                           /\ u + n + 1 <= Cardinality(Creators) =>
                                              q + u + Weight(n) <= Room
<1>1. PICK k : k = Cardinality(Creators)
  OBVIOUS
<1>2. k \in Nat
  BY <1>1, NotesAssumption, FS_CardinalityType
<1>3. k * (k - 1) \in Nat
  <2>1. CASE k = 0
    BY <2>1
  <2>2. CASE k # 0
    <3>1. k - 1 \in Nat
      BY <1>2, <2>2
    <3> QED BY <1>2, <3>1
  <2> QED BY <2>1, <2>2
<1>4. ASSUME NEW n \in Nat
      PROVE  k * n \in Nat /\ k * (n + 1) = k * n + k
  BY <1>2
<1>5. ASSUME NEW n \in Nat, NEW d \in Nat, n + 1 + d = k
      PROVE  k * (k - 1) = k * n + k * d /\ k * d \in Nat /\ k * d >= d /\ k * d >= 2 * d
  <2>1. k - 1 = n + d
    BY <1>2, <1>5
  <2>2. k * (n + d) = k * n + k * d
    BY <1>2
  <2>3. k * d \in Nat
    BY <1>2
  <2>4. k * d >= 2 * d
    <3>1. CASE d = 0
      BY <1>2, <3>1
    <3>2. CASE d # 0
      <4>1. PICK j \in Nat : k = 2 + j
        <5>1. k >= 2 /\ k - 2 \in Nat
          BY <1>2, <1>5, <3>2
        <5>2. k = 2 + (k - 2)
          BY <1>2
        <5> QED BY <5>1, <5>2
      <4>2. (2 + j) * d = 2 * d + j * d /\ j * d \in Nat
        OBVIOUS
      <4> QED BY <4>1, <4>2
    <3> QED BY <3>1, <3>2
  <2> QED BY <2>1, <2>2, <2>3, <2>4
<1>6. ASSUME NEW n \in Nat, n + 1 <= k
      PROVE  k * n <= k * (k - 1)
  <2>1. k - 1 - n \in Nat /\ n + 1 + (k - 1 - n) = k
    BY <1>2, <1>6
  <2> QED BY <1>3, <1>4, <1>5, <2>1
<1>7. ASSUME NEW n \in Nat, NEW q \in Nat, NEW u \in Nat, q + n + 1 <= k, u + n + 1 <= k
      PROVE  q + u + k * n <= k * (k - 1)
  <2>1. PICK d \in Nat : n + 1 + d = k
    <3>1. k - 1 - n \in Nat /\ n + 1 + (k - 1 - n) = k
      BY <1>2, <1>7
    <3> QED BY <3>1
  <2>2. q <= d /\ u <= d
    BY <1>2, <1>7, <2>1
  <2>3. k * (k - 1) = k * n + k * d /\ k * d >= 2 * d /\ k * n \in Nat /\ k * d \in Nat
    BY <1>4, <1>5, <2>1
  <2>4. PICK a, b : a = k * n /\ b = k * d
    OBVIOUS
  <2>5. q + u + a <= a + b
    BY <2>2, <2>3, <2>4
  <2> QED BY <2>3, <2>4, <2>5
<1> QED BY <1>1, <1>2, <1>3, <1>4, <1>6, <1>7 DEF Weight, Room

\* The expired and the others.
LEMMA Aged ==
    ASSUME NEW s, IsFiniteSet(s), s \subseteq Nat, NEW e \in Nat
    PROVE  /\ IsFiniteSet(Elder(s, e)) /\ IsFiniteSet(Young(s, e))
           /\ Cardinality(Elder(s, e)) \in Nat /\ Cardinality(Young(s, e)) \in Nat
           /\ Cardinality(s) = Cardinality(Young(s, e)) + Cardinality(Elder(s, e))
           /\ Worth(s, e) \in Nat /\ Worth(s, e) <= Cardinality(s)
<1>1. PICK f, o : f = Young(s, e) /\ o = Elder(s, e)
  OBVIOUS
<1>2. f \in SUBSET s /\ o \in SUBSET s
  BY <1>1 DEF Young, Elder
<1>3. IsFiniteSet(f) /\ IsFiniteSet(o) /\ Cardinality(f) \in Nat /\ Cardinality(o) \in Nat
  BY <1>2, SmallerSet
<1>4. s = f \cup o /\ f \cap o = {}
  <2>1. \A n \in s : n > e <=> ~ (n <= e)
    OBVIOUS
  <2> QED BY <1>1, <2>1 DEF Young, Elder
<1>5. Cardinality(f \cup o) = Cardinality(f) + Cardinality(o) - Cardinality(f \cap o)
  BY <1>3, FS_Union
<1>6. Cardinality(s) = Cardinality(f) + Cardinality(o)
  BY <1>3, <1>4, <1>5, FS_EmptySet
<1>7. o # {} => Cardinality(o) >= 1
  BY <1>3, FS_EmptySet
<1>8. PICK w : w = IF o = {} THEN 0 ELSE 1
  OBVIOUS
<1>9. w \in Nat /\ w <= Cardinality(o)
  BY <1>3, <1>7, <1>8
<1>10. Worth(s, e) = Cardinality(f) + w
  BY <1>1, <1>8 DEF Worth
<1> QED BY <1>1, <1>3, <1>6, <1>9, <1>10

\* One more.
LEMMA WorthInserted ==
    ASSUME NEW s, IsFiniteSet(s), s \subseteq Nat, NEW e \in Nat, NEW i \in Nat, i \notin s
    PROVE  /\ Worth(s \cup {i}, e) >= Worth(s, e)
           /\ i > e => Worth(s \cup {i}, e) = Worth(s, e) + 1
           /\ Cardinality(Elder(s \cup {i}, e)) <= Cardinality(Elder(s, e)) + 1
<1>1. PICK f, o : f = Young(s, e) /\ o = Elder(s, e)
  OBVIOUS
<1>2. /\ IsFiniteSet(f) /\ IsFiniteSet(o) /\ i \notin f /\ i \notin o
      /\ Cardinality(f) \in Nat /\ Cardinality(o) \in Nat
  BY <1>1, Aged DEF Young, Elder
<1>3. CASE i > e
  <2>1. Young(s \cup {i}, e) = f \cup {i} /\ Elder(s \cup {i}, e) = o
    BY <1>1, <1>3 DEF Young, Elder
  <2>2. Cardinality(f \cup {i}) = Cardinality(f) + 1
    BY <1>2, OneMore
  <2>3. PICK w : w = IF o = {} THEN 0 ELSE 1
    OBVIOUS
  <2>4. Worth(s \cup {i}, e) = (Cardinality(f) + 1) + w /\ Worth(s, e) = Cardinality(f) + w /\ w \in Nat
    BY <1>1, <2>1, <2>2, <2>3 DEF Worth
  <2> QED BY <1>1, <1>2, <2>1, <2>4
<1>4. CASE ~ (i > e)
  <2>1. i <= e
    BY <1>4
  <2>2. Young(s \cup {i}, e) = f /\ Elder(s \cup {i}, e) = o \cup {i}
    BY <1>1, <1>4, <2>1 DEF Young, Elder
  <2>3. Cardinality(o \cup {i}) = Cardinality(o) + 1
    BY <1>2, OneMore
  <2>4. PICK w : w = IF o = {} THEN 0 ELSE 1
    OBVIOUS
  <2>5. Worth(s \cup {i}, e) = Cardinality(f) + 1 /\ Worth(s, e) = Cardinality(f) + w
    BY <1>1, <2>2, <2>4 DEF Worth
  <2>6. w \in Nat /\ w <= 1
    BY <2>4
  <2> QED BY <1>1, <1>2, <1>4, <2>2, <2>3, <2>5, <2>6
<1> QED BY <1>3, <1>4

\* Without the expired.
LEMMA WorthCleared ==
    ASSUME NEW s, IsFiniteSet(s), s \subseteq Nat \ {0}, NEW e \in Nat
    PROVE  Worth(s \ (1 .. e), e) + 1 >= Worth(s, e) /\ Elder(s \ (1 .. e), e) = {}
<1>1. PICK f : f = Young(s, e)
  OBVIOUS
<1>2. Cardinality(f) \in Nat
  BY <1>1, Aged
<1>3. Young(s \ (1 .. e), e) = f /\ Elder(s \ (1 .. e), e) = {}
  <2>1. \A n \in s : (n > e => n \notin 1 .. e) /\ (n <= e => n \in 1 .. e)
    OBVIOUS
  <2> QED BY <1>1, <2>1 DEF Young, Elder
<1>4. PICK w : w = IF Elder(s, e) = {} THEN 0 ELSE 1
  OBVIOUS
<1>5. Worth(s \ (1 .. e), e) = Cardinality(f) + 0 /\ Worth(s, e) = Cardinality(f) + w
  BY <1>1, <1>3, <1>4 DEF Worth
<1>6. w \in Nat /\ w <= 1
  BY <1>4
<1> QED BY <1>2, <1>3, <1>5, <1>6

\* Without what a creation has found.
LEMMA WorthTaken ==
    ASSUME NEW s, IsFiniteSet(s), s \subseteq Nat, NEW e \in Nat, NEW t, IsFiniteSet(t)
    PROVE  /\ Worth(s \ t, e) + Cardinality(t) >= Worth(s, e)
           /\ Cardinality(Elder(s \ t, e)) <= Cardinality(Elder(s, e))
<1>1. PICK f, o : f = Young(s, e) /\ o = Elder(s, e)
  OBVIOUS
<1>2. Young(s \ t, e) = f \ t /\ Elder(s \ t, e) = o \ t
  BY <1>1 DEF Young, Elder
<1>3. /\ IsFiniteSet(f) /\ IsFiniteSet(o) /\ Cardinality(f) \in Nat /\ Cardinality(o) \in Nat
      /\ Cardinality(t) \in Nat
  BY <1>1, Aged, FS_CardinalityType
<1>4. f \cap o = {}
  <2>1. \A n \in s : n > e => ~ (n <= e)
    OBVIOUS
  <2> QED BY <1>1, <2>1 DEF Young, Elder
<1>5. f \cap t \in SUBSET t /\ o \ t \in SUBSET o
  OBVIOUS
<1>6. /\ Cardinality(f \cap t) \in Nat /\ Cardinality(f \cap t) <= Cardinality(t)
      /\ Cardinality(o \ t) <= Cardinality(o)
  BY <1>3, <1>5, SmallerSet
<1>7. Cardinality(f \ t) = Cardinality(f) - Cardinality(f \cap t)
  BY <1>3, FS_Difference
<1>8. o # {} /\ o \ t = {} => Cardinality(f \cap t) + 1 <= Cardinality(t)
  <2>1. SUFFICES ASSUME NEW x \in o, x \in t
                 PROVE  Cardinality(f \cap t) + 1 <= Cardinality(t)
    OBVIOUS
  <2>2. x \notin f \cap t /\ (f \cap t) \cup {x} \in SUBSET t
    BY <1>4, <2>1
  <2>3. IsFiniteSet(f \cap t)
    BY <1>3, <1>5, SmallerSet
  <2>4. PICK g : g = f \cap t
    OBVIOUS
  <2>5. Cardinality(g \cup {x}) = Cardinality(g) + 1
    BY <2>2, <2>3, <2>4, OneMore
  <2>6. Cardinality(g \cup {x}) <= Cardinality(t)
    BY <1>3, <2>2, <2>4, SmallerSet
  <2> QED BY <2>4, <2>5, <2>6
<1>9. PICK v, w : v = (IF o = {} THEN 0 ELSE 1) /\ w = (IF o \ t = {} THEN 0 ELSE 1)
  OBVIOUS
<1>10. Worth(s, e) = Cardinality(f) + v /\ Worth(s \ t, e) = Cardinality(f \ t) + w
  BY <1>1, <1>2, <1>9 DEF Worth
<1>11. v \in Nat /\ w \in Nat /\ Cardinality(f \cap t) + v <= Cardinality(t) + w
  <2>1. CASE o = {} \/ o \ t # {}
    BY <1>3, <1>6, <1>9, <2>1
  <2>2. CASE o # {} /\ o \ t = {}
    BY <1>3, <1>6, <1>8, <1>9, <2>2
  <2> QED BY <2>1, <2>2
<1>12. Worth(s \ t, e) + Cardinality(t) >= Worth(s, e)
  BY <1>3, <1>6, <1>7, <1>10, <1>11
<1> QED BY <1>1, <1>2, <1>6, <1>12

\* The oldest expires.
LEMMA WorthExpires ==
    ASSUME NEW s, IsFiniteSet(s), s \subseteq Nat, NEW e \in Nat, NEW x \in s, e < x,
           \A y \in s : x <= y
    PROVE  Worth(s, x) = Worth(s, e) /\ Cardinality(Elder(s, x)) = 1
<1>1. PICK f : f = Young(s, x)
  OBVIOUS
<1>2. \A n \in s : (n > e) /\ ~ (n <= e) /\ (n > x <=> n # x) /\ (n <= x <=> n = x)
  <2> SUFFICES ASSUME NEW n \in s
               PROVE  (n > e) /\ ~ (n <= e) /\ (n > x <=> n # x) /\ (n <= x <=> n = x)
    OBVIOUS
  <2>1. n \in Nat /\ x \in Nat /\ x <= n
    OBVIOUS
  <2> QED BY <2>1
<1>3. Young(s, e) = f \cup {x} /\ x \notin f
  BY <1>1, <1>2 DEF Young
<1>7. Elder(s, e) = {} /\ Elder(s, x) = {x}
  BY <1>2 DEF Elder
<1>4. IsFiniteSet(f) /\ Cardinality(f) \in Nat
  BY <1>1, Aged
<1>5. Cardinality(f \cup {x}) = Cardinality(f) + 1
  BY <1>3, <1>4, OneMore
<1>6. Cardinality({x}) = 1
  BY FS_Singleton
<1>8. Worth(s, e) = Cardinality(f \cup {x}) + 0 /\ Worth(s, x) = Cardinality(f) + 1
  BY <1>1, <1>3, <1>7 DEF Worth
<1> QED BY <1>4, <1>5, <1>6, <1>7, <1>8

LEMMA LostFinite ==
    ASSUME NEW m, lastNote \in Nat
    PROVE  IsFiniteSet(Lost(m)) /\ Cardinality(Lost(m)) \in Nat
<1>1. Lost(m) \in SUBSET (1 .. lastNote)
  BY DEF Lost, Due
<1>2. IsFiniteSet(1 .. lastNote)
  BY FS_Interval
<1> QED BY <1>1, <1>2, SmallerSet

\* No more is lost, and as many prune.
LEMMA SmallStays ==
    ASSUME NEW m, lastNote \in Nat, Small(m), Lost(m)' \subseteq Lost(m), Pruners' = Pruners
    PROVE  Small(m)'
<1>1. PICK l, k : l = Lost(m) /\ k = Lost(m)'
  OBVIOUS
<1>2. IsFiniteSet(l) /\ k \in SUBSET l
  BY <1>1, LostFinite
<1>3. Cardinality(k) <= Cardinality(l) /\ Cardinality(k) \in Nat /\ Cardinality(l) \in Nat
  BY <1>2, SmallerSet
<1>4. Pruners \in SUBSET Creators
  BY DEF Pruners, Standing
<1>5. Cardinality(Pruners) \in Nat
  BY <1>4, CreatorSets
<1>6. Weight(Cardinality(Pruners)) \in Nat /\ Room \in Nat
  BY <1>5, WeightIs
<1>7. Cardinality(l) + Weight(Cardinality(Pruners)) <= Room
  BY <1>1 DEF Small
<1>8. Cardinality(k) + Weight(Cardinality(Pruners)) <= Room
  BY <1>3, <1>6, <1>7
<1>9. Weight(Cardinality(Pruners))' = Weight(Cardinality(Pruners)) /\ Room' = Room
  BY DEF Weight, Room
<1>10. Cardinality(Lost(m)') + Weight(Cardinality(Pruners))' <= Room'
  BY <1>1, <1>8, <1>9
<1> QED BY <1>10 DEF Small

LEMMA DebtsSame ==
    ASSUME Pruners' = Pruners, \A z \in Pruners : creator'[z].count = creator[z].count
    PROVE  Debts' = Debts
BY DEF Debts, Weight

LEMMA DebtsAre ==
    ASSUME NotesInv, \A z \in Pruners : Takes(z)
    PROVE  Debts \subseteq Nat
<1>1. Pruners \in SUBSET Creators
  BY DEF Pruners, Standing
<1>2. Cardinality(Pruners) \in Nat /\ IsFiniteSet(Pruners)
  BY <1>1, CreatorSets
<1>3. Weight(Cardinality(Pruners)) \in Nat
  BY <1>2, WeightIs
<1>4. ASSUME NEW z \in Pruners
      PROVE  creator[z].count - MaxPerUser + Weight(Cardinality(Pruners) - 1) \in Nat
  <2>1. creator[z].count \in Nat /\ creator[z].count > MaxPerUser /\ MaxPerUser \in Nat
    BY <1>1, <1>4, NotesAssumption DEF Takes, NotesInv, NotesTyped, Creations
  <2>2. Cardinality(Pruners) # 0
    BY <1>2, <1>4, FS_EmptySet
  <2>3. Cardinality(Pruners) - 1 \in Nat
    BY <1>2, <2>2
  <2>4. Weight(Cardinality(Pruners) - 1) \in Nat
    BY <2>3, WeightIs
  <2> QED BY <2>1, <2>4
<1> QED BY <1>3, <1>4 DEF Debts

\* A step after which the same creations prune, and that loses nothing.
LEMMA LossMoves ==
    ASSUME NotesInv, LossHolds, Named', LateFew', \A z \in Pruners : Takes(z)',
           Pruners' = Pruners, \A z \in Pruners : creator'[z].count = creator[z].count,
           \A m \in Nat : Lost(m)' \subseteq Lost(m),
           Worth(notes, expired)' \in Nat, Worth(notes, expired) \in Nat,
           \A R \in SUBSET Creators : Enough(R) =>
               \/ Small(0)
               \/ \E T \in SUBSET Creators :
                     /\ Upper' \subseteq T /\ T \subseteq Upper' \cup Inserting'
                     /\ Worth(notes, expired)' + Cardinality(R)
                            >= Worth(notes, expired) + Cardinality(T)
                     /\ \A y \in Inserting' \ T :
                           \/ Small(creator[y].id)'
                           \/ /\ y \in Inserting \ R /\ creator'[y].id = creator[y].id
                              /\ creator[y].id \in Nat
    PROVE  LossHolds'
<1>1. lastNote \in Nat /\ MaxPerUser \in Nat
  BY NotesAssumption DEF NotesInv, NotesTyped
<1>2. ASSUME NEW m \in Nat, Small(m)
      PROVE  Small(m)'
  BY <1>1, <1>2, SmallStays
<1>3. CASE Small(0)
  BY <1>2, <1>3 DEF LossHolds
<1>4. CASE ~ Small(0)
  <2>1. PICK R : Enough(R)
    BY <1>4 DEF LossHolds
  <2>2. R \in SUBSET Creators
    BY <2>1 DEF Enough, Upper, Inserting, Standing
  <2>3. PICK T \in SUBSET Creators :
            /\ Upper' \subseteq T /\ T \subseteq Upper' \cup Inserting'
            /\ Worth(notes, expired)' + Cardinality(R) >= Worth(notes, expired) + Cardinality(T)
            /\ \A y \in Inserting' \ T :
                  \/ Small(creator[y].id)'
                  \/ /\ y \in Inserting \ R /\ creator'[y].id = creator[y].id
                     /\ creator[y].id \in Nat
    BY <1>4, <2>1, <2>2
  <2>4. ASSUME NEW y \in Inserting' \ T
        PROVE  Small(creator[y].id)'
    <3>1. CASE y \in Inserting \ R /\ creator'[y].id = creator[y].id /\ creator[y].id \in Nat
      <4>1. PICK m : m = creator[y].id
        OBVIOUS
      <4>2. m \in Nat /\ Small(m) /\ m = creator'[y].id
        BY <2>1, <3>1, <4>1 DEF Enough
      <4>3. Small(m)'
        BY <1>2, <4>2
      <4> QED BY <4>2, <4>3 DEF Small, Lost
    <3> QED BY <2>3, <3>1
  <2>5. Owing(T)'
    <3>1. PICK p \in Debts : Worth(notes, expired) + Room >= MaxPerUser + Cardinality(R) + p
      BY <2>1 DEF Enough, Owing
    <3>2. Debts' = Debts /\ Room' = Room
      BY DebtsSame DEF Room
    <3>3. p \in Nat
      BY DebtsAre DEF LossHolds
    <3>4. Room \in Nat /\ Cardinality(R) \in Nat /\ Cardinality(T) \in Nat
      BY <2>2, WeightIs, CreatorSets
    <3>5. PICK w, v : w = Worth(notes, expired) /\ v = Worth(notes, expired)'
      OBVIOUS
    <3>6. v + Room >= MaxPerUser + Cardinality(T) + p
      BY <1>1, <2>3, <3>1, <3>3, <3>4, <3>5
    <3> QED BY <3>1, <3>2, <3>5, <3>6 DEF Owing
  <2>6. Enough(T)'
    BY <2>3, <2>4, <2>5 DEF Enough
  <2> QED BY <2>6 DEF LossHolds
<1> QED BY <1>3, <1>4

LEMMA WorthIs ==
    ASSUME NotesInv, expired \in Nat
    PROVE  /\ Worth(notes, expired) \in Nat /\ IsFiniteSet(notes) /\ notes \subseteq Nat
           /\ lastNote \in Nat
BY Aged DEF NotesInv, NotesTyped

\* Steps that change neither the notifications nor what is counted here.
LEMMA LossQuiet ==
    ASSUME NotesInv, LossHolds, expired \in Nat, UNCHANGED <<notes, lastNote, expired>>,
           Inserting' = Inserting, Upper' = Upper, Pruners' = Pruners,
           \A y \in Inserting : creator'[y].id = creator[y].id,
           \A z \in Pruners : creator'[z].count = creator[z].count,
           \A z \in Pruners : Takes(z)'
    PROVE  LossHolds'
<1>1. Named' /\ LateFew'
  BY DEF LossHolds, Named, LateFew
<1>2. \A m \in Nat : Lost(m)' \subseteq Lost(m)
  BY DEF Lost, Due
<1>3. Worth(notes, expired)' = Worth(notes, expired) /\ Worth(notes, expired) \in Nat
  BY WorthIs DEF Worth, Young, Elder
<1>4. ASSUME NEW R \in SUBSET Creators, Enough(R)
      PROVE  /\ Upper' \subseteq R /\ R \subseteq Upper' \cup Inserting'
             /\ Worth(notes, expired)' + Cardinality(R) >= Worth(notes, expired) + Cardinality(R)
             /\ \A y \in Inserting' \ R : /\ y \in Inserting \ R /\ creator'[y].id = creator[y].id
                                          /\ creator[y].id \in Nat
  <2>1. Cardinality(R) \in Nat
    BY CreatorSets
  <2>2. \A y \in Inserting : creator[y].id \in Nat
    BY DEF LossHolds, Named
  <2>3. Worth(notes, expired)' + Cardinality(R) >= Worth(notes, expired) + Cardinality(R)
    BY <1>3, <2>1
  <2> QED BY <1>4, <2>2, <2>3 DEF Enough
<1> QED BY <1>1, <1>2, <1>3, <1>4, LossMoves

LEMMA LossCreate ==
    ASSUME NotesInv, LossHolds, expired \in Nat, NEW c \in Creators, Create(c)
    PROVE  LossHolds'
<1>1. /\ creator[c].at = "idle" /\ creator'[c].at = "insert" /\ creator'[c].id = lastNote + 1
      /\ lastNote' = lastNote + 1 /\ UNCHANGED <<notes, expired>>
      /\ \A d \in Creators \ {c} : creator'[d] = creator[d]
  BY OthersStay DEF Create, NoCreation, NotesInv, NotesTyped
<1>2. /\ Inserting' = Inserting \cup {c} /\ Upper' = Upper /\ Pruners' = Pruners
      /\ c \notin Inserting \cup Upper \cup Pruners
      /\ Inserting \subseteq Creators /\ Pruners \subseteq Creators
  BY <1>1 DEF Inserting, Upper, Pruners, Standing
<1>3. /\ lastNote \in Nat /\ notes \subseteq 1 .. lastNote
      /\ \A d \in Inserting : creator[d].id \in 1 .. lastNote /\ creator[d].id \notin notes
      /\ \A d, f \in Inserting : creator[d].id = creator[f].id => d = f
  BY WorthIs DEF LossHolds, Named
<1>4. PICK last : last = lastNote + 1
  OBVIOUS
<1>5. last \notin 1 .. lastNote /\ last \in 1 .. last /\ 1 .. lastNote \subseteq 1 .. last
      /\ 1 .. last = 1 .. lastNote \cup {last}
  BY <1>3, <1>4
<1>6. \A d \in Inserting : d # c /\ creator'[d] = creator[d]
  BY <1>1, <1>2
<1>7. Named'
  <2>1. (notes \subseteq 1 .. lastNote)'
    BY <1>1, <1>3, <1>4, <1>5
  <2>2. \A d \in Inserting' : creator'[d].id \in 1 .. last /\ creator'[d].id \notin notes
    BY <1>1, <1>2, <1>3, <1>4, <1>5, <1>6
  <2>3. \A d, f \in Inserting' : creator'[d].id = creator'[f].id => d = f
    BY <1>1, <1>2, <1>3, <1>4, <1>5, <1>6
  <2> QED BY <1>1, <1>4, <2>1, <2>2, <2>3 DEF Named
<1>8. LateFew' /\ \A z \in Pruners : creator'[z].count = creator[z].count /\ Takes(z)'
  BY <1>1, <1>2 DEF LossHolds, LateFew, Takes
<1>9. Due' = Due
  <2>1. {creator'[d].id : d \in Inserting'} = {creator[d].id : d \in Inserting} \cup {last}
    BY <1>1, <1>2, <1>4, <1>6
  <2>2. {n \in 1 .. last : n > expired} \ {last} = {n \in 1 .. lastNote : n > expired}
    BY <1>5
  <2>3. Due' = {n \in 1 .. last : n > expired} \ {creator'[d].id : d \in Inserting'}
    BY <1>1, <1>4 DEF Due
  <2>4. Due = {n \in 1 .. lastNote : n > expired} \ {creator[d].id : d \in Inserting}
    BY DEF Due
  <2> QED BY <2>1, <2>2, <2>3, <2>4
<1>10. \A m \in Nat : Lost(m)' \subseteq Lost(m)
  BY <1>1, <1>9 DEF Lost
<1>11. Worth(notes, expired)' = Worth(notes, expired) /\ Worth(notes, expired) \in Nat
  BY <1>1, WorthIs DEF Worth, Young, Elder
<1>12. Small(creator[c].id)'
  <2>1. Lost(last)' = {}
    <3>1. \A n \in 1 .. last : ~ (n > last)
      BY <1>3, <1>4
    <3> QED BY <1>1, <1>4, <3>1 DEF Lost, Due
  <2>2. Cardinality(Lost(last)') = 0
    BY <2>1, FS_EmptySet
  <2>3. Cardinality(Pruners) \in Nat /\ Cardinality(Pruners) + 1 <= Cardinality(Creators)
    <3>1. Cardinality(Pruners \cup {c}) = Cardinality(Pruners) + 1 /\ Cardinality(Pruners) \in Nat
      BY <1>2, CreatorSets, OneMore
    <3>2. Cardinality(Pruners \cup {c}) <= Cardinality(Creators)
      BY <1>2, CreatorSets
    <3> QED BY <3>1, <3>2
  <2>4. Weight(Cardinality(Pruners)) <= Room /\ Weight(Cardinality(Pruners)) \in Nat /\ Room \in Nat
    BY <2>3, WeightIs
  <2>5. Weight(Cardinality(Pruners))' = Weight(Cardinality(Pruners)) /\ Room' = Room
    BY <1>2 DEF Weight, Room
  <2>6. Cardinality(Lost(last)') + Weight(Cardinality(Pruners))' <= Room'
    BY <2>2, <2>4, <2>5
  <2>7. Small(last)'
    BY <2>6 DEF Small
  <2> QED BY <1>1, <1>4, <2>7 DEF Small, Lost
<1>13. ASSUME NEW R \in SUBSET Creators, Enough(R)
       PROVE  /\ Upper' \subseteq R /\ R \subseteq Upper' \cup Inserting'
              /\ Worth(notes, expired)' + Cardinality(R) >= Worth(notes, expired) + Cardinality(R)
              /\ \A y \in Inserting' \ R :
                    \/ Small(creator[y].id)'
                    \/ /\ y \in Inserting \ R /\ creator'[y].id = creator[y].id
                       /\ creator[y].id \in Nat
  <2>1. Upper' \subseteq R /\ R \subseteq Upper' \cup Inserting'
    BY <1>2, <1>13 DEF Enough
  <2>2. Cardinality(R) \in Nat
    BY CreatorSets
  <2>3. Worth(notes, expired)' + Cardinality(R) >= Worth(notes, expired) + Cardinality(R)
    BY <1>11, <2>2
  <2>4. ASSUME NEW y \in Inserting' \ R, y # c
        PROVE  /\ y \in Inserting \ R /\ creator'[y].id = creator[y].id
               /\ creator[y].id \in Nat
    BY <1>2, <1>3, <1>6, <2>4
  <2> QED BY <1>12, <2>1, <2>3, <2>4
<1> QED BY <1>2, <1>7, <1>8, <1>10, <1>11, <1>13, LossMoves

LEMMA LossInsert ==
    ASSUME NotesInv, LossHolds, expired \in Nat, NEW c \in Creators, InsertNote(c)
    PROVE  LossHolds'
<1>1. /\ creator[c].at = "insert" /\ creator'[c].at = "send" /\ notes' = notes \cup {creator[c].id}
      /\ UNCHANGED <<lastNote, expired>>
      /\ \A d \in Creators \ {c} : creator'[d] = creator[d]
  BY OthersStay DEF InsertNote, NotesInv, NotesTyped, Creations
<1>2. /\ Inserting' = Inserting \ {c} /\ Upper' = Upper \cup {c} /\ Pruners' = Pruners
      /\ c \in Inserting /\ c \notin Upper \cup Pruners
      /\ Inserting \subseteq Creators /\ Pruners \subseteq Creators /\ Upper \subseteq Creators
  BY <1>1 DEF Inserting, Upper, Pruners, Standing
<1>3. /\ lastNote \in Nat /\ notes \subseteq 1 .. lastNote
      /\ \A d \in Inserting : creator[d].id \in 1 .. lastNote /\ creator[d].id \notin notes
      /\ \A d, f \in Inserting : creator[d].id = creator[f].id => d = f
      /\ IsFiniteSet(notes) /\ notes \subseteq Nat
  BY WorthIs DEF LossHolds, Named
<1>4. PICK i : i = creator[c].id
  OBVIOUS
<1>5. i \in 1 .. lastNote /\ i \notin notes /\ i \in Nat /\ notes' = notes \cup {i}
  BY <1>1, <1>2, <1>3, <1>4
<1>6. \A d \in Inserting' : d \in Inserting /\ creator'[d] = creator[d] /\ creator[d].id # i
  BY <1>1, <1>2, <1>3, <1>4
<1>7. Named'
  <2>1. (notes \subseteq 1 .. lastNote)'
    BY <1>1, <1>3, <1>5
  <2>2. \A d \in Inserting' : creator'[d].id \in 1 .. lastNote /\ creator'[d].id \notin notes'
    BY <1>3, <1>5, <1>6
  <2>3. \A d, f \in Inserting' : creator'[d].id = creator'[f].id => d = f
    BY <1>3, <1>6
  <2> QED BY <1>1, <2>1, <2>2, <2>3 DEF Named
<1>8. /\ Worth(notes', expired) >= Worth(notes, expired)
      /\ i > expired => Worth(notes', expired) = Worth(notes, expired) + 1
      /\ Cardinality(Elder(notes', expired)) <= Cardinality(Elder(notes, expired)) + 1
  BY <1>3, <1>5, WorthInserted
<1>9. Worth(notes, expired)' = Worth(notes', expired) /\ Elder(notes, expired)' = Elder(notes', expired)
  BY <1>1 DEF Worth, Young, Elder
<1>10. /\ Worth(notes, expired) \in Nat /\ Worth(notes', expired) \in Nat
       /\ Cardinality(Elder(notes, expired)) \in Nat /\ Cardinality(Elder(notes', expired)) \in Nat
  <2>1. IsFiniteSet(notes') /\ notes' \subseteq Nat
    BY <1>3, <1>5, OneMore
  <2> QED BY <1>3, <2>1, Aged
<1>11. LateFew'
  <2>1. Cardinality(Upper \cup {c}) = Cardinality(Upper) + 1 /\ Cardinality(Upper) \in Nat
    BY <1>2, CreatorSets, OneMore
  <2>2. Cardinality(Elder(notes, expired)) <= 1 + Cardinality(Upper)
    BY DEF LossHolds, LateFew
  <2>3. Cardinality(Elder(notes', expired)) <= 1 + Cardinality(Upper \cup {c})
    BY <1>8, <1>10, <2>1, <2>2
  <2> QED BY <1>2, <1>9, <2>3 DEF LateFew
<1>12. \A z \in Pruners : creator'[z].count = creator[z].count /\ Takes(z)'
  BY <1>1, <1>2 DEF LossHolds, Takes
<1>13. Due' \subseteq Due \cup {i}
  BY <1>1, <1>2, <1>4 DEF Due
<1>14. \A m \in Nat : Lost(m)' \subseteq Lost(m)
  BY <1>5, <1>13 DEF Lost
<1>15. ASSUME NEW R \in SUBSET Creators, Enough(R)
       PROVE  \/ Small(0)
              \/ \E T \in SUBSET Creators :
                    /\ Upper' \subseteq T /\ T \subseteq Upper' \cup Inserting'
                    /\ Worth(notes, expired)' + Cardinality(R)
                           >= Worth(notes, expired) + Cardinality(T)
                    /\ \A y \in Inserting' \ T :
                          \/ Small(creator[y].id)'
                          \/ /\ y \in Inserting \ R /\ creator'[y].id = creator[y].id
                             /\ creator[y].id \in Nat
  <2>1. Upper \subseteq R /\ R \subseteq Upper \cup Inserting /\ Cardinality(R) \in Nat
    BY <1>15, CreatorSets DEF Enough
  <2>2. CASE c \in R
    <3>1. Upper' \subseteq R /\ R \subseteq Upper' \cup Inserting'
      BY <1>2, <2>1, <2>2
    <3>2. Worth(notes, expired)' + Cardinality(R) >= Worth(notes, expired) + Cardinality(R)
      BY <1>8, <1>9, <1>10, <2>1
    <3>3. \A y \in Inserting' \ R : /\ y \in Inserting \ R /\ creator'[y].id = creator[y].id
                                    /\ creator[y].id \in Nat
      BY <1>3, <1>6
    <3> QED BY <3>1, <3>2, <3>3
  <2>3. CASE c \notin R /\ i > expired
    <3>1. PICK T \in SUBSET Creators : T = R \cup {c}
      OBVIOUS
    <3>2. Upper' \subseteq T /\ T \subseteq Upper' \cup Inserting'
      BY <1>2, <2>1, <3>1
    <3>3. Cardinality(T) = Cardinality(R) + 1
      BY <2>3, <3>1, CreatorSets, OneMore
    <3>4. Worth(notes, expired)' + Cardinality(R) >= Worth(notes, expired) + Cardinality(T)
      BY <1>8, <1>9, <1>10, <2>1, <2>3, <3>3
    <3>5. \A y \in Inserting' \ T : /\ y \in Inserting \ R /\ creator'[y].id = creator[y].id
                                    /\ creator[y].id \in Nat
      BY <1>3, <1>6, <3>1
    <3> QED BY <3>2, <3>4, <3>5
  <2>4. CASE c \notin R /\ ~ (i > expired)
    <3>1. Small(i)
      BY <1>2, <1>4, <1>15, <2>4 DEF Enough
    <3>2. \A n \in 1 .. lastNote : n > expired => n > i /\ n > 0
      BY <1>5, <2>4
    <3>3. Lost(i) = Lost(0)
      BY <3>2 DEF Lost, Due
    <3> QED BY <3>1, <3>3 DEF Small
  <2> QED BY <2>2, <2>3, <2>4
<1> QED BY <1>2, <1>7, <1>9, <1>10, <1>11, <1>12, <1>14, <1>15, LossMoves

LEMMA LossCleared ==
    ASSUME NotesInv, LossHolds, expired \in Nat, NEW c \in Creators, DeleteExpired(c)
    PROVE  LossHolds'
<1>1. /\ creator[c].at = "expire" /\ creator'[c].at = "count" /\ notes' = notes \ (1 .. expired)
      /\ UNCHANGED <<lastNote, expired>>
      /\ \A d \in Creators \ {c} : creator'[d] = creator[d]
  BY OthersStay DEF DeleteExpired, NoCreation, NotesInv, NotesTyped
<1>2. /\ Inserting' = Inserting /\ Upper' = Upper \ {c} /\ Pruners' = Pruners
      /\ c \in Upper /\ c \notin Inserting \cup Pruners
      /\ Inserting \subseteq Creators /\ Pruners \subseteq Creators /\ Upper \subseteq Creators
  BY <1>1 DEF Inserting, Upper, Pruners, Standing
<1>3. /\ lastNote \in Nat /\ notes \subseteq 1 .. lastNote /\ notes' \subseteq notes
      /\ \A d \in Inserting : /\ creator[d].id \in 1 .. lastNote /\ creator[d].id \notin notes
                              /\ creator'[d] = creator[d]
      /\ IsFiniteSet(notes) /\ notes \subseteq Nat
  BY <1>1, <1>2, WorthIs DEF LossHolds, Named
<1>4. Named'
  BY <1>1, <1>2, <1>3 DEF LossHolds, Named
<1>5. /\ Worth(notes', expired) + 1 >= Worth(notes, expired) /\ Elder(notes', expired) = {}
      /\ Worth(notes', expired) \in Nat /\ Worth(notes, expired) \in Nat
  <2>1. notes \subseteq Nat \ {0}
    BY <1>3
  <2>2. notes' \in SUBSET notes
    BY <1>3
  <2>3. IsFiniteSet(notes') /\ notes' \subseteq Nat
    BY <1>3, <2>2, SmallerSet
  <2>4. Worth(notes', expired) \in Nat /\ Worth(notes, expired) \in Nat
    BY <1>3, <2>3, Aged
  <2> QED BY <1>1, <1>3, <2>1, <2>4, WorthCleared
<1>6. Worth(notes, expired)' = Worth(notes', expired) /\ Elder(notes, expired)' = {}
  BY <1>1, <1>5 DEF Worth, Young, Elder
<1>7. LateFew'
  <2>1. Upper' \in SUBSET Creators
    BY <1>2
  <2>2. Cardinality(Upper') \in Nat
    BY <2>1, CreatorSets
  <2>3. Cardinality(Elder(notes, expired)') = 0
    BY <1>6, FS_EmptySet
  <2> QED BY <2>2, <2>3 DEF LateFew
<1>8. \A z \in Pruners : creator'[z].count = creator[z].count /\ Takes(z)'
  BY <1>1, <1>2 DEF LossHolds, Takes
<1>9. Due' = Due
  BY <1>1, <1>2, <1>3 DEF Due
<1>10. \A m \in Nat : Lost(m)' \subseteq Lost(m)
  <2>1. \A n \in Due : n \notin 1 .. expired
    BY <1>3 DEF Due
  <2> QED BY <1>1, <1>9, <2>1 DEF Lost
<1>11. ASSUME NEW R \in SUBSET Creators, Enough(R)
       PROVE  \E T \in SUBSET Creators :
                 /\ Upper' \subseteq T /\ T \subseteq Upper' \cup Inserting'
                 /\ Worth(notes, expired)' + Cardinality(R)
                        >= Worth(notes, expired) + Cardinality(T)
                 /\ \A y \in Inserting' \ T : y \in Inserting \ R /\ creator'[y].id = creator[y].id
                                              /\ creator[y].id \in Nat
  <2>1. PICK T \in SUBSET Creators : T = R \ {c}
    OBVIOUS
  <2>2. Upper \subseteq R /\ R \subseteq Upper \cup Inserting
    BY <1>11 DEF Enough
  <2>3. R = T \cup {c} /\ c \notin T
    BY <1>2, <2>1, <2>2
  <2>4. Cardinality(R) = Cardinality(T) + 1 /\ Cardinality(T) \in Nat
    BY <2>3, CreatorSets, OneMore
  <2>5. Worth(notes, expired)' + Cardinality(R) >= Worth(notes, expired) + Cardinality(T)
    BY <1>5, <1>6, <2>4
  <2>6. Upper' \subseteq T /\ T \subseteq Upper' \cup Inserting'
    BY <1>2, <2>1, <2>2
  <2>7. \A y \in Inserting' \ T : y \in Inserting \ R /\ creator'[y].id = creator[y].id
                                /\ creator[y].id \in Nat
    BY <1>2, <1>3, <2>1
  <2> QED BY <2>5, <2>6, <2>7
<1> QED BY <1>2, <1>4, <1>5, <1>6, <1>7, <1>8, <1>10, <1>11, LossMoves

LEMMA LossExpire ==
    ASSUME NotesInv, LossHolds, expired \in Nat, Expire
    PROVE  LossHolds' /\ expired' \in Nat
<1>1. notes # {} /\ expired < Min(notes) /\ expired' = Min(notes) /\ UNCHANGED <<notes, lastNote, creator>>
  BY DEF Expire
<1>2. /\ lastNote \in Nat /\ IsFiniteSet(notes) /\ notes \subseteq Nat
      /\ Worth(notes, expired) \in Nat
  BY WorthIs
<1>3. PICK x : x = Min(notes)
  OBVIOUS
<1>4. x \in notes /\ \A y \in notes : x <= y
  <2>1. \E z \in notes : \A y \in notes : z <= y
    BY <1>1, <1>2, LeastNat
  <2> QED BY <1>3, <2>1 DEF Min
<1>5. x \in Nat /\ expired < x /\ expired' = x
  BY <1>1, <1>2, <1>3, <1>4
<1>6. /\ Inserting' = Inserting /\ Upper' = Upper /\ Pruners' = Pruners
      /\ Inserting \subseteq Creators
  BY <1>1 DEF Inserting, Upper, Pruners, Standing
<1>7. Named' /\ \A z \in Pruners : creator'[z].count = creator[z].count /\ Takes(z)'
  BY <1>1, <1>6 DEF LossHolds, Named, Takes
<1>8. Worth(notes, x) = Worth(notes, expired) /\ Cardinality(Elder(notes, x)) = 1
  BY <1>2, <1>4, <1>5, WorthExpires
<1>9. Worth(notes, expired)' = Worth(notes, expired) /\ Elder(notes, expired)' = Elder(notes, x)
  BY <1>1, <1>5, <1>8 DEF Worth, Young, Elder
<1>10. LateFew'
  <2>1. Upper' \in SUBSET Creators
    BY <1>6 DEF Upper, Standing
  <2>2. Cardinality(Upper') \in Nat
    BY <2>1, CreatorSets
  <2> QED BY <1>8, <1>9, <2>2 DEF LateFew
<1>11. \A m \in Nat : Lost(m)' \subseteq Lost(m)
  <2>1. \A n \in 1 .. lastNote : n > x => n > expired
    BY <1>2, <1>5
  <2> QED BY <1>1, <1>5, <1>6, <2>1 DEF Lost, Due
<1>12. ASSUME NEW R \in SUBSET Creators, Enough(R)
       PROVE  /\ Upper' \subseteq R /\ R \subseteq Upper' \cup Inserting'
              /\ Worth(notes, expired)' + Cardinality(R) >= Worth(notes, expired) + Cardinality(R)
              /\ \A y \in Inserting' \ R : /\ y \in Inserting \ R /\ creator'[y].id = creator[y].id
                                           /\ creator[y].id \in Nat
  <2>1. Cardinality(R) \in Nat
    BY CreatorSets
  <2>2. \A y \in Inserting : creator[y].id \in Nat
    BY <1>2 DEF LossHolds, Named
  <2>3. Worth(notes, expired)' + Cardinality(R) >= Worth(notes, expired) + Cardinality(R)
    BY <1>2, <1>9, <2>1
  <2>4. Upper' \subseteq R /\ R \subseteq Upper' \cup Inserting'
    BY <1>6, <1>12 DEF Enough
  <2>5. \A y \in Inserting' \ R : /\ y \in Inserting \ R /\ creator'[y].id = creator[y].id
                                  /\ creator[y].id \in Nat
    BY <1>1, <1>6, <2>2
  <2> QED BY <2>3, <2>4, <2>5
<1>13. LossHolds'
  BY <1>2, <1>6, <1>7, <1>9, <1>10, <1>11, <1>12, LossMoves
<1> QED BY <1>5, <1>13

\* Sets of creations that have nothing in common.
LEMMA Apart ==
    ASSUME NEW T \in SUBSET Creators, NEW S \in SUBSET Creators, T \cap S = {},
           NEW c \in Creators, c \notin T \cup S
    PROVE  Cardinality(T) + Cardinality(S) + 1 <= Cardinality(Creators)
<1>1. IsFiniteSet(T) /\ IsFiniteSet(S) /\ Cardinality(T) \in Nat /\ Cardinality(S) \in Nat
  BY CreatorSets
<1>2. Cardinality(T \cup S) = Cardinality(T) + Cardinality(S) - Cardinality(T \cap S)
  BY <1>1, FS_Union
<1>3. Cardinality(T \cap S) = 0
  BY FS_EmptySet
<1>4. PICK U \in SUBSET Creators : U = T \cup S
  OBVIOUS
<1>5. Cardinality(U \cup {c}) = Cardinality(U) + 1
  BY <1>4, CreatorSets, OneMore
<1>6. Cardinality(U \cup {c}) <= Cardinality(Creators)
  BY CreatorSets
<1> QED BY <1>1, <1>2, <1>3, <1>4, <1>5, <1>6

\* Few of them are expired, so there are few that do not count.
LEMMA WorthOfFew ==
    ASSUME NEW s, IsFiniteSet(s), s \subseteq Nat, NEW e \in Nat, NEW u \in Nat,
           Cardinality(Elder(s, e)) <= 1 + u
    PROVE  Cardinality(s) <= Worth(s, e) + u
<1>1. PICK o, f : o = Elder(s, e) /\ f = Young(s, e)
  OBVIOUS
<1>2. /\ IsFiniteSet(o) /\ Cardinality(o) \in Nat /\ Cardinality(f) \in Nat
      /\ Cardinality(s) = Cardinality(f) + Cardinality(o)
  BY <1>1, Aged
<1>3. PICK w : w = IF o = {} THEN 0 ELSE 1
  OBVIOUS
<1>4. w \in Nat /\ Cardinality(o) <= w + u
  <2>1. CASE o = {}
    BY <1>3, <2>1, FS_EmptySet
  <2>2. CASE o # {}
    BY <1>1, <1>3, <2>2
  <2> QED BY <2>1, <2>2
<1>5. Worth(s, e) = Cardinality(f) + w
  BY <1>1, <1>3 DEF Worth
<1> QED BY <1>2, <1>4, <1>5

LEMMA LossCount ==
    ASSUME NotesInv, LossHolds, expired \in Nat, NEW c \in Creators, CountNotes(c),
           NEW base, NEW since, Overshot(base, since)
    PROVE  LossHolds'
<1>1. /\ creator[c].at = "count" /\ UNCHANGED <<notes, lastNote, expired>>
      /\ \A d \in Creators \ {c} : creator'[d] = creator[d]
  BY OthersStay DEF CountNotes
<1>2. /\ c \notin Inserting \cup Upper \cup Pruners /\ Upper \cap Pruners = {}
      /\ Inserting \cap Pruners = {}
      /\ Inserting \subseteq Creators /\ Pruners \subseteq Creators /\ Upper \subseteq Creators
  BY <1>1 DEF Inserting, Upper, Pruners, Standing
<1>3. CASE ~ (Cardinality(notes) > MaxPerUser)
  <2>1. creator'[c].at = "idle"
    BY <1>3, NoCreationIs DEF CountNotes, NotesInv, NotesTyped
  <2>2. Inserting' = Inserting /\ Upper' = Upper /\ Pruners' = Pruners
    BY <1>1, <2>1 DEF Inserting, Upper, Pruners, Standing
  <2>3. \A y \in Inserting \cup Pruners : creator'[y] = creator[y]
    BY <1>1, <1>2
  <2>4. \A z \in Pruners : Takes(z)'
    BY <2>3 DEF LossHolds, Takes
  <2> QED BY <1>1, <2>2, <2>3, <2>4, LossQuiet
<1>4. CASE Cardinality(notes) > MaxPerUser
  <2>1. creator'[c].at = "find" /\ creator'[c].count = Cardinality(notes)
    BY <1>4 DEF CountNotes, NotesInv, NotesTyped, Creations
  <2>2. Inserting' = Inserting /\ Upper' = Upper /\ Pruners' = Pruners \cup {c}
    BY <1>1, <2>1 DEF Inserting, Upper, Pruners, Standing
  <2>3. \A y \in Inserting \cup Pruners : creator'[y] = creator[y]
    BY <1>1, <1>2
  <2>4. Named' /\ LateFew'
    BY <1>1, <2>2, <2>3 DEF LossHolds, Named, LateFew
  <2>5. Takes(c)'
    <3>1. base \in SUBSET Creators
      BY DEF Overshot, Past, Standing
    <3>2. Cardinality(base) \in Nat /\ Cardinality(base) <= Cardinality(Creators)
      BY <3>1, CreatorSets
    <3>3. Cardinality(notes) <= MaxPerUser + Cardinality(base)
      BY DEF Overshot
    <3>4. Cardinality(notes) \in Nat /\ MaxPerUser \in Nat /\ Cardinality(Creators) \in Nat
      BY WorthIs, WeightIs, NotesAssumption, FS_CardinalityType
    <3>5. Cardinality(notes) <= MaxPerUser + Cardinality(Creators)
      BY <3>2, <3>3, <3>4
    <3> QED BY <1>4, <2>1, <3>5 DEF Takes
  <2>6. \A z \in Pruners' : Takes(z)'
    <3>1. \A z \in Pruners : Takes(z)'
      BY <2>3 DEF LossHolds, Takes
    <3> QED BY <2>2, <2>5, <3>1
  <2>7. PICK T \in SUBSET Creators : T = Upper \cup Inserting
    BY <1>2
  <2>8. PICK F, q, u, n, w : /\ F = Cardinality(Pruners) /\ q = Cardinality(T)
                             /\ u = Cardinality(Upper) /\ n = Cardinality(notes)
                             /\ w = Worth(notes, expired)
    OBVIOUS
  <2>9. /\ F \in Nat /\ q \in Nat /\ u \in Nat /\ n \in Nat /\ w \in Nat
        /\ MaxPerUser \in Nat /\ Room \in Nat /\ Weight(F) \in Nat
    <3>1. F \in Nat /\ q \in Nat /\ u \in Nat
      BY <1>2, <2>8, CreatorSets
    <3>2. n \in Nat /\ w \in Nat
      BY <2>8, WorthIs, FS_CardinalityType
    <3> QED BY <3>1, <3>2, WeightIs, NotesAssumption
  <2>10. q + u + Weight(F) <= Room
    <3>1. q + F + 1 <= Cardinality(Creators)
      BY <1>2, <2>7, <2>8, Apart
    <3>2. u + F + 1 <= Cardinality(Creators)
      BY <1>2, <2>8, Apart
    <3> QED BY <2>9, <3>1, <3>2, WeightIs
  <2>11. n <= w + u
    BY <2>8, <2>9, WorthOfFew, WorthIs DEF LossHolds, LateFew
  <2>12. Owing(T)'
    <3>1. Cardinality(Pruners') = F + 1
      BY <1>2, <2>2, <2>8, CreatorSets, OneMore
    <3>2. Cardinality(Pruners') - 1 = F
      BY <2>9, <3>1
    <3>3. Weight(F)' = Weight(F)
      BY DEF Weight
    <3>4. PICK p : p = n - MaxPerUser + Weight(F)
      OBVIOUS
    <3>5. p \in Debts'
      <4>1. creator'[c].count - MaxPerUser + Weight(Cardinality(Pruners) - 1)' \in Debts'
        BY <2>2 DEF Debts
      <4>2. Weight(Cardinality(Pruners) - 1)' = Weight(F)
        BY <3>2 DEF Weight
      <4> QED BY <2>1, <2>8, <3>4, <4>1, <4>2
    <3>6. w + Room >= MaxPerUser + q + p
      BY <2>9, <2>10, <2>11, <3>4
    <3>7. Worth(notes, expired)' = w /\ Room' = Room
      BY <1>1, <2>8 DEF Worth, Young, Elder, Room
    <3> QED BY <2>8, <3>5, <3>6, <3>7 DEF Owing
  <2>13. Enough(T)'
    BY <2>2, <2>7, <2>12 DEF Enough
  <2> QED BY <2>4, <2>6, <2>13 DEF LossHolds
<1> QED BY <1>3, <1>4

LEMMA LossFind ==
    ASSUME NotesInv, LossHolds, expired \in Nat, NEW c \in Creators, FindOldest(c)
    PROVE  LossHolds'
<1>1. /\ creator[c].at = "find" /\ creator'[c].at = "delete"
      /\ creator'[c].ids = Firsts(notes, creator[c].count - MaxPerUser)
      /\ creator'[c].count = creator[c].count /\ UNCHANGED <<notes, lastNote, expired>>
      /\ \A d \in Creators \ {c} : creator'[d] = creator[d]
  BY OthersStay DEF FindOldest, Oldest, Firsts, Excess, NotesInv, NotesTyped, Creations
<1>2. /\ Inserting' = Inserting /\ Upper' = Upper /\ Pruners' = Pruners
      /\ c \in Pruners /\ c \notin Inserting
      /\ Inserting \subseteq Creators /\ Pruners \subseteq Creators
  BY <1>1 DEF Inserting, Upper, Pruners, Standing
<1>3. creator[c].count - MaxPerUser \in Nat
  <2>1. creator[c].count \in Nat /\ creator[c].count > MaxPerUser
    BY <1>2 DEF LossHolds, Takes, NotesInv, NotesTyped, Creations
  <2> QED BY <2>1, NotesAssumption
<1>4. /\ IsFiniteSet(creator'[c].ids)
      /\ Cardinality(creator'[c].ids) <= creator[c].count - MaxPerUser
  BY <1>1, <1>3, FirstsAre, WorthIs
<1>5. Takes(c)'
  BY <1>1, <1>2, <1>4 DEF LossHolds, Takes
<1>6. \A z \in Pruners \ {c} : creator'[z] = creator[z] /\ Takes(z)'
  BY <1>1, <1>2 DEF LossHolds, Takes
<1>7. \A z \in Pruners : creator'[z].count = creator[z].count /\ Takes(z)'
  BY <1>1, <1>5, <1>6
<1>8. \A y \in Inserting : creator'[y].id = creator[y].id
  BY <1>1, <1>2
<1> QED BY <1>1, <1>2, <1>7, <1>8, LossQuiet

\* What is taken is lost, but there is one pruning less.
LEMMA SmallTaken ==
    ASSUME NEW m, Small(m), NEW d, IsFiniteSet(d), lastNote \in Nat,
           Lost(m)' \subseteq Lost(m) \cup d, Cardinality(d) <= Cardinality(Creators),
           NEW c \in Pruners, Pruners' = Pruners \ {c}
    PROVE  Small(m)'
<1>1. PICK l, k, F : l = Lost(m) /\ k = Lost(m)' /\ F = Cardinality(Pruners')
  OBVIOUS
<1>2. Pruners \subseteq Creators
  BY DEF Pruners, Standing
<1>3. F \in Nat /\ Cardinality(Pruners) = F + 1
  <2>1. PICK P \in SUBSET Creators : P = Pruners \ {c}
    BY <1>2
  <2>2. Cardinality(P \cup {c}) = Cardinality(P) + 1 /\ Cardinality(P) \in Nat
    BY <2>1, CreatorSets, OneMore
  <2>3. P \cup {c} = Pruners
    BY <2>1
  <2> QED BY <1>1, <2>1, <2>2, <2>3
<1>4. IsFiniteSet(l) /\ Cardinality(l) \in Nat /\ Cardinality(d) \in Nat
  BY <1>1, LostFinite, FS_CardinalityType
<1>5. Cardinality(k) <= Cardinality(l) + Cardinality(d) /\ Cardinality(k) \in Nat
  <2>1. IsFiniteSet(l \cup d) /\ IsFiniteSet(l \cap d)
    BY <1>4, FS_Union, FS_Intersection
  <2>2. Cardinality(l \cup d) = Cardinality(l) + Cardinality(d) - Cardinality(l \cap d)
    BY <1>4, FS_Union
  <2>3. Cardinality(l \cap d) \in Nat
    BY <2>1, FS_CardinalityType
  <2>4. k \in SUBSET (l \cup d)
    BY <1>1
  <2>5. Cardinality(k) <= Cardinality(l \cup d) /\ Cardinality(k) \in Nat
    BY <2>1, <2>4, SmallerSet
  <2> QED BY <1>4, <2>2, <2>3, <2>5
<1>6. /\ Weight(F) \in Nat /\ Weight(F + 1) = Weight(F) + Cardinality(Creators)
      /\ Cardinality(Creators) \in Nat /\ Room \in Nat
  BY <1>3, WeightIs
<1>7. Cardinality(l) + Weight(F + 1) <= Room
  BY <1>1, <1>3 DEF Small
<1>8. Cardinality(k) + Weight(F) <= Room
  BY <1>4, <1>5, <1>6, <1>7
<1>9. Weight(Cardinality(Pruners))' = Weight(F) /\ Room' = Room
  BY <1>1 DEF Weight, Room
<1>10. Cardinality(Lost(m)') + Weight(Cardinality(Pruners))' <= Room'
  BY <1>1, <1>8, <1>9
<1> QED BY <1>10 DEF Small

LEMMA OwingTaken ==
    ASSUME NotesInv, \A z \in Pruners : Takes(z), NEW R \in SUBSET Creators, Owing(R),
           NEW c \in Pruners, Pruners' = Pruners \ {c},
           \A z \in Pruners \ {c} : creator'[z] = creator[z],
           NEW t \in Nat, t <= creator[c].count - MaxPerUser,
           Worth(notes, expired)' \in Nat, Worth(notes, expired) \in Nat,
           Worth(notes, expired)' + t >= Worth(notes, expired)
    PROVE  Owing(R)'
<1>1. PICK p \in Debts : Worth(notes, expired) + Room >= MaxPerUser + Cardinality(R) + p
  BY DEF Owing
<1>2. PICK v, w, r, K, F : /\ v = Worth(notes, expired)' /\ w = Worth(notes, expired)
                           /\ r = Cardinality(R) /\ K = Cardinality(Creators)
                           /\ F = Cardinality(Pruners')
  OBVIOUS
<1>3. Pruners \subseteq Creators
  BY DEF Pruners, Standing
<1>4. F \in Nat /\ Cardinality(Pruners) = F + 1
  <2>1. PICK P \in SUBSET Creators : P = Pruners \ {c}
    BY <1>3
  <2>2. Cardinality(P \cup {c}) = Cardinality(P) + 1 /\ Cardinality(P) \in Nat
    BY <2>1, CreatorSets, OneMore
  <2>3. P \cup {c} = Pruners
    BY <2>1
  <2> QED BY <1>2, <2>1, <2>2, <2>3
<1>5. /\ v \in Nat /\ w \in Nat /\ r \in Nat /\ K \in Nat /\ Room \in Nat /\ MaxPerUser \in Nat
      /\ Weight(F) \in Nat /\ Weight(F + 1) = Weight(F) + K /\ v + t >= w
      /\ w + Room >= MaxPerUser + r + p
  BY <1>1, <1>2, <1>4, WeightIs, CreatorSets, NotesAssumption
<1>6. \A z \in Pruners : creator[z].count \in Nat /\ creator[z].count <= MaxPerUser + K
  BY <1>2, <1>3 DEF Takes, NotesInv, NotesTyped, Creations
<1>7. t <= K
  BY <1>5, <1>6
<1>8. Weight(F) \in Debts'
  BY <1>2 DEF Debts, Weight
<1>9. SUFFICES ASSUME TRUE PROVE \E d \in Debts' : v + Room >= MaxPerUser + r + d
  BY <1>2 DEF Owing, Room
<1>10. CASE p = Weight(F + 1)
  <2>1. v + Room >= MaxPerUser + r + Weight(F)
    BY <1>5, <1>7, <1>10
  <2> QED BY <1>8, <2>1
<1>11. ASSUME NEW z \in Pruners, p = creator[z].count - MaxPerUser + Weight(F)
       PROVE  \E d \in Debts' : v + Room >= MaxPerUser + r + d
  <2>1. CASE z = c
    <3>1. v + Room >= MaxPerUser + r + Weight(F)
      BY <1>5, <1>6, <1>11, <2>1
    <3> QED BY <1>8, <3>1
  <2>2. CASE z # c
    <3>1. z \in Pruners' /\ creator'[z] = creator[z]
      BY <1>11, <2>2
    <3>2. F # 0
      BY <1>2, <1>3, <3>1, CreatorSets, FS_EmptySet
    <3>3. PICK G \in Nat : F = G + 1
      <4>1. F - 1 \in Nat /\ F = (F - 1) + 1
        BY <1>4, <3>2
      <4> QED BY <4>1
    <3>4. Weight(G) \in Nat /\ Weight(F) = Weight(G) + K
      BY <1>2, <3>3, WeightIs
    <3>5. PICK d : d = creator[z].count - MaxPerUser + Weight(G)
      OBVIOUS
    <3>6. d \in Debts'
      <4>1. creator'[z].count - MaxPerUser + Weight(Cardinality(Pruners) - 1)' \in Debts'
        BY <3>1 DEF Debts
      <4>2. Cardinality(Pruners') - 1 = G
        BY <1>2, <3>3
      <4>3. Weight(Cardinality(Pruners) - 1)' = Weight(G)
        BY <4>2 DEF Weight
      <4> QED BY <3>1, <3>5, <4>1, <4>3
    <3>7. creator[z].count \in Nat
      BY <1>6, <1>11
    <3>8. v + Room >= MaxPerUser + r + d
      BY <1>5, <1>7, <1>11, <3>4, <3>5, <3>7
    <3> QED BY <3>6, <3>8
  <2> QED BY <2>1, <2>2
<1>12. Cardinality(Pruners) - 1 = F
  BY <1>4
<1> QED BY <1>4, <1>10, <1>11, <1>12 DEF Debts

LEMMA LossDelete ==
    ASSUME NotesInv, LossHolds, expired \in Nat, NEW c \in Creators, DeleteFound(c)
    PROVE  LossHolds'
<1>1. /\ creator[c].at = "delete" /\ creator'[c].at = "idle" /\ notes' = notes \ creator[c].ids
      /\ UNCHANGED <<lastNote, expired>>
      /\ \A d \in Creators \ {c} : creator'[d] = creator[d]
  BY OthersStay, NoCreationIs DEF DeleteFound, NotesInv, NotesTyped
<1>2. /\ Inserting' = Inserting /\ Upper' = Upper /\ Pruners' = Pruners \ {c}
      /\ c \in Pruners /\ c \notin Inserting
      /\ Inserting \subseteq Creators /\ Pruners \subseteq Creators /\ Upper \subseteq Creators
  BY <1>1 DEF Inserting, Upper, Pruners, Standing
<1>3. (\A y \in Inserting : creator'[y] = creator[y]) /\ \A z \in Pruners \ {c} : creator'[z] = creator[z]
  BY <1>1, <1>2
<1>4. PICK d, t : d = creator[c].ids /\ t = Cardinality(d)
  OBVIOUS
<1>5. /\ IsFiniteSet(d) /\ t \in Nat /\ t <= creator[c].count - MaxPerUser
      /\ creator[c].count <= MaxPerUser + Cardinality(Creators) /\ creator[c].count \in Nat
  BY <1>1, <1>2, <1>4, FS_CardinalityType DEF LossHolds, Takes, NotesInv, NotesTyped, Creations
<1>6. t <= Cardinality(Creators)
  <2>1. MaxPerUser \in Nat /\ Cardinality(Creators) \in Nat
    BY WeightIs, NotesAssumption
  <2> QED BY <1>5, <2>1
<1>7. /\ Worth(notes, expired) \in Nat /\ IsFiniteSet(notes) /\ notes \subseteq Nat
      /\ lastNote \in Nat
  BY WorthIs
<1>8. /\ Worth(notes', expired) + t >= Worth(notes, expired)
      /\ Cardinality(Elder(notes', expired)) <= Cardinality(Elder(notes, expired))
  BY <1>1, <1>4, <1>5, <1>7, WorthTaken
<1>9. /\ Worth(notes', expired) \in Nat
      /\ Cardinality(Elder(notes', expired)) \in Nat /\ Cardinality(Elder(notes, expired)) \in Nat
  <2>1. notes' \in SUBSET notes
    BY <1>1
  <2>2. IsFiniteSet(notes') /\ notes' \subseteq Nat
    BY <1>7, <2>1, SmallerSet
  <2> QED BY <1>7, <2>2, Aged
<1>10. Worth(notes, expired)' = Worth(notes', expired) /\ Elder(notes, expired)' = Elder(notes', expired)
  BY <1>1 DEF Worth, Young, Elder
<1>11. Named'
  <2>1. notes' \subseteq notes
    BY <1>1
  <2>2. \A y \in Inserting : creator'[y].id = creator[y].id
    BY <1>3
  <2>3. (notes \subseteq 1 .. lastNote)'
    BY <1>1, <2>1 DEF LossHolds, Named
  <2>4. \A y \in Inserting' : creator'[y].id \in 1 .. lastNote /\ creator'[y].id \notin notes'
    BY <1>2, <2>1, <2>2 DEF LossHolds, Named
  <2>5. \A y, z \in Inserting' : creator'[y].id = creator'[z].id => y = z
    BY <1>2, <2>2 DEF LossHolds, Named
  <2> QED BY <1>1, <2>3, <2>4, <2>5 DEF Named
<1>12. LateFew'
  <2>1. Cardinality(Upper) \in Nat
    BY <1>2, CreatorSets
  <2>2. Cardinality(Elder(notes, expired)) <= 1 + Cardinality(Upper)
    BY DEF LossHolds, LateFew
  <2>3. Cardinality(Elder(notes', expired)) <= 1 + Cardinality(Upper)
    BY <1>8, <1>9, <2>1, <2>2
  <2> QED BY <1>2, <1>10, <2>3 DEF LateFew
<1>13. \A z \in Pruners' : Takes(z)'
  BY <1>2, <1>3 DEF LossHolds, Takes
<1>14. Due' = Due
  BY <1>1, <1>2, <1>3 DEF Due
<1>15. ASSUME NEW m, Small(m)
       PROVE  Small(m)'
  <2>1. Lost(m)' \subseteq Lost(m) \cup d
    BY <1>1, <1>4, <1>14 DEF Lost
  <2> QED BY <1>2, <1>4, <1>5, <1>6, <1>7, <1>15, <2>1, SmallTaken
<1>16. ASSUME NEW R, Enough(R)
       PROVE  Enough(R)'
  <2>1. R \in SUBSET Creators
    BY <1>2, <1>16 DEF Enough
  <2>2. Owing(R)'
    BY <1>2, <1>3, <1>5, <1>7, <1>8, <1>9, <1>10, <1>16, <2>1, OwingTaken DEF Enough, LossHolds
  <2>3. ASSUME NEW y \in Inserting \ R
        PROVE  Small(creator[y].id)'
    <3>1. PICK m : m = creator[y].id
      OBVIOUS
    <3>2. Small(m)' /\ m = creator'[y].id
      BY <1>3, <1>15, <1>16, <2>3, <3>1 DEF Enough
    <3> QED BY <3>2 DEF Small, Lost
  <2> QED BY <1>2, <1>16, <2>2, <2>3 DEF Enough
<1>17. Small(0)' \/ \E R : Enough(R)'
  BY <1>15, <1>16 DEF LossHolds
<1> QED BY <1>11, <1>12, <1>13, <1>17 DEF LossHolds

LEMMA LossNext == NotesInv /\ OvershootInv /\ LossInv /\ [NotesNext]_notesVars => LossInv'
<1> SUFFICES ASSUME NotesInv, OvershootInv, LossInv, [NotesNext]_notesVars PROVE LossInv'
  OBVIOUS
<1>0. expired \in Nat /\ mishaps \in Nat /\ (mishaps = 0 => LossHolds)
  BY DEF LossInv, OvershootInv
<1>1. ASSUME UNCHANGED <<notes, lastNote, expired, mishaps>>,
             \A c \in Creators : /\ creator'[c].at = creator[c].at /\ creator'[c].id = creator[c].id
                                 /\ creator'[c].count = creator[c].count /\ creator'[c].ids = creator[c].ids
      PROVE  LossInv'
  <2>1. /\ Inserting' = Inserting /\ Upper' = Upper /\ Pruners' = Pruners
        /\ Inserting \subseteq Creators /\ Pruners \subseteq Creators
    BY <1>1 DEF Inserting, Upper, Pruners, Standing
  <2>2. ASSUME LossHolds
        PROVE  LossHolds'
    <3>1. \A z \in Pruners : creator'[z].count = creator[z].count /\ Takes(z)'
      BY <1>1, <2>1, <2>2 DEF LossHolds, Takes
    <3>2. \A y \in Inserting : creator'[y].id = creator[y].id
      BY <1>1, <2>1
    <3> QED BY <1>0, <1>1, <2>1, <2>2, <3>1, <3>2, LossQuiet
  <2> QED BY <1>0, <1>1, <2>2 DEF LossInv
<1>2. CASE \/ UNCHANGED notesVars
           \/ \E w \in Sockets : Connect(w) \/ Greet(w) \/ GreetRaises(w) \/ Disconnect(w)
  BY <1>1, <1>2 DEF notesVars, Connect, Greet, GreetRaises, Disconnect
<1>3. ASSUME NEW w \in Sockets, HangUp(w)
      PROVE  LossInv'
  BY <1>1, <1>3, HangUpLeaves DEF HangUp
<1>4. ASSUME NEW c \in Creators, NEW w \in Sockets, Send(c, w)
      PROVE  LossInv'
  <2>1. /\ creator'[c].at = creator[c].at /\ creator'[c].id = creator[c].id
        /\ creator'[c].count = creator[c].count /\ creator'[c].ids = creator[c].ids
    BY <1>4 DEF Send, NotesInv, NotesTyped, Creations
  <2>2. \A d \in Creators \ {c} : creator'[d] = creator[d]
    BY <1>4, OthersStay
  <2> QED BY <1>1, <1>4, <2>1, <2>2 DEF Send
<1>5. ASSUME NEW c \in Creators, DropDead(c), LossHolds
      PROVE  LossHolds'
  <2>1. /\ creator[c].at = "send" /\ creator'[c].at = "expire"
        /\ UNCHANGED <<notes, lastNote, expired>>
        /\ \A d \in Creators \ {c} : creator'[d] = creator[d]
    BY <1>5, OthersStay DEF DropDead, NotesInv, NotesTyped, Creations
  <2>2. /\ Inserting' = Inserting /\ Upper' = Upper /\ Pruners' = Pruners
        /\ \A y \in Inserting \cup Pruners : creator'[y] = creator[y]
    BY <2>1 DEF Inserting, Upper, Pruners, Standing
  <2>3. \A z \in Pruners : Takes(z)'
    BY <1>5, <2>2 DEF LossHolds, Takes
  <2> QED BY <1>0, <1>5, <2>1, <2>2, <2>3, LossQuiet
<1>6. ASSUME NEW c \in Creators,
             \/ Create(c) \/ InsertNote(c) \/ DropDead(c) \/ DeleteExpired(c) \/ CountNotes(c)
             \/ FindOldest(c) \/ DeleteFound(c)
      PROVE  LossInv'
  <2>1. UNCHANGED <<mishaps, expired>>
    BY <1>6 DEF Create, InsertNote, DropDead, DeleteExpired, CountNotes, FindOldest, DeleteFound
  <2>2. ASSUME mishaps = 0
        PROVE  LossHolds'
    <3>1. PICK base, since : Overshot(base, since)
      BY <2>2 DEF OvershootInv
    <3> QED BY <1>0, <1>5, <1>6, <2>2, <3>1, LossCreate, LossInsert, LossCleared, LossCount,
               LossFind, LossDelete
  <2> QED BY <1>0, <2>1, <2>2 DEF LossInv
<1>7. ASSUME NEW c \in Creators, CreationRaises(c)
      PROVE  LossInv'
  <2>1. mishaps' \in Nat /\ mishaps' # 0 /\ expired' \in Nat
    BY <1>0, <1>7 DEF CreationRaises
  <2> QED BY <2>1 DEF LossInv
<1>8. CASE Expire
  <2>1. mishaps' = mishaps /\ expired' \in Nat
    <3>1. \E n \in notes : \A m \in notes : n <= m
      BY <1>8, LeastNat DEF Expire, NotesInv, NotesTyped
    <3>2. expired' \in notes
      BY <1>8, <3>1 DEF Expire, Min
    <3> QED BY <1>8, <3>2 DEF Expire, NotesInv, NotesTyped
  <2> QED BY <1>0, <1>8, <2>1, LossExpire DEF LossInv
<1> QED BY <1>2, <1>3, <1>4, <1>6, <1>7, <1>8 DEF NotesNext

LEMMA QuotaInit == NotesInit => SequenceInv /\ OvershootInv /\ LossInv
<1> SUFFICES ASSUME NotesInit PROVE SequenceInv /\ OvershootInv /\ LossInv
  OBVIOUS
<1>1. MaxPerUser \in Nat /\ 1 \in Nat \ {0}
  BY NotesAssumption
<1>2. /\ notes = 1 .. MaxPerUser /\ lastNote = MaxPerUser /\ mishaps = 0 /\ expired = 0
      /\ \A c \in Creators : creator[c].at = "idle"
  BY NoCreationIs DEF NotesInit
<1>3. Cardinality(notes) = MaxPerUser
  <2>1. Cardinality(1 .. MaxPerUser) = IF 1 > MaxPerUser THEN 0 ELSE MaxPerUser - 1 + 1
    BY <1>1, FS_Interval
  <2> QED BY <1>1, <1>2, <2>1
<1>4. SequenceInv
  <2>1. Spans(1, lastNote) /\ lastNote < 1 + MaxPerUser
    BY <1>1, <1>2 DEF Spans
  <2>2. \A c \in Creators : Along(c, 1)
    BY <1>2 DEF Along
  <2>3. InTurn(1)
    BY <1>1, <2>1, <2>2 DEF InTurn
  <2> QED BY <1>1, <1>2, <2>3 DEF SequenceInv, OneCreation
<1>5. Inserting = {} /\ Upper = {} /\ Pruners = {}
  BY <1>2 DEF Inserting, Upper, Pruners, Standing
<1>6. Cardinality({}) = 0
  BY FS_EmptySet
<1>7. OvershootInv
  <2>1. PICK since : since = [x \in Creators |-> {}]
    OBVIOUS
  <2>2. since \in [Creators -> SUBSET Past] /\ {} \in SUBSET Past
    BY <2>1
  <2>3. Cardinality(notes) <= MaxPerUser + Cardinality({})
    BY <1>1, <1>3, <1>6
  <2>4. Overshot({}, since)
    BY <1>5, <2>2, <2>3 DEF Overshot
  <2> QED BY <1>2, <2>4 DEF OvershootInv
<1>8. LossInv
  <2>1. Named
    BY <1>2, <1>5 DEF Named
  <2>2. LateFew
    <3>1. \A n \in 1 .. MaxPerUser : ~ (n <= 0)
      BY <1>1
    <3>2. Elder(notes, expired) = {}
      BY <1>2, <3>1 DEF Elder
    <3> QED BY <1>5, <1>6, <3>2 DEF LateFew
  <2>3. Small(0)
    <3>1. Lost(0) = {}
      BY <1>2 DEF Lost, Due
    <3>2. Weight(0) = 0 /\ Room \in Nat
      BY WeightIs DEF Weight
    <3> QED BY <1>5, <1>6, <3>1, <3>2 DEF Small
  <2> QED BY <1>2, <1>5, <2>1, <2>2, <2>3 DEF LossInv, LossHolds
<1> QED BY <1>4, <1>7, <1>8

LEMMA SequenceKeepsNewest == NotesInv /\ SequenceInv => NewestKept
<1>1. ASSUME NotesInv, SequenceInv, NotesAtRest, ~ crossed, mishaps = 0
      PROVE  {n \in notes : n > expired}
                 = {n \in 1 .. lastNote : n > expired /\ n + MaxPerUser > lastNote}
  <2>1. PICK lo \in Nat : InTurn(lo)
    BY <1>1 DEF SequenceInv
  <2>2. /\ lo \in Nat \ {0} /\ lastNote \in Nat /\ notes = lo .. lastNote
        /\ lo = 1 \/ lo <= expired + 1 \/ lo + MaxPerUser <= lastNote + 1
        /\ lastNote < lo + MaxPerUser /\ MaxPerUser \in Nat /\ expired \in Nat
    BY <1>1, <2>1, NotesAssumption DEF InTurn, Spans, SequenceInv
  <2> QED BY <2>2
<1> QED BY <1>1 DEF NewestKept

LEMMA OvershotEnds == OvershootInv => QuotaAtRest
<1> SUFFICES ASSUME OvershootInv, mishaps = 0, NotesAtRest
             PROVE  Cardinality(notes) <= MaxPerUser
  BY DEF QuotaAtRest
<1>1. PICK base, since : Overshot(base, since)
  BY DEF OvershootInv
<1>2. base = {}
  BY <1>1 DEF Overshot, Past, Standing, NotesAtRest
<1>3. Cardinality(base) = 0 /\ MaxPerUser \in Nat
  BY <1>2, FS_EmptySet, NotesAssumption
<1>4. Cardinality(notes) <= MaxPerUser + Cardinality(base)
  BY <1>1 DEF Overshot
<1> QED BY <1>3, <1>4

LEMMA LossStaysBounded == NotesInv /\ LossInv => LossBounded
<1> DEFINE unexpired == {n \in 1 .. lastNote : n > expired} \ {creator[c].id : c \in Creators}
           due       == Min({MaxPerUser, Cardinality(unexpired)})
<1> SUFFICES ASSUME NotesInv, LossInv, mishaps = 0
             PROVE  Cardinality(notes) + Room >= due
  BY DEF LossBounded, Room
<1>1. /\ LossHolds /\ expired \in Nat /\ IsFiniteSet(notes) /\ notes \subseteq Nat /\ lastNote \in Nat
      /\ MaxPerUser \in Nat /\ Room \in Nat /\ Cardinality(notes) \in Nat
  BY WorthIs, WeightIs, NotesAssumption, FS_CardinalityType DEF LossInv
<1>2. unexpired \subseteq Due /\ unexpired \in SUBSET (1 .. lastNote)
  BY DEF Due, Inserting, Standing
<1>3. Cardinality(unexpired) \in Nat
  <2>1. IsFiniteSet(1 .. lastNote)
    BY <1>1, FS_Interval
  <2> HIDE DEF unexpired
  <2> QED BY <1>2, <2>1, SmallerSet
<1>4. due <= MaxPerUser /\ due <= Cardinality(unexpired) /\ due \in Nat
  <2>1. PICK u \in Nat : u = Cardinality(unexpired)
    BY <1>3
  <2>2. \E x \in {MaxPerUser, u} : \A y \in {MaxPerUser, u} : x <= y
    <3>1. CASE MaxPerUser <= u
      BY <1>1, <3>1
    <3>2. CASE ~ (MaxPerUser <= u)
      BY <1>1, <3>2
    <3> QED BY <3>1, <3>2
  <2>3. Min({MaxPerUser, u}) \in {MaxPerUser, u} /\ \A y \in {MaxPerUser, u} : Min({MaxPerUser, u}) <= y
    BY <2>2 DEF Min
  <2> HIDE DEF unexpired
  <2> QED BY <1>1, <2>1, <2>3
<1> HIDE DEF due
<1>5. CASE Small(0)
  <2>1. PICK l : l = Lost(0)
    OBVIOUS
  <2>2. IsFiniteSet(l) /\ Cardinality(l) \in Nat
    BY <1>1, <2>1, LostFinite
  <2>3. Due \subseteq notes \cup l
    <3>1. \A n \in 1 .. lastNote : n > 0
      BY <1>1
    <3> QED BY <2>1, <3>1 DEF Lost, Due
  <2>4. Cardinality(unexpired) <= Cardinality(notes) + Cardinality(l)
    <3>1. IsFiniteSet(notes \cup l) /\ IsFiniteSet(notes \cap l)
      BY <1>1, <2>2, FS_Union, FS_Intersection
    <3>2. Cardinality(notes \cup l) = Cardinality(notes) + Cardinality(l) - Cardinality(notes \cap l)
      BY <1>1, <2>2, FS_Union
    <3>3. Cardinality(notes \cap l) \in Nat
      BY <3>1, FS_CardinalityType
    <3> HIDE DEF unexpired
    <3>4. unexpired \in SUBSET (notes \cup l)
      BY <1>2, <2>3
    <3>5. Cardinality(unexpired) <= Cardinality(notes \cup l)
      BY <3>1, <3>4, SmallerSet
    <3> QED BY <1>1, <1>3, <2>2, <3>2, <3>3, <3>5
  <2>5. Cardinality(l) <= Room
    <3>1. Pruners \in SUBSET Creators
      BY DEF Pruners, Standing
    <3>2. Weight(Cardinality(Pruners)) \in Nat
      BY <3>1, CreatorSets, WeightIs
    <3>3. Cardinality(l) + Weight(Cardinality(Pruners)) <= Room
      BY <1>5, <2>1 DEF Small
    <3> QED BY <1>1, <2>2, <3>2, <3>3
  <2> HIDE DEF unexpired
  <2> QED BY <1>1, <1>3, <1>4, <2>2, <2>4, <2>5
<1>6. ASSUME NEW R, Enough(R)
      PROVE  Cardinality(notes) + Room >= due
  <2>1. R \in SUBSET Creators
    BY <1>6 DEF Enough, Upper, Inserting, Standing
  <2>2. PICK p \in Debts : Worth(notes, expired) + Room >= MaxPerUser + Cardinality(R) + p
    BY <1>6 DEF Enough, Owing
  <2>3. p \in Nat /\ Cardinality(R) \in Nat
    BY <1>1, <2>1, CreatorSets, DebtsAre DEF LossHolds
  <2>4. Worth(notes, expired) \in Nat /\ Worth(notes, expired) <= Cardinality(notes)
    BY <1>1, Aged
  <2> QED BY <1>1, <1>4, <2>2, <2>3, <2>4
<1> QED BY <1>1, <1>5, <1>6 DEF LossHolds

\* What is kept of a user's notifications, for any number of creations, whichever
\* way they overlap.  As long as they follow one another it is exactly the newest
\* up to the quota; whenever none is in progress it is no more than the quota, for
\* each counts what it has inserted itself; and however stale the counts that the
\* others prune by, k creations never delete more than k * (k - 1) too many
\* (create_and_publish).
THEOREM QuotaIsKept == NotesSpec => []QuotaKept
<1>1. NotesInv /\ SequenceInv /\ OvershootInv /\ LossInv => QuotaKept
  BY SequenceKeepsNewest, OvershotEnds, LossStaysBounded DEF QuotaKept
<1> QED BY <1>1, NotesInitInv, NotesNextInv, QuotaInit, SequenceNext, OvershotNext, LossNext,
           PTL DEF NotesSpec

-----------------------------------------------------------------------------
\* The domains of the configuration.

\* The edits a client's record names are requests that were made, and its
\* document is one that is stored.
InRange(k, ids) ==
    /\ k.edit \in 0 .. MaxOps /\ k.id \in {0} \cup ids
    /\ k.copy.sources \cup k.copy.others \subseteq Edits
    /\ k.at = "idle" => k = Idle
    /\ k.at # "idle" => k.edit \in Edits

DocsInRange ==
    \A i \in DOMAIN docs : docs[i].sources \subseteq Edits /\ docs[i].others \subseteq Edits

ConfigRange ==
    /\ ops \in 0 .. MaxOps /\ acked \subseteq Edits /\ DocsInRange
    /\ \A c \in Clients : InRange(client[c], DOMAIN docs)

LEMMA IdleInRange ==
    ASSUME ConfigAssumption, NEW ids
    PROVE  /\ InRange(Idle, ids) /\ Fresh.sources \subseteq Edits /\ Fresh.others \subseteq Edits
           /\ [Fresh EXCEPT !.version = 2].sources = {} /\ [Fresh EXCEPT !.version = 2].others = {}
<1>1. /\ Idle.edit = 0 /\ Idle.id = 0 /\ Idle.at = "idle"
      /\ Idle.copy.sources = {} /\ Idle.copy.others = {}
  BY DEF Idle
<1>2. 0 \in 0 .. MaxOps
  BY DEF ConfigAssumption
<1> QED BY <1>1, <1>2 DEF InRange, Fresh

LEMMA RangeMoves ==
    ASSUME ConfigInv, ConfigRange, NEW c \in Clients, NEW new,
           client' = [client EXCEPT ![c] = new], InRange(new, DOMAIN docs'),
           DOMAIN docs \subseteq DOMAIN docs', DocsInRange',
           ops' \in 0 .. MaxOps, acked' \subseteq Edits
    PROVE  ConfigRange'
<1>1. ASSUME NEW d \in Clients
      PROVE  InRange(client'[d], DOMAIN docs')
  <2>1. client'[d] = IF d = c THEN new ELSE client[d]
    BY DEF ConfigInv, StoreInv, StoreTyped
  <2>2. CASE d # c
    BY <2>1, <2>2 DEF ConfigRange, InRange
  <2> QED BY <2>1, <2>2
<1> QED BY <1>1 DEF ConfigRange, InRange

LEMMA SameDocs ==
    ASSUME DocsInRange, UNCHANGED docs
    PROVE  DOMAIN docs \subseteq DOMAIN docs' /\ DocsInRange'
BY DEF DocsInRange

\* A client that leaves, or goes on to save what it got.
LEMMA GotInRange ==
    ASSUME ConfigAssumption, ConfigInv, ConfigRange, NEW c \in Clients, NEW copy \in Copies,
           Got(c, copy), copy.sources \subseteq Edits, copy.others \subseteq Edits,
           client[c].at \in {"read"} \cup CreateStages,
           UNCHANGED docs, ops' \in 0 .. MaxOps, acked' \subseteq Edits
    PROVE  ConfigRange'
<1>1. DocsInRange /\ DOMAIN docs' = DOMAIN docs
  BY DEF ConfigRange
<1>2. CASE Leaves(c)
  BY <1>1, <1>2, SameDocs, IdleInRange, RangeMoves DEF Leaves
<1>3. CASE /\ client[c].op \in EditOps
           /\ client' = [client EXCEPT ![c].copy = Edited(c, copy), ![c].at = "off"]
  <2>1. PICK k \in Clientele : k = client[c] /\ Fitting(k) /\ InRange(k, DOMAIN docs)
    BY DEF ConfigInv, StoreInv, StoreTyped, ConfigRange
  <2>2. k.op \in {"source", "other"} /\ k.edit \in Edits
    BY <1>3, <2>1 DEF Fitting, EditOps, CreateStages, InRange
  <2>3. PICK edited : edited = Edited(c, copy)
    OBVIOUS
  <2>4. edited.sources \cup edited.others = {k.edit} \cup copy.sources \cup copy.others
    BY <2>1, <2>2, <2>3, EditedIs DEF Clientele
  <2> DEFINE new == [k EXCEPT !.copy = edited, !.at = "off"]
  <2>5. client' = [client EXCEPT ![c] = new]
    BY <1>3, <2>1, <2>3
  <2>6. new.at = "off" /\ new.copy = edited /\ new.edit = k.edit /\ new.id = k.id
    BY <2>1 DEF Clientele
  <2> HIDE DEF new
  <2>7. InRange(new, DOMAIN docs)
    BY <2>1, <2>2, <2>4, <2>6 DEF InRange
  <2> QED BY <1>1, <2>5, <2>7, SameDocs, RangeMoves
<1> QED BY <1>2, <1>3 DEF Got

\* A client that only moves on to another stage.
LEMMA StageInRange ==
    ASSUME ConfigInv, ConfigRange, NEW c \in Clients, NEW stage, Moves(c, stage),
           stage # "idle", client[c].at # "idle", DOMAIN docs \subseteq DOMAIN docs', DocsInRange',
           ops' = ops, acked' = acked
    PROVE  ConfigRange'
<1>1. PICK k \in Clientele : k = client[c] /\ InRange(k, DOMAIN docs)
  BY DEF ConfigInv, StoreInv, StoreTyped, ConfigRange
<1> DEFINE new == [k EXCEPT !.at = stage]
<1>2. client' = [client EXCEPT ![c] = new]
  BY <1>1 DEF Moves
<1>3. new.at = stage /\ new.copy = k.copy /\ new.edit = k.edit /\ new.id = k.id
  BY <1>1 DEF Clientele
<1> HIDE DEF new
<1>4. InRange(new, DOMAIN docs')
  BY <1>1, <1>3 DEF InRange
<1> QED BY <1>2, <1>4, RangeMoves DEF ConfigRange

LEMMA RangeStep ==
    ASSUME ConfigAssumption, ConfigInv, ConfigRange, [ConfigNext]_configVars
    PROVE  ConfigRange'
<1>a. /\ ops \in 0 .. MaxOps /\ acked \subseteq Edits /\ DocsInRange /\ MaxOps \in Nat
      /\ docs \in Seq(Documents)
  BY DEF ConfigRange, ConfigAssumption, ConfigInv, StoreInv, StoreTyped
<1>1. CASE UNCHANGED configVars
  BY <1>1 DEF configVars, ConfigRange, DocsInRange, InRange
<1>2. ASSUME NEW c \in Clients
      PROVE  client[c] \in Clientele /\ InRange(client[c], DOMAIN docs) /\ Fitting(client[c])
  BY DEF ConfigInv, StoreInv, StoreTyped, ConfigRange
<1>3. ASSUME NEW c \in Clients, NEW op \in EditOps \cup {"view", "priority"}, Request(c, op)
      PROVE  ConfigRange'
  <2>1. PICK e \in Edits : e = ops'
    BY <1>3, <1>a DEF Request, Edits
  <2>2. PICK copy : copy = IF op = "import" THEN [Fresh EXCEPT !.others = {e}] ELSE Fresh
    OBVIOUS
  <2>3. copy.sources \cup copy.others \subseteq Edits
    BY <2>2 DEF Fresh
  <2> DEFINE stage == CASE op = "import" -> "off" [] op = "priority" -> "regroup" [] OTHER -> "read"
             new == [Idle EXCEPT !.op = op, !.edit = e, !.at = stage, !.copy = copy]
  <2>4. client' = [client EXCEPT ![c] = new]
    BY <1>3, <2>1, <2>2 DEF Request
  <2>5. stage # "idle" /\ new.at = stage /\ new.edit = e /\ new.id = 0 /\ new.copy = copy
    BY DEF Idle
  <2> HIDE DEF new, stage
  <2>6. InRange(new, DOMAIN docs) /\ ops' \in 0 .. MaxOps
    BY <1>a, <2>1, <2>3, <2>5 DEF InRange, Edits
  <2>7. UNCHANGED <<docs, acked>>
    BY <1>3 DEF Request
  <2> QED BY <1>a, <2>4, <2>6, <2>7, SameDocs, RangeMoves
<1>4. ASSUME NEW i \in Served
      PROVE  /\ Content(i) \in Copies /\ i \in DOMAIN docs
             /\ Content(i).sources \subseteq Edits /\ Content(i).others \subseteq Edits
             /\ docs[i].sources \subseteq Edits
  BY <1>a, ServedIs DEF DocsInRange, ConfigInv, StoreInv
<1>5. ASSUME NEW c \in Clients, Read(c)
      PROVE  ConfigRange'
  <2>1. UNCHANGED <<docs, ops, acked>> /\ client[c].at = "read"
    BY <1>5 DEF Read
  <2>2. ASSUME NEW i \in Served, Got(c, Content(i))
        PROVE  ConfigRange'
    BY <1>4, <1>a, <2>1, <2>2, GotInRange
  <2>3. CASE Moves(c, "createOff")
    BY <1>a, <2>1, <2>3, SameDocs, StageInRange
  <2> QED BY <1>5, <2>2, <2>3 DEF Read
<1>6. ASSUME NEW c \in Clients, ReadFails(c)
      PROVE  ConfigRange'
  <2>1. UNCHANGED <<docs, ops, acked>> /\ client[c].at = "read"
    BY <1>6 DEF ReadFails
  <2>2. PICK s \in {{}} \cup {docs[i].sources : i \in Served} : Got(c, [Fresh EXCEPT !.sources = s])
    BY <1>6 DEF ReadFails
  <2>3. s \subseteq Edits
    BY <1>4
  <2>4. /\ [Fresh EXCEPT !.sources = s] \in Copies /\ [Fresh EXCEPT !.sources = s].sources = s
        /\ [Fresh EXCEPT !.sources = s].others = {}
    BY <2>3, <1>a DEF Fresh, Copies, Edits
  <2> QED BY <1>a, <2>1, <2>2, <2>3, <2>4, GotInRange
<1>7. ASSUME NEW c \in Clients, Deactivate(c)
      PROVE  ConfigRange'
  <2>1. /\ docs' = SwitchedOff /\ UNCHANGED <<ops, acked>> /\ client[c].at # "idle"
        /\ Moves(c, IF client[c].at = "off" THEN "in" ELSE "createIn")
    BY <1>7 DEF Deactivate
  <2>2. DOMAIN docs' = DOMAIN docs
    BY <2>1 DEF SwitchedOff
  <2>3. ASSUME NEW i \in DOMAIN docs
        PROVE  docs'[i].sources = docs[i].sources /\ docs'[i].others = docs[i].others
    <3>1. docs[i] \in Documents
      BY <1>a, LenProperties
    <3> QED BY <2>1, <3>1 DEF SwitchedOff, Documents
  <2>4. DocsInRange'
    BY <1>a, <2>2, <2>3 DEF DocsInRange
  <2>5. PICK stage : stage = (IF client[c].at = "off" THEN "in" ELSE "createIn") /\ stage # "idle"
    OBVIOUS
  <2> QED BY <2>1, <2>2, <2>4, <2>5, StageInRange
<1>8. ASSUME NEW c \in Clients, InsertDoc(c)
      PROVE  ConfigRange'
  <2>1. PICK stored : stored = Stored(client[c].copy, client[c].at = "createIn")
    OBVIOUS
  <2>2. /\ docs' = Append(docs, stored) /\ UNCHANGED <<ops, acked>> /\ client[c].at # "idle"
        /\ Moves(c, IF client[c].at = "in" THEN "check" ELSE "createCheck")
    BY <1>8, <2>1 DEF InsertDoc
  <2>3. stored.sources \subseteq Edits /\ stored.others \subseteq Edits
    BY <1>2, <2>1 DEF Stored, InRange
  <2>4. PICK n \in Nat : n = Len(docs) /\ DOMAIN docs = 1 .. n
    BY <1>a, LenProperties
  <2>5. /\ DOMAIN docs' = 1 .. n + 1 /\ docs'[n + 1] = stored
        /\ \A i \in 1 .. n : docs'[i] = docs[i]
    <3>1. stored \in Documents
      <4>1. client[c].copy \in Copies
        BY <1>2 DEF Clientele
      <4> QED BY <2>1, <4>1 DEF Stored, Copies, Documents
    <3> QED BY <1>a, <2>2, <2>4, <3>1, AppendProperties, LenProperties
  <2>6. DOMAIN docs \subseteq DOMAIN docs' /\ DocsInRange'
    BY <1>a, <2>3, <2>4, <2>5 DEF DocsInRange
  <2>7. PICK stage : stage = (IF client[c].at = "in" THEN "check" ELSE "createCheck") /\ stage # "idle"
    OBVIOUS
  <2> QED BY <2>2, <2>6, <2>7, StageInRange
<1>9. [Fresh EXCEPT !.version = 2] \in Copies
  BY IdleIs
<1>10. ASSUME NEW c \in Clients, Confirm(c)
       PROVE  ConfigRange'
  <2>1. UNCHANGED <<docs, ops>>
    BY <1>10 DEF Confirm
  <2>2. CASE /\ client[c].at = "check" /\ Leaves(c)
             /\ acked' = {client[c].edit} \cup (IF client[c].op = "import" THEN {} ELSE acked)
    <3>1. acked' \subseteq Edits
      BY <1>2, <1>a, <2>2 DEF InRange
    <3> QED BY <1>a, <2>1, <2>2, <3>1, SameDocs, IdleInRange, RangeMoves DEF Leaves
  <2>3. CASE /\ client[c].at = "createCheck" /\ Got(c, [Fresh EXCEPT !.version = 2])
             /\ UNCHANGED acked
    BY <1>a, <1>9, <2>1, <2>3, IdleInRange, GotInRange DEF CreateStages
  <2> QED BY <1>10, <2>2, <2>3 DEF Confirm
<1>11. ASSUME NEW c \in Clients, SaveFails(c)
       PROVE  ConfigRange'
  <2>1. UNCHANGED <<docs, ops, acked>>
    BY <1>11 DEF SaveFails
  <2>2. CASE Leaves(c)
    BY <1>a, <2>1, <2>2, SameDocs, IdleInRange, RangeMoves DEF Leaves
  <2>3. CASE /\ client[c].at \in {"createOff", "createIn", "createCheck"}
             /\ Got(c, [Fresh EXCEPT !.version = 2])
    BY <1>a, <1>9, <2>1, <2>3, IdleInRange, GotInRange DEF CreateStages
  <2> QED BY <1>11, <2>2, <2>3 DEF SaveFails
<1>12. ASSUME NEW c \in Clients, Regroup(c) \/ Reread(c) \/ PriorityFails(c)
       PROVE  ConfigRange'
  <2>1. UNCHANGED <<docs, ops, acked>>
    BY <1>12 DEF Regroup, Reread, PriorityFails
  <2>2. CASE Leaves(c)
    BY <1>a, <2>1, <2>2, SameDocs, IdleInRange, RangeMoves DEF Leaves
  <2>3. CASE Regroup(c)
    BY <1>a, <2>1, <2>3, SameDocs, StageInRange DEF Regroup
  <2>4. ASSUME NEW i \in Served, client[c].at = "reread",
               client' = [client EXCEPT ![c].copy = Content(i), ![c].id = i, ![c].at = "inPlace"]
        PROVE  ConfigRange'
    <3>1. PICK k \in Clientele : k = client[c] /\ InRange(k, DOMAIN docs)
      BY <1>2
    <3>2. PICK copy : copy = Content(i)
      OBVIOUS
    <3> DEFINE new == [k EXCEPT !.copy = copy, !.id = i, !.at = "inPlace"]
    <3>3. client' = [client EXCEPT ![c] = new]
      BY <2>4, <3>1, <3>2
    <3>4. new.at = "inPlace" /\ new.copy = copy /\ new.edit = k.edit /\ new.id = i
      BY <3>1 DEF Clientele
    <3> HIDE DEF new
    <3>5. InRange(new, DOMAIN docs)
      BY <1>4, <2>4, <3>1, <3>2, <3>4 DEF InRange
    <3> QED BY <1>a, <2>1, <3>3, <3>5, SameDocs, RangeMoves
  <2> QED BY <1>12, <2>2, <2>3, <2>4 DEF Reread, PriorityFails
<1>13. ASSUME NEW c \in Clients, WriteInPlace(c)
       PROVE  ConfigRange'
  <2>1. PICK k \in Clientele : k = client[c] /\ InRange(k, DOMAIN docs) /\ k.at = "inPlace"
    BY <1>2, <1>13 DEF WriteInPlace
  <2>2. /\ docs' = [docs EXCEPT ![k.id].sources = k.copy.sources \cup {k.edit},
                                ![k.id].version = k.copy.version + 1]
        /\ Leaves(c) /\ UNCHANGED <<ops, acked>>
    BY <1>13, <2>1 DEF WriteInPlace, InPlace
  <2>3. DOMAIN docs' = DOMAIN docs
    BY <2>2
  <2>4. k.copy.sources \cup {k.edit} \subseteq Edits
    BY <2>1 DEF InRange
  <2>5. ASSUME NEW i \in DOMAIN docs
        PROVE  docs'[i].sources \subseteq Edits /\ docs'[i].others \subseteq Edits
    <3>1. docs[i] \in Documents
      BY <1>a, LenProperties
    <3>2. CASE i # k.id
      BY <1>a, <2>2, <3>2 DEF DocsInRange
    <3>3. CASE i = k.id
      <4>1. /\ docs'[i].sources = k.copy.sources \cup {k.edit}
            /\ docs'[i].others = docs[i].others
        BY <2>2, <3>1, <3>3 DEF Documents
      <4> QED BY <1>a, <2>4, <4>1 DEF DocsInRange
    <3> QED BY <3>2, <3>3
  <2>6. DocsInRange'
    BY <2>3, <2>5 DEF DocsInRange
  <2> QED BY <1>a, <2>2, <2>3, <2>6, IdleInRange, RangeMoves DEF Leaves
<1> QED BY <1>1, <1>3, <1>5, <1>6, <1>7, <1>8, <1>10, <1>11, <1>12, <1>13 DEF ConfigNext

\* Every variable of the configuration stays in its domain: documents and copies
\* reflect only edits that were made, a request that has ended keeps nothing,
\* and whoever is to write in place names a document that is stored.
THEOREM ConfigTypeCorrect == ConfigSpec => []ConfigTypeOK
<1> USE ConfigAssumption
<1>1. ConfigInit => ConfigRange
  <2> SUFFICES ASSUME ConfigInit PROVE ConfigRange
    OBVIOUS
  <2>1. docs = <<>> /\ ops = 0 /\ acked = {} /\ \A c \in Clients : client[c] = Idle
    BY DEF ConfigInit
  <2>2. DocsInRange
    BY <2>1 DEF DocsInRange
  <2>3. ops \in 0 .. MaxOps
    BY <2>1 DEF ConfigAssumption
  <2> QED BY <2>1, <2>2, <2>3, IdleInRange DEF ConfigRange
<1>2. ConfigInv /\ ConfigRange /\ [ConfigNext]_configVars => ConfigRange'
  BY RangeStep
<1>3. ConfigInv /\ ConfigRange => ConfigTypeOK
  <2> SUFFICES ASSUME ConfigInv, ConfigRange
               PROVE  ConfigTypeOK
    OBVIOUS
  <2>1. ASSUME NEW i \in DOMAIN docs
        PROVE  docs[i] \in [version : Nat, sources : SUBSET Edits, others : SUBSET Edits,
                            active : BOOLEAN, default : BOOLEAN]
    <3>1. docs[i] \in Documents
      BY LenProperties DEF ConfigInv, StoreInv, StoreTyped
    <3> QED BY <3>1 DEF Documents, ConfigRange, DocsInRange
  <2>2. ASSUME NEW c \in Clients
        PROVE  /\ client[c].at \in {"idle", "read", "createOff", "createIn", "createCheck",
                                    "off", "in", "check", "regroup", "reread", "inPlace"}
               /\ client[c].at = "idle" <=> client[c] = Idle
               /\ client[c].edit \in 0 .. MaxOps /\ client[c].id \in {0} \cup DOMAIN docs
               /\ client[c].copy.sources \cup client[c].copy.others \subseteq Edits
    <3>1. client[c] \in Clientele
      BY DEF ConfigInv, StoreInv, StoreTyped
    <3>2. client[c].at \in {"idle", "read", "createOff", "createIn", "createCheck",
                            "off", "in", "check", "regroup", "reread", "inPlace"}
      BY <3>1 DEF Clientele, InsertStages, CreateStages
    <3>3. client[c] = Idle => client[c].at = "idle"
      BY IdleIs
    <3> QED BY <3>2, <3>3 DEF ConfigRange, InRange
  <2> QED BY <2>1, <2>2 DEF ConfigTypeOK, ConfigRange
<1> QED BY <1>1, <1>2, <1>3, ConfigHolds, PTL DEF ConfigSpec

-----------------------------------------------------------------------------
\* The domains of the notifications.

\* A creation carries only what its stage uses, and one that has yet to insert
\* names a notification that was handed out.
CreationTidy(k, last) ==
    /\ k.at = "idle" => k = NoCreation
    /\ k.at # "send" => k.todo = {} /\ k.dead = {}
    /\ k.at \in {"find", "delete"} <=> k.count > MaxPerUser
    /\ k.at = "insert" => k.id \in 1 .. last

NotesRange ==
    /\ notes \subseteq 1 .. lastNote /\ lastNote \in 0 .. MaxNotes /\ expired \in 0 .. lastNote
    /\ crossed \in BOOLEAN
    /\ \A c \in Creators : CreationTidy(creator[c], lastNote)

LEMMA NoCreationTidy == \A last : CreationTidy(NoCreation, last)
<1>1. ~ (0 > MaxPerUser)
  BY NotesAssumption
<1>2. /\ NoCreation.at = "idle" /\ NoCreation.todo = {} /\ NoCreation.dead = {}
      /\ NoCreation.count = 0
  BY DEF NoCreation
<1> QED BY <1>1, <1>2 DEF CreationTidy

\* A step of one creation.
LEMMA TidyCreation ==
    ASSUME NotesInv, NotesRange, NEW c \in Creators, NEW new,
           creator' = [creator EXCEPT ![c] = new], CreationTidy(new, lastNote'),
           lastNote' \in lastNote .. MaxNotes, notes' \subseteq 1 .. lastNote',
           expired' = expired, crossed' \in BOOLEAN
    PROVE  NotesRange'
<1>1. lastNote \in Nat /\ lastNote' \in Nat /\ MaxNotes \in Nat
  BY NotesAssumption DEF NotesRange
<1>2. 1 .. lastNote \subseteq 1 .. lastNote' /\ lastNote' \in 0 .. MaxNotes
      /\ expired' \in 0 .. lastNote'
  BY <1>1 DEF NotesRange
<1>3. ASSUME NEW d \in Creators
      PROVE  CreationTidy(creator'[d], lastNote')
  <2>1. creator'[d] = IF d = c THEN new ELSE creator[d]
    BY DEF NotesInv, NotesTyped
  <2>2. CASE d # c
    BY <1>2, <2>1, <2>2 DEF NotesRange, CreationTidy
  <2> QED BY <2>1, <2>2
<1> QED BY <1>2, <1>3 DEF NotesRange, CreationTidy

LEMMA NotesRangeStep ==
    ASSUME NotesInv, NotesRange, [NotesNext]_notesVars
    PROVE  NotesRange'
<1>a. /\ lastNote \in Nat /\ expired \in Nat /\ MaxNotes \in Nat /\ lastNote \in lastNote .. MaxNotes
      /\ notes \subseteq 1 .. lastNote /\ crossed \in BOOLEAN /\ MaxPerUser \in Nat
  BY NotesAssumption DEF NotesRange
<1>b. ASSUME NEW c \in Creators
      PROVE  creator[c] \in Creations /\ CreationTidy(creator[c], lastNote)
  BY DEF NotesInv, NotesTyped, NotesRange
<1>1. CASE UNCHANGED notesVars
  BY <1>1 DEF notesVars, NotesRange, CreationTidy
<1>2. ASSUME NEW w \in Sockets, Connect(w) \/ Greet(w) \/ GreetRaises(w) \/ Disconnect(w)
      PROVE  NotesRange'
  <2>1. UNCHANGED <<notes, lastNote, expired, creator, crossed>>
    BY <1>2 DEF Connect, Greet, GreetRaises, Disconnect
  <2> QED BY <2>1 DEF NotesRange, CreationTidy
<1>3. ASSUME NEW w \in Sockets, HangUp(w)
      PROVE  NotesRange'
  <2>1. UNCHANGED <<notes, lastNote, expired, crossed>>
    BY <1>3 DEF HangUp
  <2>2. ASSUME NEW c \in Creators
        PROVE  CreationTidy(creator'[c], lastNote)
    <3>1. PICK k \in Creations : k = creator[c] /\ CreationTidy(k, lastNote)
      BY <1>b
    <3>2. PICK l : l = [k EXCEPT !.owed = @ \ {w}]
      OBVIOUS
    <3>3. creator'[c] = l
      BY <1>3, <3>1, <3>2 DEF HangUp
    <3>4. /\ l.at = k.at /\ l.todo = k.todo /\ l.dead = k.dead /\ l.count = k.count /\ l.id = k.id
      BY <3>2 DEF Creations
    <3>5. k.at = "idle" => l = NoCreation
      <4>1. SUFFICES ASSUME k = NoCreation PROVE l = NoCreation
        BY <3>1 DEF CreationTidy
      <4> QED BY <3>2, <4>1 DEF NoCreation
    <3> QED BY <3>1, <3>3, <3>4, <3>5 DEF CreationTidy
  <2> QED BY <2>1, <2>2 DEF NotesRange, CreationTidy
<1>4. CASE Expire
  <2>1. /\ notes # {} /\ expired' = Min(notes)
        /\ UNCHANGED <<notes, lastNote, creator, crossed>>
    BY <1>4 DEF Expire
  <2>2. Min(notes) \in notes
    <3>1. \E x \in notes : \A y \in notes : x <= y
      <4>1. notes \subseteq Nat
        BY DEF NotesInv, NotesTyped
      <4> QED BY <2>1, <4>1, LeastNat
    <3> QED BY <3>1 DEF Min
  <2>3. expired' \in 0 .. lastNote
    <3>1. PICK x \in notes : x = expired'
      BY <2>1, <2>2
    <3>2. x \in 1 .. lastNote
      BY <1>a
    <3> QED BY <1>a, <3>1, <3>2
  <2> QED BY <2>1, <2>3 DEF NotesRange, CreationTidy
<1>5. ASSUME NEW c \in Creators, Create(c)
      PROVE  NotesRange'
  <2> DEFINE new == [NoCreation EXCEPT !.at = "insert", !.id = lastNote',
                             !.owed = {w \in Sockets : socket[w] = "open"},
                             !.lingering = {w \in listed : socket[w] = "over"}]
  <2>1. /\ creator' = [creator EXCEPT ![c] = new] /\ lastNote' = lastNote + 1
        /\ lastNote < MaxNotes /\ UNCHANGED <<notes, expired>>
    BY <1>5 DEF Create
  <2>2. /\ new.at = "insert" /\ new.todo = {} /\ new.dead = {} /\ new.count = 0
        /\ new.id = lastNote'
    BY DEF NoCreation
  <2> HIDE DEF new
  <2>3. crossed' \in BOOLEAN
    BY <1>5 DEF Create
  <2>4. lastNote' \in lastNote .. MaxNotes /\ notes' \subseteq 1 .. lastNote' /\ lastNote' \in 1 .. lastNote'
    BY <1>a, <2>1
  <2>5. ~ (0 > MaxPerUser)
    BY <1>a
  <2>6. CreationTidy(new, lastNote')
    BY <2>2, <2>4, <2>5 DEF CreationTidy
  <2> QED BY <2>1, <2>3, <2>4, <2>6, TidyCreation
<1>6. ASSUME NEW c \in Creators, InsertNote(c)
      PROVE  NotesRange'
  <2> DEFINE new == [creator[c] EXCEPT !.at = "send", !.todo = listed]
  <2>1. /\ creator' = [creator EXCEPT ![c] = new] /\ UNCHANGED <<lastNote, expired, crossed>>
        /\ notes' = notes \cup {creator[c].id} /\ creator[c].at = "insert"
    BY <1>6 DEF InsertNote, NotesInv, NotesTyped
  <2>2. new.at = "send" /\ new.count = creator[c].count
    BY <1>b DEF Creations
  <2> HIDE DEF new
  <2>3. CreationTidy(new, lastNote) /\ creator[c].id \in 1 .. lastNote
    BY <1>b, <2>1, <2>2 DEF CreationTidy
  <2>4. notes' \subseteq 1 .. lastNote'
    BY <1>a, <2>1, <2>3
  <2> QED BY <1>a, <2>1, <2>3, <2>4, TidyCreation
<1>7. ASSUME NEW c \in Creators, NEW new, creator' = [creator EXCEPT ![c] = new],
             notes' \subseteq notes, UNCHANGED <<lastNote, expired, crossed>>,
             CreationTidy(new, lastNote)
      PROVE  NotesRange'
  BY <1>a, <1>7, TidyCreation
<1>8. ASSUME NEW c \in Creators, NEW w \in Sockets, Send(c, w)
      PROVE  NotesRange'
  <2>0. PICK k \in Creations : k = creator[c] /\ CreationTidy(k, lastNote) /\ k.at = "send"
    BY <1>b, <1>8 DEF Send
  <2>1. PICK new : /\ creator' = [creator EXCEPT ![c] = new]
                   /\ new.at = k.at /\ new.count = k.count
    <3>1. CASE creator' = [creator EXCEPT ![c].todo = @ \ {w}, ![c].owed = @ \ {w}]
      <4> WITNESS [k EXCEPT !.todo = @ \ {w}, !.owed = @ \ {w}]
      <4> QED BY <2>0, <3>1 DEF Creations
    <3>2. CASE creator' = [creator EXCEPT ![c].todo = @ \ {w}, ![c].dead = @ \cup {w}]
      <4> WITNESS [k EXCEPT !.todo = @ \ {w}, !.dead = @ \cup {w}]
      <4> QED BY <2>0, <3>2 DEF Creations
    <3> QED BY <1>8, <3>1, <3>2 DEF Send
  <2>2. CreationTidy(new, lastNote)
    BY <2>0, <2>1 DEF CreationTidy
  <2>3. UNCHANGED <<notes, lastNote, expired, crossed>>
    BY <1>8 DEF Send
  <2> QED BY <1>7, <2>1, <2>2, <2>3
<1>9. ASSUME NEW c \in Creators, DropDead(c)
      PROVE  NotesRange'
  <2>0. PICK k \in Creations : k = creator[c] /\ CreationTidy(k, lastNote) /\ k.at = "send" /\ k.todo = {}
    BY <1>b, <1>9 DEF DropDead
  <2> DEFINE new == [k EXCEPT !.at = "expire", !.dead = {}]
  <2>1. creator' = [creator EXCEPT ![c] = new] /\ UNCHANGED <<notes, lastNote, expired, crossed>>
    BY <1>9, <2>0 DEF DropDead
  <2>2. new.at = "expire" /\ new.todo = {} /\ new.dead = {} /\ new.count = k.count
    BY <2>0 DEF Creations
  <2> HIDE DEF new
  <2>3. CreationTidy(new, lastNote)
    BY <2>0, <2>2 DEF CreationTidy
  <2> QED BY <1>7, <2>1, <2>3
<1>10. ASSUME NEW c \in Creators, DeleteExpired(c)
       PROVE  NotesRange'
  <2> DEFINE new == [NoCreation EXCEPT !.at = "count", !.id = creator[c].id]
  <2>1. /\ creator' = [creator EXCEPT ![c] = new] /\ UNCHANGED <<lastNote, expired, crossed>>
        /\ notes' \subseteq notes
    BY <1>10 DEF DeleteExpired
  <2>2. new.at = "count" /\ new.todo = {} /\ new.dead = {} /\ new.count = 0
    BY DEF NoCreation
  <2> HIDE DEF new
  <2>3. ~ (0 > MaxPerUser)
    BY <1>a
  <2>4. CreationTidy(new, lastNote)
    BY <2>2, <2>3 DEF CreationTidy
  <2> QED BY <1>7, <2>1, <2>4
<1>11. ASSUME NEW c \in Creators, CountNotes(c)
       PROVE  NotesRange'
  <2>0. PICK k \in Creations : k = creator[c] /\ CreationTidy(k, lastNote) /\ k.at = "count"
    BY <1>b, <1>11 DEF CountNotes
  <2>1. PICK n : n = Cardinality(notes)
    OBVIOUS
  <2>2. UNCHANGED <<notes, lastNote, expired, crossed>>
    BY <1>11 DEF CountNotes
  <2>3. CASE n > MaxPerUser
    <3> DEFINE new == [k EXCEPT !.at = "find", !.count = n]
    <3>1. creator' = [creator EXCEPT ![c] = new]
      BY <1>11, <2>0, <2>1, <2>3 DEF CountNotes
    <3>2. /\ new.at = "find" /\ new.todo = k.todo /\ new.dead = k.dead /\ new.count = n
      BY <2>0 DEF Creations
    <3> HIDE DEF new
    <3>3. CreationTidy(new, lastNote)
      BY <2>0, <2>3, <3>2 DEF CreationTidy
    <3> QED BY <1>7, <2>2, <3>1, <3>3
  <2>4. CASE ~ (n > MaxPerUser)
    <3>1. creator' = [creator EXCEPT ![c] = NoCreation]
      BY <1>11, <2>1, <2>4 DEF CountNotes
    <3> QED BY <1>7, <2>2, <3>1, NoCreationTidy
  <2> QED BY <2>3, <2>4
<1>12. ASSUME NEW c \in Creators, FindOldest(c)
       PROVE  NotesRange'
  <2>0. PICK k \in Creations : k = creator[c] /\ CreationTidy(k, lastNote) /\ k.at = "find"
    BY <1>b, <1>12 DEF FindOldest
  <2>1. PICK found : found = Oldest(Excess(k.count))
    OBVIOUS
  <2> DEFINE new == [k EXCEPT !.at = "delete", !.ids = found]
  <2>2. creator' = [creator EXCEPT ![c] = new] /\ UNCHANGED <<notes, lastNote, expired, crossed>>
    BY <1>12, <2>0, <2>1 DEF FindOldest
  <2>3. /\ new.at = "delete" /\ new.todo = k.todo /\ new.dead = k.dead /\ new.count = k.count
    BY <2>0 DEF Creations
  <2> HIDE DEF new
  <2>4. CreationTidy(new, lastNote)
    BY <2>0, <2>3 DEF CreationTidy
  <2> QED BY <1>7, <2>2, <2>4
<1>13. ASSUME NEW c \in Creators, DeleteFound(c) \/ CreationRaises(c)
       PROVE  NotesRange'
  <2>1. /\ creator' = [creator EXCEPT ![c] = NoCreation] /\ notes' \subseteq notes
        /\ UNCHANGED <<lastNote, expired, crossed>>
    BY <1>13 DEF DeleteFound, CreationRaises
  <2> QED BY <1>7, <2>1, NoCreationTidy
<1> QED BY <1>1, <1>2, <1>3, <1>4, <1>5, <1>6, <1>8, <1>9, <1>10, <1>11, <1>12, <1>13
        DEF NotesNext

\* Every variable of the notifications stays in its domain, and a creation
\* carries only what its stage uses: it has sockets to send to only while it
\* sends, and a count above the quota exactly while it deletes by that count.
THEOREM NotesTypeCorrect == NotesSpec => []NotesTypeOK
<1>1. NotesInit => NotesRange
  <2> SUFFICES ASSUME NotesInit PROVE NotesRange
    OBVIOUS
  <2>1. /\ notes = 1 .. lastNote /\ lastNote = MaxPerUser /\ expired = 0 /\ crossed \in BOOLEAN
        /\ \A c \in Creators : creator[c] = NoCreation
    BY DEF NotesInit
  <2>2. lastNote \in 0 .. MaxNotes /\ expired \in 0 .. lastNote
    BY <2>1, NotesAssumption
  <2> QED BY <2>1, <2>2, NoCreationTidy DEF NotesRange
<1>2. NotesInv /\ NotesRange /\ [NotesNext]_notesVars => NotesRange'
  BY NotesRangeStep
<1>3. NotesInv /\ NotesRange => NotesTypeOK
  <2> SUFFICES ASSUME NotesInv, NotesRange PROVE NotesTypeOK
    OBVIOUS
  <2>1. ASSUME NEW c \in Creators
        PROVE  /\ creator[c].at \in {"idle", "insert", "send", "expire", "count", "find", "delete"}
               /\ creator[c].at = "idle" <=> creator[c] = NoCreation
               /\ creator[c].todo \cup creator[c].dead # {} => creator[c].at = "send"
               /\ creator[c].owed \cup creator[c].todo \subseteq Sockets
               /\ creator[c].at \in {"find", "delete"} <=> creator[c].count > MaxPerUser
    <3>1. creator[c] \in Creations /\ CreationTidy(creator[c], lastNote)
      BY DEF NotesInv, NotesTyped, NotesRange
    <3>2. creator[c] = NoCreation => creator[c].at = "idle"
      BY NoCreationIs
    <3> QED BY <3>1, <3>2 DEF Creations, CreationTidy
  <2>2. \A w \in Sockets : socket[w] \in {"new", "greeting", "open", "gone", "over"}
    BY DEF NotesInv, NotesTyped, SocketStages
  <2> QED BY <2>1, <2>2 DEF NotesTypeOK, NotesInv, NotesTyped, NotesRange
<1> QED BY <1>1, <1>2, <1>3, NotesInitInv, NotesNextInv, PTL DEF NotesSpec
=============================================================================
