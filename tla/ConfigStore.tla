----------------------------- MODULE ConfigStore -----------------------------
(***************************************************************************)
(* The system configuration: ConfigService (app/services/config_service.py)*)
(* and the handlers of app/routers/config.py that edit it.                 *)
(*                                                                         *)
(* Every edit reads the active document of system_configs, changes its     *)
(* copy, marks whatever is active inactive and inserts the copy.  A        *)
(* priority update writes the data sources of the document it has read in  *)
(* place.  Whoever finds no active document stores the default one first,  *)
(* readers included; whoever cannot read falls back to files.  Each Mongo  *)
(* call is a step; requests interleave between them.                       *)
(*                                                                         *)
(* A document is the edits it reflects, those to the data sources apart    *)
(* from all others.  Model catalogues, providers, the connection tests and *)
(* what an edit checks in its copy are left out: any edit may be refused.  *)
(***************************************************************************)
EXTENDS Naturals, Sequences, FiniteSets, FiniteSetsExt

CONSTANTS
    Clients,        \* requests in progress
    MaxOps,         \* bound: requests
    MaxFaults       \* bound: calls that raise

ASSUME ConfigAssumption == IsFiniteSet(Clients) /\ MaxOps \in Nat /\ MaxFaults \in Nat

VARIABLES
    docs,           \* system_configs, oldest first
    client,         \* per request: its operation, stage, copy of a document
    ops, faults,    \* of those MaxOps and MaxFaults bound
    acked,          \* history: edits reported as saved, since the last import
    raced           \* history: see Overlap

configVars == <<docs, client, ops, faults, acked, raced>>

Edits == 1 .. MaxOps
EditOps == {"source", "other", "import"}
Idle == [op |-> "none", edit |-> 0, at |-> "idle", id |-> 0,
         copy |-> [version |-> 0, sources |-> {}, others |-> {}]]

\* SystemConfig() has version 1; the default and the files reflect no edit.
Fresh == [version |-> 1, sources |-> {}, others |-> {}]

ConfigTypeOK ==
    /\ \A i \in DOMAIN docs :
          docs[i] \in [version : Nat, sources : SUBSET Edits, others : SUBSET Edits,
                       active : BOOLEAN, default : BOOLEAN]
    /\ \A c \in Clients :
          /\ client[c].at \in {"idle", "read", "createOff", "createIn", "createCheck",
                               "off", "in", "check", "regroup", "reread", "inPlace"}
          /\ client[c].at = "idle" <=> client[c] = Idle
          /\ client[c].edit \in 0 .. MaxOps /\ client[c].id \in {0} \cup DOMAIN docs
          /\ client[c].copy.sources \cup client[c].copy.others \subseteq Edits
    /\ acked \subseteq Edits

ConfigInit ==
    /\ docs = <<>> /\ client = [c \in Clients |-> Idle]
    /\ ops = 0 /\ faults = 0 /\ acked = {} /\ raced = FALSE

-----------------------------------------------------------------------------
Active == {i \in DOMAIN docs : docs[i].active}

\* find_one({"is_active": True}, sort=[("version", -1)]): any of the newest.
Served == {i \in Active : \A j \in Active : docs[j].version <= docs[i].version}

Content(i) == [version |-> docs[i].version, sources |-> docs[i].sources, others |-> docs[i].others]

\* The client is between its copy and the end of a save, or may yet save.
Saves(c) == client[c].op \in EditOps \/ client[c].at \in {"createOff", "createIn", "createCheck"}

OtherSaves(c) == \E d \in Clients \ {c} : Saves(d)

Moves(c, stage) == client' = [client EXCEPT ![c].at = stage]

Leaves(c) == client' = [client EXCEPT ![c] = Idle]

Fault == faults < MaxFaults /\ faults' = faults + 1

\* An edit to the client's copy; an import is a copy of its own.
Edited(c, copy) ==
    LET e == client[c].edit IN
    CASE client[c].op = "source" -> [copy EXCEPT !.sources = @ \cup {e}]
      [] client[c].op = "other"  -> [copy EXCEPT !.others = @ \cup {e}]

\* get_system_config has returned copy: a reader is done, an edit is refused
\* or goes on to save.
Got(c, copy) ==
    \/ Leaves(c)
    \/ /\ client[c].op \in EditOps
       /\ client' = [client EXCEPT ![c].copy = Edited(c, copy), ![c].at = "off"]

-----------------------------------------------------------------------------
\* A request comes in.  Two that may save at the same time overlap.
Request(c, op) ==
    /\ client[c] = Idle /\ ops < MaxOps /\ ops' = ops + 1
    /\ client' = [client EXCEPT ![c] =
          [Idle EXCEPT !.op = op, !.edit = ops',
                       !.at = CASE op = "import" -> "off" [] op = "priority" -> "regroup"
                                [] OTHER -> "read",
                       !.copy = IF op = "import" THEN [Fresh EXCEPT !.others = {ops'}] ELSE Fresh]]
    /\ raced' = (raced \/ (op \in EditOps /\ OtherSaves(c)))
    /\ UNCHANGED <<docs, faults, acked>>

\* get_system_config: the newest active document, or the default to be stored,
\* an overlap if another client is about to store one.
Read(c) ==
    /\ client[c].at = "read"
    /\ \/ /\ \E i \in Served : Got(c, Content(i))
          /\ UNCHANGED raced
       \/ /\ Served = {} /\ Moves(c, "createOff")
          /\ raced' = (raced \/ OtherSaves(c))
    /\ UNCHANGED <<docs, ops, faults, acked>>

\* The find raises: the unified configuration, read from files; its data
\* sources come from a second read of the database, which may succeed.
ReadFails(c) ==
    /\ client[c].at = "read" /\ Fault
    /\ \E s \in {{}} \cup {docs[i].sources : i \in Served} : Got(c, [Fresh EXCEPT !.sources = s])
    /\ UNCHANGED <<docs, ops, acked, raced>>

\* Mutant: nothing is switched off.
SwitchedOff_None == docs

\* update_many({"is_active": True}, ...)
SwitchedOff == [i \in DOMAIN docs |-> [docs[i] EXCEPT !.active = FALSE]]

Deactivate(c) ==
    /\ client[c].at \in {"createOff", "off"}
    /\ docs' = SwitchedOff
    /\ Moves(c, IF client[c].at = "off" THEN "in" ELSE "createIn")
    /\ UNCHANGED <<ops, faults, acked, raced>>

Stored(copy, default) ==
    [version |-> copy.version + 1, sources |-> copy.sources, others |-> copy.others,
     active |-> TRUE, default |-> default]

InsertDoc(c) ==
    /\ client[c].at \in {"createIn", "in"}
    /\ docs' = Append(docs, Stored(client[c].copy, client[c].at = "createIn"))
    /\ Moves(c, IF client[c].at = "in" THEN "check" ELSE "createCheck")
    /\ UNCHANGED <<ops, faults, acked, raced>>

\* The inserted document is found again, and the save has succeeded; who
\* created the default goes on with it.
Confirm(c) ==
    /\ \/ /\ client[c].at = "check" /\ Leaves(c)
          /\ acked' = {client[c].edit} \cup (IF client[c].op = "import" THEN {} ELSE acked)
       \/ /\ client[c].at = "createCheck" /\ Got(c, [Fresh EXCEPT !.version = 2])
          /\ UNCHANGED acked
    /\ UNCHANGED <<docs, ops, faults, raced>>

\* A call of save_system_config raises: the edit is reported as failed; the
\* creation of a default ignores it.
SaveFails(c) ==
    /\ Fault
    /\ \/ client[c].at \in {"off", "in", "check"} /\ Leaves(c)
       \/ /\ client[c].at \in {"createOff", "createIn", "createCheck"}
          /\ Got(c, [Fresh EXCEPT !.version = 2])
    /\ UNCHANGED <<docs, ops, acked, raced>>

-----------------------------------------------------------------------------
\* update_datasource_grouping, update_category_datasource_order: the grouping
\* is written first.
Regroup(c) ==
    /\ client[c].at = "regroup" /\ Moves(c, "reread")
    /\ UNCHANGED <<docs, ops, faults, acked, raced>>

Reread(c) ==
    /\ client[c].at = "reread"
    /\ \/ \E i \in Served :
             client' = [client EXCEPT ![c].copy = Content(i), ![c].id = i, ![c].at = "inPlace"]
       \/ Leaves(c)                         \* none, or none that names the source
    /\ UNCHANGED <<docs, ops, faults, acked, raced>>

\* Mutant: the whole document is written back, not just its data sources.
InPlace_Whole(i, copy, e) ==
    [docs EXCEPT ![i].sources = copy.sources \cup {e}, ![i].others = copy.others,
                 ![i].version = copy.version + 1, ![i].active = TRUE]

InPlace(i, copy, e) ==
    [docs EXCEPT ![i].sources = copy.sources \cup {e}, ![i].version = copy.version + 1]

\* The document read may be inactive by now, and have been written by another.
WriteInPlace(c) ==
    /\ client[c].at = "inPlace"
    /\ docs' = InPlace(client[c].id, client[c].copy, client[c].edit)
    /\ Leaves(c)
    /\ UNCHANGED <<ops, faults, acked, raced>>

PriorityFails(c) ==
    /\ client[c].at \in {"regroup", "reread", "inPlace"} /\ Fault
    /\ Leaves(c)
    /\ UNCHANGED <<docs, ops, acked, raced>>

ConfigNext ==
    \E c \in Clients :
        \/ \E op \in EditOps \cup {"view", "priority"} : Request(c, op)
        \/ Read(c) \/ ReadFails(c)
        \/ Deactivate(c) \/ InsertDoc(c) \/ Confirm(c) \/ SaveFails(c)
        \/ Regroup(c) \/ Reread(c) \/ WriteInPlace(c) \/ PriorityFails(c)

ConfigSpec == ConfigInit /\ [][ConfigNext]_configVars

-----------------------------------------------------------------------------
ConfigAtRest == \A c \in Clients : client[c] = Idle

\* However saves overlap and fail, there are never more active documents than
\* requests at work, so the next save by itself leaves exactly one: each save
\* switches off all it finds before it inserts (save_system_config).
ActiveBounded == Cardinality(Active) <= Cardinality(Clients)

\* Unless a call raises, some document is active whenever no request is at
\* work: the last to switch off inserts after it.
AlwaysServed == faults = 0 /\ ConfigAtRest /\ docs # <<>> => Active # {}

\* However saves overlap, there is an active configuration in the end, and not
\* more of them than there were requests.
ActiveSettles == ActiveBounded /\ AlwaysServed

\* As long as saves do not overlap, no reader meets the gap in the middle of
\* one and no call raises, the active document reflects every edit reported as
\* saved, whatever priority updates run meanwhile: they write the data sources
\* alone, and only of the document they have read.
EditsKept ==
    faults = 0 /\ ~ raced /\ ConfigAtRest =>
        \A i \in Active : acked \subseteq docs[i].sources \cup docs[i].others

\* The default configuration is for a database that has none ("如果没有配置，
\* 创建默认配置"): it is not all that is served once a user has saved another.
DefaultOnlyIfNone ==
    ConfigAtRest /\ Served # {} /\ (\A i \in Served : docs[i].default) =>
        \A j \in DOMAIN docs : docs[j].default
=============================================================================
