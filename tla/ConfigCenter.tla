---------------------------- MODULE ConfigCenter ----------------------------
(***************************************************************************)
(* Runtime configuration: internal/core/configcenter/service.go over       *)
(* infrastructure/mysql/config_repository.go.                              *)
(*                                                                         *)
(* An update names the version it expects and the fields it changes. It    *)
(* reads the row without a lock, fills in what the client left out, and    *)
(* writes value and visibility together where the version is the expected  *)
(* one. Values are abstracted to whether they parse as JSON.               *)
(***************************************************************************)
EXTENDS Naturals, FiniteSets

CONSTANTS
    ConfigKeys,       \* (group, key) pairs
    JsonValues,       \* values that are JSON documents
    TextValues,       \* values that are not
    Editors,          \* update requests in progress at the same time
    MaxConfigId,      \* bound: rows ever created
    MaxConfigVersion  \* bound: versions of a row

ASSUME ConfigAssumption ==
    /\ JsonValues \cap TextValues = {}
    /\ {MaxConfigId, MaxConfigVersion} \subseteq Nat

ConfigValues == JsonValues \cup TextValues
Visibilities == {"admin", "public"}

ConfigRows == [id : Nat, format : {"string", "json"}, encrypted : BOOLEAN,
               visibility : Visibilities, value : ConfigValues, version : Nat]

NoEdit == [kind |-> "none"]

\* An update under way: the row it read by key, id and version, and the whole row it
\* will write where the version is the one the client expects.
Edits == [kind : {"update"}, key : ConfigKeys, id : Nat, read : Nat, expected : Nat,
          set : SUBSET {"value", "visibility"}, value : ConfigValues, visibility : Visibilities]

VARIABLES
    config,     \* the rows, a function on the keys that have one
    lastId,     \* ids given out
    edit        \* edit[e]: what update request e has read, and what it asks for

configVars == <<config, lastId, edit>>

ConfigInit ==
    /\ config = [k \in {} |-> [id |-> 0]]
    /\ lastId = 0
    /\ edit = [e \in Editors |-> NoEdit]

-----------------------------------------------------------------------------
validateValue(format, value) == format = "json" => value \in JsonValues

\* Public configuration is unencrypted JSON.
validVisibility(format, encrypted, visibility) ==
    visibility = "public" => format = "json" /\ ~encrypted

CreateConfig(k, format, visibility, encrypted, value) ==
    /\ lastId < MaxConfigId
    /\ validateValue(format, value)
    /\ validVisibility(format, encrypted, visibility)
    /\ k \notin DOMAIN config
    /\ config' = [j \in DOMAIN config \cup {k} |->
                     IF j # k THEN config[j]
                     ELSE [id |-> lastId + 1, format |-> format, encrypted |-> encrypted,
                           visibility |-> visibility, value |-> value, version |-> 1]]
    /\ lastId' = lastId + 1
    /\ UNCHANGED edit

\* Update, first half: the row is read and the request's fields are checked against
\* it. The version the client expects is not: the WHERE of the write is the first to
\* compare it. `set` names the fields the request gives.
ReadConfig(e, k, expected, set, value, visibility) ==
    LET c == config[k] IN
    /\ edit[e] = NoEdit
    /\ "value" \in set => validateValue(c.format, value)
    /\ "visibility" \in set => validVisibility(c.format, c.encrypted, visibility)
    /\ edit' = [edit EXCEPT ![e] =
                   [kind |-> "update", key |-> k, id |-> c.id, read |-> c.version,
                    expected |-> expected, set |-> set,
                    value |-> IF "value" \in set THEN value ELSE c.value,
                    visibility |-> IF "visibility" \in set THEN visibility ELSE c.visibility]]
    /\ UNCHANGED <<config, lastId>>

\* Mutant: the row is written whatever its version.
MatchesAnyVersion(e) == edit[e].key \in DOMAIN config /\ config[edit[e].key].id = edit[e].id

\* The WHERE of UpdateVersion.
Matches(e) ==
    /\ edit[e].key \in DOMAIN config
    /\ config[edit[e].key].id = edit[e].id /\ config[edit[e].key].version = edit[e].expected

\* Update, second half: UpdateVersion, or a version conflict.
UpdateVersion(e) ==
    /\ edit[e] # NoEdit
    /\ Matches(e) => edit[e].expected < MaxConfigVersion
    /\ config' = IF ~Matches(e) THEN config
                 ELSE [config EXCEPT ![edit[e].key].value = edit[e].value,
                                     ![edit[e].key].visibility = edit[e].visibility,
                                     ![edit[e].key].version = edit[e].expected + 1]
    /\ edit' = [edit EXCEPT ![e] = NoEdit]
    /\ UNCHANGED lastId

DeleteConfig(k, expected) ==
    /\ config[k].version = expected
    /\ config' = [j \in DOMAIN config \ {k} |-> config[j]]
    /\ UNCHANGED <<lastId, edit>>

ConfigNext ==
    \/ \E k \in ConfigKeys, format \in {"string", "json"}, visibility \in Visibilities,
          encrypted \in BOOLEAN, value \in ConfigValues :
          CreateConfig(k, format, visibility, encrypted, value)
    \/ \E k \in DOMAIN config, expected \in 1 .. MaxConfigVersion :
          \/ DeleteConfig(k, expected)
          \/ \E e \in Editors, set \in SUBSET {"value", "visibility"}, value \in ConfigValues,
                visibility \in Visibilities : ReadConfig(e, k, expected, set, value, visibility)
    \/ \E e \in Editors : UpdateVersion(e)

ConfigSpec == ConfigInit /\ [][ConfigNext]_configVars

-----------------------------------------------------------------------------
\* Runtime: the document an anonymous reader gets, if any.
RuntimeShows(k) ==
    /\ k \in DOMAIN config
    /\ config[k].format = "json" /\ config[k].visibility = "public" /\ ~config[k].encrypted

ConfigTypeOK ==
    /\ \A k \in DOMAIN config : k \in ConfigKeys /\ config[k] \in ConfigRows
    /\ lastId \in 0 .. MaxConfigId
    /\ edit \in [Editors -> Edits \cup {NoEdit}]

\* The version the client expects is one it has been shown: not a later one than that
\* of the row its request then reads.
NotAhead(d) == d.expected <= d.read

\* Edits compose: an update changes the fields its request named and no other,
\* although it writes back all of them as it read them before. That is promised to
\* clients that name a version they have seen: a request ahead of the row it reads
\* is written when an update of somebody else has brought the row to its version,
\* with the fields of before that update. Whatever version is named, an update takes
\* the row one version on, and a row that is written stays one a reader can be
\* shown: it parses in its format, and is only public where that is allowed.
EditsCompose ==
    [][\A k \in DOMAIN config \cap DOMAIN config' :
          config'[k] # config[k] /\ config'[k].id = config[k].id =>
              /\ config'[k].version = config[k].version + 1
              /\ \E e \in Editors :
                    /\ edit[e] # NoEdit /\ edit'[e] = NoEdit
                    /\ NotAhead(edit[e]) =>
                          /\ "value" \notin edit[e].set => config'[k].value = config[k].value
                          /\ "visibility" \notin edit[e].set =>
                                config'[k].visibility = config[k].visibility
              /\ validateValue(config'[k].format, config'[k].value)
              /\ config'[k].visibility = "public" => RuntimeShows(k)']_configVars
=============================================================================
