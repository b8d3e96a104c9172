---------------------------- MODULE AccountProofs ----------------------------
(* Proofs about the stores an account's standing is kept in: ConfigCenter,  *)
(* Sessions and AcademicVerification, for any sets of rows and requests.    *)
EXTENDS ConfigCenter, Sessions, AcademicVerification, FiniteSetTheorems,
        WellFoundedInduction, TLAPS

-----------------------------------------------------------------------------
(* Sets of numbers.                                                          *)

\* A set of natural numbers that is not empty has a least element.
LEMMA LeastNumber ==
    ASSUME NEW S \in SUBSET Nat, S # {}
    PROVE  \E m \in S : \A n \in S : m <= n
<1>1. PICK m \in S : \A n \in S : ~(<<n, m>> \in OpToRel(<, Nat))
  BY NatLessThanWellFounded, WFMin
<1>2. \A n \in S : ~(n < m)
  BY <1>1 DEF OpToRel
<1> QED
  BY <1>2

\* A finite set of natural numbers that is not empty has a greatest element: the one
\* with the fewest members above it.
LEMMA GreatestNumber ==
    ASSUME NEW S \in SUBSET Nat, IsFiniteSet(S), S # {}
    PROVE  \E m \in S : \A n \in S : m >= n
<1> DEFINE above(x) == {y \in S : y > x}
           counts == {Cardinality(above(x)) : x \in S}
<1>1. \A x \in S : IsFiniteSet(above(x)) /\ Cardinality(above(x)) \in Nat
  BY FS_Subset, FS_CardinalityType
<1>2. counts \in SUBSET Nat /\ counts # {}
  BY <1>1
<1>3. PICK x \in S : \A y \in S : Cardinality(above(x)) <= Cardinality(above(y))
  <2>1. \E c \in counts : \A d \in counts : c <= d
    <3> HIDE DEF counts
    <3> QED
      BY <1>2, LeastNumber
  <2> QED
    BY <2>1
<1>4. ASSUME NEW y \in S, y > x PROVE FALSE
  <2>1. above(y) \subseteq above(x) /\ y \in above(x) /\ y \notin above(y)
    <3>1. ~(y > y) /\ \A z \in S : z > y => z > x
      BY <1>4
    <3> QED
      BY <1>4, <3>1, Zenon
  <2> HIDE DEF above
  <2>2. Cardinality(above(y)) <= Cardinality(above(x))
    BY <1>1, <2>1, FS_Subset
  <2>3. Cardinality(above(y)) = Cardinality(above(x))
    BY <1>1, <1>3, <2>2
  <2> QED
    BY <1>1, <2>1, <2>3, FS_Subset
<1> QED
  BY <1>4

-----------------------------------------------------------------------------
(* ConfigCenter: updates that read first and write later.                    *)

\* A row parses in its format and is public only where that is allowed.
RowIsValid(row) ==
    validateValue(row.format, row.value) /\ validVisibility(row.format, row.encrypted, row.visibility)

\* An update under way knows its row: ids are never given out twice, so where the
\* row still has the id that was read it is the same row; its version is not behind
\* the one read, and while it is equal the fields to be written back are those of
\* the row.
EditKnowsRow(d) ==
    /\ d.id <= lastId
    /\ d.key \in DOMAIN config /\ config[d.key].id = d.id =>
          LET row == config[d.key] IN
          /\ d.read <= row.version
          /\ validateValue(row.format, d.value)
          /\ validVisibility(row.format, row.encrypted, d.visibility)
          /\ row.version = d.read =>
                /\ "value" \notin d.set => d.value = row.value
                /\ "visibility" \notin d.set => d.visibility = row.visibility

\* Inductive.
ConfigInv ==
    /\ ConfigTypeOK
    /\ \A k \in DOMAIN config : RowIsValid(config[k]) /\ config[k].id <= lastId
    /\ \A e \in Editors : edit[e] # NoEdit => EditKnowsRow(edit[e])

\* Without rows and updates there is nothing to know.
LEMMA ConfigInitInv == ConfigInit => ConfigInv
BY ConfigAssumption DEF ConfigInit, ConfigInv, ConfigTypeOK

\* CreateConfig: the new row has an id no update has read.
LEMMA CreateConfigKeeps ==
    ASSUME ConfigInv, NEW k \in ConfigKeys, NEW format \in {"string", "json"},
           NEW visibility \in Visibilities, NEW encrypted \in BOOLEAN, NEW value \in ConfigValues,
           CreateConfig(k, format, visibility, encrypted, value)
    PROVE  ConfigInv'
<1> DEFINE row == [id |-> lastId + 1, format |-> format, encrypted |-> encrypted,
                   visibility |-> visibility, value |-> value, version |-> 1]
<1>1. /\ lastId \in Nat /\ lastId' = lastId + 1 /\ lastId' \in 0 .. MaxConfigId
      /\ edit' = edit /\ edit \in [Editors -> Edits \cup {NoEdit}]
  BY ConfigAssumption DEF ConfigInv, ConfigTypeOK, CreateConfig
<1>2. /\ DOMAIN config' = DOMAIN config \cup {k} /\ k \notin DOMAIN config
      /\ \A j \in DOMAIN config' : config'[j] = IF j # k THEN config[j] ELSE row
  BY DEF CreateConfig
<1>3. row \in ConfigRows /\ row.id = lastId + 1
  BY <1>1 DEF ConfigRows
<1>4. RowIsValid(row)
  BY DEF RowIsValid, CreateConfig
<1> HIDE DEF row
<1>5. \A j \in DOMAIN config : config[j] \in ConfigRows /\ config[j].id \in Nat
  BY DEF ConfigInv, ConfigTypeOK, ConfigRows
<1>6. ConfigTypeOK'
  BY <1>1, <1>2, <1>3 DEF ConfigInv, ConfigTypeOK
<1>7. \A j \in DOMAIN config' : RowIsValid(config'[j]) /\ config'[j].id <= lastId'
  BY <1>1, <1>2, <1>3, <1>4, <1>5 DEF ConfigInv
<1>8. ASSUME NEW e \in Editors, edit[e] # NoEdit PROVE EditKnowsRow(edit[e])'
  <2>1. EditKnowsRow(edit[e]) /\ edit[e].id \in Nat
    BY <1>1, <1>8 DEF ConfigInv, Edits
  <2>2. CASE edit[e].key = k
    BY <1>1, <1>2, <1>3, <2>1, <2>2 DEF EditKnowsRow
  <2>3. CASE edit[e].key # k
    BY <1>1, <1>2, <2>1, <2>3 DEF EditKnowsRow
  <2> QED
    BY <2>2, <2>3
<1> QED
  BY <1>1, <1>6, <1>7, <1>8 DEF ConfigInv

\* ReadConfig: the update knows the row it has just read.
LEMMA ReadConfigKeeps ==
    ASSUME ConfigInv, NEW k \in DOMAIN config, NEW expected \in 1 .. MaxConfigVersion,
           NEW e \in Editors, NEW set \in SUBSET {"value", "visibility"},
           NEW value \in ConfigValues, NEW visibility \in Visibilities,
           ReadConfig(e, k, expected, set, value, visibility)
    PROVE  ConfigInv'
<1> DEFINE c == config[k]
           d == [kind |-> "update", key |-> k, id |-> c.id, read |-> c.version,
                 expected |-> expected, set |-> set,
                 value |-> IF "value" \in set THEN value ELSE c.value,
                 visibility |-> IF "visibility" \in set THEN visibility ELSE c.visibility]
<1>1. /\ k \in ConfigKeys /\ c \in ConfigRows /\ RowIsValid(c) /\ c.id <= lastId
      /\ edit \in [Editors -> Edits \cup {NoEdit}]
  BY DEF ConfigInv, ConfigTypeOK
<1>2. expected \in Nat
  BY ConfigAssumption
<1>3. d \in Edits
  BY <1>1, <1>2 DEF Edits, ConfigRows
<1>4. EditKnowsRow(d)
  <2>1. /\ d.key = k /\ d.id = c.id /\ d.read = c.version /\ d.set = set
        /\ d.value = (IF "value" \in set THEN value ELSE c.value)
        /\ d.visibility = (IF "visibility" \in set THEN visibility ELSE c.visibility)
    OBVIOUS
  <2> HIDE DEF d
  <2>2. c.version \in Nat
    BY <1>1 DEF ConfigRows
  <2>3. validateValue(c.format, d.value)
    BY <1>1, <2>1 DEF RowIsValid, ReadConfig
  <2>4. validVisibility(c.format, c.encrypted, d.visibility)
    BY <1>1, <2>1 DEF RowIsValid, ReadConfig
  <2> QED
    BY <1>1, <2>1, <2>2, <2>3, <2>4 DEF EditKnowsRow
<1>5. edit' = [edit EXCEPT ![e] = d] /\ UNCHANGED <<config, lastId>>
  BY DEF ReadConfig
<1> HIDE DEF d
<1>6. \A f \in Editors : edit'[f] = IF f = e THEN d ELSE edit[f]
  BY <1>1, <1>5
<1>7. ConfigTypeOK'
  BY <1>1, <1>3, <1>5 DEF ConfigInv, ConfigTypeOK
<1>8. ASSUME NEW f \in Editors, edit'[f] # NoEdit PROVE EditKnowsRow(edit[f])'
  <2>1. EditKnowsRow(edit'[f])
    BY <1>4, <1>6, <1>8 DEF ConfigInv
  <2> QED
    BY <1>5, <2>1 DEF EditKnowsRow
<1> QED
  BY <1>5, <1>7, <1>8 DEF ConfigInv

\* What UpdateVersion writes where its WHERE matches: value, visibility and version
\* of one row.
LEMMA UpdateEffect ==
    ASSUME ConfigInv, NEW e \in Editors, UpdateVersion(e), Matches(e)
    PROVE  LET k == edit[e].key IN
           /\ k \in DOMAIN config /\ DOMAIN config' = DOMAIN config
           /\ config'[k] = [config[k] EXCEPT !.value = edit[e].value, !.visibility = edit[e].visibility,
                                             !.version = edit[e].expected + 1]
           /\ \A j \in DOMAIN config : j # k => config'[j] = config[j]
           /\ config[k] \in ConfigRows /\ edit[e] \in Edits /\ edit[e] # NoEdit
           /\ config[k].id = edit[e].id /\ config[k].version = edit[e].expected
           /\ EditKnowsRow(edit[e])
<1> DEFINE k == edit[e].key
<1>1. k \in DOMAIN config /\ config[k].id = edit[e].id /\ config[k].version = edit[e].expected
  BY DEF Matches
<1>2. config[k] \in ConfigRows /\ edit[e] \in Edits /\ edit[e] # NoEdit
  BY <1>1 DEF ConfigInv, ConfigTypeOK, UpdateVersion
<1>3. config' = [config EXCEPT ![k].value = edit[e].value, ![k].visibility = edit[e].visibility,
                               ![k].version = edit[e].expected + 1]
  BY DEF UpdateVersion
<1>4. config'[k] = [config[k] EXCEPT !.value = edit[e].value, !.visibility = edit[e].visibility,
                                     !.version = edit[e].expected + 1]
  BY <1>1, <1>2, <1>3 DEF ConfigRows
<1>5. DOMAIN config' = DOMAIN config /\ \A j \in DOMAIN config : j # k => config'[j] = config[j]
  BY <1>1, <1>3
<1>6. EditKnowsRow(edit[e])
  BY <1>2 DEF ConfigInv
<1> QED
  BY <1>1, <1>2, <1>4, <1>5, <1>6

\* UpdateVersion: the row moves one version on, past what any other update has read.
LEMMA UpdateVersionKeeps ==
    ASSUME ConfigInv, NEW e \in Editors, UpdateVersion(e)
    PROVE  ConfigInv'
<1>1. /\ edit \in [Editors -> Edits \cup {NoEdit}]
      /\ \A f \in Editors : edit'[f] = IF f = e THEN NoEdit ELSE edit[f]
      /\ edit' \in [Editors -> Edits \cup {NoEdit}] /\ lastId' = lastId
  BY DEF ConfigInv, ConfigTypeOK, UpdateVersion
<1>2. CASE ~Matches(e)
  <2>1. config' = config
    BY <1>2 DEF UpdateVersion
  <2>2. ConfigTypeOK'
    BY <1>1, <2>1 DEF ConfigInv, ConfigTypeOK
  <2> QED
    BY <1>1, <2>1, <2>2 DEF ConfigInv, EditKnowsRow
<1>3. CASE Matches(e)
  <2> DEFINE k == edit[e].key
             row == [config[k] EXCEPT !.value = edit[e].value, !.visibility = edit[e].visibility,
                                      !.version = edit[e].expected + 1]
  <2>1. /\ k \in DOMAIN config /\ DOMAIN config' = DOMAIN config
        /\ config'[k] = row
        /\ \A j \in DOMAIN config : j # k => config'[j] = config[j]
        /\ config[k] \in ConfigRows /\ edit[e] \in Edits /\ edit[e] # NoEdit
        /\ config[k].id = edit[e].id /\ config[k].version = edit[e].expected
        /\ EditKnowsRow(edit[e])
    BY <1>3, UpdateEffect
  <2>2. edit[e].expected \in Nat /\ edit[e].expected + 1 \in Nat
    BY <2>1 DEF Edits
  <2>3. /\ row \in ConfigRows /\ row.id = config[k].id /\ row.format = config[k].format
        /\ row.encrypted = config[k].encrypted /\ row.version = edit[e].expected + 1
        /\ row.value = edit[e].value /\ row.visibility = edit[e].visibility
    BY <2>1, <2>2 DEF ConfigRows, Edits
  <2>4. RowIsValid(row)
    BY <2>1, <2>3 DEF EditKnowsRow, RowIsValid
  <2> HIDE DEF row
  <2>5. ConfigTypeOK'
    BY <1>1, <2>1, <2>3 DEF ConfigInv, ConfigTypeOK
  <2>6. \A j \in DOMAIN config' : RowIsValid(config'[j]) /\ config'[j].id <= lastId'
    BY <1>1, <2>1, <2>3, <2>4 DEF ConfigInv
  <2>7. ASSUME NEW f \in Editors, edit'[f] # NoEdit PROVE EditKnowsRow(edit[f])'
    <3>1. edit'[f] = edit[f] /\ EditKnowsRow(edit[f]) /\ edit[f] \in Edits
      BY <1>1, <2>7 DEF ConfigInv
    <3>2. CASE edit[f].key = k /\ config[k].id = edit[f].id
      <4>1. edit[f].read \in Nat /\ edit[f].read <= edit[e].expected
        BY <2>1, <3>1, <3>2 DEF EditKnowsRow, Edits
      <4>2. edit[f].read <= row.version /\ row.version # edit[f].read
        BY <2>2, <2>3, <4>1
      <4> QED
        BY <1>1, <2>1, <2>3, <3>1, <3>2, <4>2 DEF EditKnowsRow
    <3>3. CASE ~(edit[f].key = k /\ config[k].id = edit[f].id)
      <4>1. edit[f].key \in DOMAIN config' /\ config'[edit[f].key].id = edit[f].id =>
              edit[f].key # k /\ config'[edit[f].key] = config[edit[f].key]
        BY <2>1, <2>3, <3>3
      <4> QED
        BY <1>1, <2>1, <3>1, <4>1 DEF EditKnowsRow
    <3> QED
      BY <3>2, <3>3
  <2> QED
    BY <2>5, <2>6, <2>7 DEF ConfigInv
<1> QED
  BY <1>2, <1>3

\* Every step of the configuration centre keeps the invariant.
LEMMA ConfigStep == ConfigInv /\ [ConfigNext]_configVars => ConfigInv'
<1> SUFFICES ASSUME ConfigInv, [ConfigNext]_configVars PROVE ConfigInv'
  OBVIOUS
<1>1. ASSUME NEW k \in ConfigKeys, NEW format \in {"string", "json"}, NEW visibility \in Visibilities,
             NEW encrypted \in BOOLEAN, NEW value \in ConfigValues,
             CreateConfig(k, format, visibility, encrypted, value)
      PROVE  ConfigInv'
  BY <1>1, CreateConfigKeeps
<1>2. ASSUME NEW k \in DOMAIN config, NEW expected \in 1 .. MaxConfigVersion, DeleteConfig(k, expected)
      PROVE  ConfigInv'
  <2>1. /\ DOMAIN config' = DOMAIN config \ {k}
        /\ \A j \in DOMAIN config' : config'[j] = config[j]
        /\ UNCHANGED <<lastId, edit>>
    BY <1>2 DEF DeleteConfig
  <2>2. ConfigTypeOK'
    BY <2>1 DEF ConfigInv, ConfigTypeOK
  <2>3. \A e \in Editors : edit[e] # NoEdit => EditKnowsRow(edit[e])'
    BY <2>1 DEF ConfigInv, EditKnowsRow
  <2> QED
    BY <2>1, <2>2, <2>3 DEF ConfigInv
<1>3. ASSUME NEW k \in DOMAIN config, NEW expected \in 1 .. MaxConfigVersion, NEW e \in Editors,
             NEW set \in SUBSET {"value", "visibility"}, NEW value \in ConfigValues,
             NEW visibility \in Visibilities, ReadConfig(e, k, expected, set, value, visibility)
      PROVE  ConfigInv'
  BY <1>3, ReadConfigKeeps
<1>4. ASSUME NEW e \in Editors, UpdateVersion(e)
      PROVE  ConfigInv'
  BY <1>4, UpdateVersionKeeps
<1>5. CASE UNCHANGED configVars
  BY <1>5 DEF configVars, ConfigInv, ConfigTypeOK, EditKnowsRow
<1> QED
  BY <1>1, <1>2, <1>3, <1>4, <1>5 DEF ConfigNext

\* The invariant holds in every reachable state.
LEMMA ConfigInvariant == ConfigSpec => []ConfigInv
BY ConfigInitInv, ConfigStep, PTL DEF ConfigSpec

\* Rows and updates under way have their types in every state.
THEOREM ConfigTypeCorrect == ConfigSpec => []ConfigTypeOK
<1>1. ConfigInv => ConfigTypeOK
  BY DEF ConfigInv
<1> QED
  BY <1>1, ConfigInvariant, PTL

\* A row that keeps its id and changes was written by one update, in the next
\* version and, if that update's request was not ahead of the row it read, in no
\* field the request did not name.
LEMMA EditStep ==
    ASSUME ConfigInv, ConfigNext, NEW k \in DOMAIN config \cap DOMAIN config',
           config'[k] # config[k]
    PROVE  /\ config'[k].version = config[k].version + 1
           /\ \E e \in Editors :
                 /\ edit[e] # NoEdit /\ edit'[e] = NoEdit
                 /\ NotAhead(edit[e]) =>
                       /\ "value" \notin edit[e].set => config'[k].value = config[k].value
                       /\ "visibility" \notin edit[e].set =>
                             config'[k].visibility = config[k].visibility
<1>1. \E e \in Editors : UpdateVersion(e)
  <2>1. ASSUME NEW j, NEW format, NEW visibility, NEW encrypted, NEW value,
               CreateConfig(j, format, visibility, encrypted, value)
        PROVE  FALSE
    BY <2>1 DEF CreateConfig
  <2>2. ASSUME NEW j, NEW expected, DeleteConfig(j, expected)
        PROVE  FALSE
    BY <2>2 DEF DeleteConfig
  <2>3. ASSUME NEW e, NEW j, NEW expected, NEW set, NEW value, NEW visibility,
               ReadConfig(e, j, expected, set, value, visibility)
        PROVE  FALSE
    BY <2>3 DEF ReadConfig
  <2> QED
    BY <2>1, <2>2, <2>3 DEF ConfigNext
<1>2. PICK e \in Editors : UpdateVersion(e)
  BY <1>1
<1>3. Matches(e)
  BY <1>2 DEF UpdateVersion
<1>4. edit'[e] = NoEdit
  BY <1>2 DEF UpdateVersion, ConfigInv, ConfigTypeOK
<1> DEFINE row == [config[k] EXCEPT !.value = edit[e].value, !.visibility = edit[e].visibility,
                                    !.version = edit[e].expected + 1]
<1>5. /\ edit[e].key = k /\ config'[k] = row /\ config[k] \in ConfigRows
      /\ edit[e] # NoEdit
      /\ config[k].id = edit[e].id /\ config[k].version = edit[e].expected
      /\ EditKnowsRow(edit[e])
  BY <1>2, <1>3, UpdateEffect
<1>6. /\ row.version = edit[e].expected + 1
      /\ row.value = edit[e].value /\ row.visibility = edit[e].visibility
  BY <1>5 DEF ConfigRows
<1> HIDE DEF row
<1>7. ASSUME NotAhead(edit[e])
      PROVE  /\ "value" \notin edit[e].set => config'[k].value = config[k].value
             /\ "visibility" \notin edit[e].set => config'[k].visibility = config[k].visibility
  <2>1. edit[e].read \in Nat /\ edit[e].expected \in Nat
    BY <1>2, <1>3, UpdateEffect DEF Edits
  <2>2. edit[e].read <= config[k].version /\ config[k].version <= edit[e].read
    BY <1>5, <1>7 DEF EditKnowsRow, NotAhead
  <2>3. config[k].version = edit[e].read
    BY <1>5, <2>1, <2>2
  <2> QED
    BY <1>5, <1>6, <2>3 DEF EditKnowsRow
<1> QED
  BY <1>4, <1>5, <1>6, <1>7

\* Edits compose: an update, which writes back the whole row as it read it before,
\* changes only what its request named unless the client named a version ahead of
\* that row, and leaves a row that parses and is public only where that is allowed.
THEOREM UpdatesCompose == ConfigSpec => EditsCompose
<1> DEFINE Composed ==
      \A k \in DOMAIN config \cap DOMAIN config' :
          config'[k] # config[k] /\ config'[k].id = config[k].id =>
              /\ config'[k].version = config[k].version + 1
              /\ \E e \in Editors :
                    /\ edit[e] # NoEdit /\ edit'[e] = NoEdit
                    /\ NotAhead(edit[e]) =>
                          /\ "value" \notin edit[e].set => config'[k].value = config[k].value
                          /\ "visibility" \notin edit[e].set =>
                                config'[k].visibility = config[k].visibility
              /\ validateValue(config'[k].format, config'[k].value)
              /\ config'[k].visibility = "public" => RuntimeShows(k)'
<1>1. ASSUME ConfigInv, ConfigInv', ConfigNext PROVE Composed
  <2> SUFFICES ASSUME NEW k \in DOMAIN config \cap DOMAIN config', config'[k] # config[k]
               PROVE  /\ config'[k].version = config[k].version + 1
                      /\ \E e \in Editors :
                            /\ edit[e] # NoEdit /\ edit'[e] = NoEdit
                            /\ NotAhead(edit[e]) =>
                                  /\ "value" \notin edit[e].set => config'[k].value = config[k].value
                                  /\ "visibility" \notin edit[e].set =>
                                        config'[k].visibility = config[k].visibility
                      /\ validateValue(config'[k].format, config'[k].value)
                      /\ config'[k].visibility = "public" => RuntimeShows(k)'
    OBVIOUS
  <2>1. RowIsValid(config'[k])
    BY <1>1 DEF ConfigInv
  <2>2. validateValue(config'[k].format, config'[k].value)
    BY <2>1 DEF RowIsValid
  <2>3. config'[k].visibility = "public" => RuntimeShows(k)'
    BY <2>1 DEF RowIsValid, RuntimeShows, validVisibility
  <2> QED
    BY <1>1, <2>2, <2>3, EditStep
<1>2. ConfigInv /\ ConfigInv' /\ [ConfigNext]_configVars => [Composed]_configVars
  <2> HIDE DEF Composed
  <2> QED
    BY <1>1
<1> QED
  BY <1>2, ConfigInvariant, PTL DEF ConfigSpec, EditsCompose

-----------------------------------------------------------------------------
(* Sessions: token families and the account's session version.               *)

\* What was issued or read for a user is not ahead of the account, and at the
\* account's version it goes with the account's password: every change of the
\* password is a change of the version.
IsCurrent(x) ==
    /\ x.sv <= account[x.user].sv
    /\ x.sv = account[x.user].sv => x.password = account[x.user].password

\* Ids under which a family was opened.
Opened == {t.sid : t \in handedOut}

\* Requests under way know an account as it was, a pair that was handed out, or a
\* family that was opened.
CallsInv ==
    \A c \in Callers :
        /\ authCall[c].kind = "login" => IsCurrent(authCall[c])
        /\ authCall[c].kind = "refresh" => authCall[c].token \in handedOut
        /\ authCall[c].kind = "reuse" => authCall[c].sid \in Opened

\* A family is a chain: each pair follows the one it was refreshed from, one pair
\* for each generation, and a live session is at the last of them.
FamilyInv ==
    /\ \A t \in handedOut : t.gen = t.parent + 1
    /\ \A t1, t2 \in handedOut : t1.sid = t2.sid /\ t1.gen = t2.gen => t1 = t2
    /\ \A t \in handedOut : t.sid \in DOMAIN session => t.gen <= session[t.sid].gen
    /\ reused \subseteq Opened
    /\ reused \cap DOMAIN session = {}

\* Inductive.
SessionsInv ==
    /\ AuthTypeOK
    /\ \A t \in handedOut : IsCurrent(t)
    /\ CallsInv
    /\ FamilyInv

\* The types of the sessions and of their index.
StoresTyped ==
    /\ \A s \in DOMAIN session : s \in SessionIds /\ session[s] \in [user : Accounts, gen : Nat, expires : Nat]
    /\ DOMAIN index = Accounts
    /\ \A u \in Accounts : DOMAIN index[u] \subseteq SessionIds

\* Nothing is issued at first.
LEMMA SessionsInitInv == AuthInit => SessionsInv
<1> SUFFICES ASSUME AuthInit PROVE SessionsInv
  OBVIOUS
<1>1. AuthTypeOK
  <2>1. MaxAuthClock \in Nat
    BY SessionsAssumption
  <2>2. authCall \in [Callers -> AuthCalls]
    BY DEF AuthInit, AuthCalls
  <2>3. DOMAIN index = Accounts /\ \A u \in Accounts : DOMAIN index[u] \subseteq SessionIds
    BY DEF AuthInit
  <2>4. account \in [Accounts -> [status : {"active", "disabled"}, sv : Nat, password : Nat]]
    BY DEF AuthInit
  <2> QED
    BY <2>1, <2>2, <2>3, <2>4 DEF AuthInit, AuthTypeOK
<1>2. CallsInv
  BY DEF AuthInit, CallsInv, NoAuthCall
<1>3. FamilyInv
  BY DEF AuthInit, FamilyInv
<1> QED
  BY <1>1, <1>2, <1>3 DEF SessionsInv, AuthInit

\* The scripts that store a session: others may go, this one is as told.
LEMMA StoreEffect ==
    ASSUME AuthTypeOK, NEW u \in Accounts, NEW sid \in SessionIds, NEW gen \in Nat,
           StoreSession(u, sid, gen)
    PROVE  /\ DOMAIN session' \subseteq DOMAIN session \cup {sid}
           /\ \A s \in DOMAIN session' : s # sid => session'[s] = session[s]
           /\ sid \in DOMAIN session' => session'[sid].gen = gen
           /\ StoresTyped'
<1> DEFINE expired == {s \in DOMAIN index[u] : index[u][s] <= authClock}
           entered == IndexEntered(u, sid)
           excess == Excess(entered)
           row == [user |-> u, gen |-> gen, expires |-> authClock + RefreshTTL]
<1>1. /\ session' = [s \in (DOMAIN session \cup {sid}) \ (expired \cup excess) |->
                        IF s = sid THEN row ELSE session[s]]
      /\ index' = [index EXCEPT ![u] = Only(entered, DOMAIN entered \ excess)]
  BY DEF StoreSession
<1>2. authClock + RefreshTTL \in Nat
  BY SessionsAssumption DEF AuthTypeOK
<1>3. row \in [user : Accounts, gen : Nat, expires : Nat] /\ row.gen = gen
  BY <1>2
<1>4. DOMAIN entered \subseteq SessionIds
  <2>1. DOMAIN entered \subseteq DOMAIN index[u] \cup {sid}
    BY DEF IndexEntered, Only
  <2> QED
    BY <2>1 DEF AuthTypeOK
<1> HIDE DEF expired, entered, excess, row
<1>5. DOMAIN Only(entered, DOMAIN entered \ excess) \subseteq SessionIds
  BY <1>4 DEF Only
<1>6. /\ DOMAIN session' \subseteq DOMAIN session \cup {sid}
      /\ \A s \in DOMAIN session' : session'[s] = IF s = sid THEN row ELSE session[s]
  BY <1>1
<1>7. DOMAIN index' = Accounts /\ \A v \in Accounts : DOMAIN index'[v] \subseteq SessionIds
  BY <1>1, <1>5 DEF AuthTypeOK
<1>8. \A s \in DOMAIN session' : s \in SessionIds /\ session'[s] \in [user : Accounts, gen : Nat, expires : Nat]
  BY <1>3, <1>6 DEF AuthTypeOK
<1> QED
  BY <1>3, <1>6, <1>7, <1>8 DEF StoresTyped

\* The script that deletes one: it is gone, the others are as they were.
LEMMA DeleteEffect ==
    ASSUME AuthTypeOK, NEW sid, DeleteSession(sid)
    PROVE  /\ DOMAIN session' = DOMAIN session \ {sid}
           /\ \A s \in DOMAIN session' : session'[s] = session[s]
           /\ StoresTyped'
<1>1. DOMAIN session' = DOMAIN session \ {sid} /\ \A s \in DOMAIN session' : session'[s] = session[s]
  BY DEF DeleteSession, Only
<1>2. DOMAIN index' = Accounts /\ \A u \in Accounts : DOMAIN index'[u] \subseteq SessionIds
  <2>1. CASE sid \notin DOMAIN session
    BY <2>1 DEF DeleteSession, AuthTypeOK
  <2>2. CASE sid \in DOMAIN session
    <3> DEFINE owner == session[sid].user
    <3>1. owner \in Accounts
      BY <2>2 DEF AuthTypeOK
    <3>2. index' = [index EXCEPT ![owner] = Only(index[owner], DOMAIN index[owner] \ {sid})]
      BY <2>2 DEF DeleteSession
    <3>3. DOMAIN Only(index[owner], DOMAIN index[owner] \ {sid}) \subseteq DOMAIN index[owner]
      BY DEF Only
    <3> HIDE DEF owner
    <3> QED
      BY <3>1, <3>2, <3>3 DEF AuthTypeOK
  <2> QED
    BY <2>1, <2>2
<1> QED
  BY <1>1, <1>2 DEF StoresTyped, AuthTypeOK

\* A step that only takes sessions away, and lets one request forget what it knew,
\* keeps the invariant.
LEMMA ShrinkKeeps ==
    ASSUME SessionsInv, UNCHANGED <<account, handedOut>>, StoresTyped',
           DOMAIN session' \subseteq DOMAIN session,
           \A s \in DOMAIN session' : session'[s] = session[s],
           authClock' \in 0 .. MaxAuthClock, revocation' \subseteq Accounts,
           reused' \subseteq reused \cup (Opened \ DOMAIN session'),
           authCall' \in [Callers -> AuthCalls],
           \A c \in Callers : authCall'[c] \in {authCall[c], NoAuthCall}
    PROVE  SessionsInv'
<1>1. Opened' = Opened
  BY DEF Opened
<1>2. Opened \subseteq SessionIds
  BY DEF SessionsInv, AuthTypeOK, TokenPairs, Opened
<1>3. AuthTypeOK'
  BY <1>2 DEF SessionsInv, AuthTypeOK, StoresTyped
<1>4. CallsInv'
  BY <1>1 DEF SessionsInv, CallsInv, IsCurrent, NoAuthCall
<1>5. FamilyInv'
  BY <1>1 DEF SessionsInv, FamilyInv
<1> QED
  BY <1>3, <1>4, <1>5 DEF SessionsInv, IsCurrent

\* The account's version moves on: everything issued or read before is behind it.
LEMMA VersionKeeps ==
    ASSUME SessionsInv, NEW u \in Accounts,
           account' \in [Accounts -> [status : {"active", "disabled"}, sv : Nat, password : Nat]],
           account'[u].sv = account[u].sv + 1,
           \A v \in Accounts : v # u => account'[v] = account[v],
           revocation' \subseteq Accounts,
           UNCHANGED <<session, index, handedOut, reused, authCall, authClock>>
    PROVE  SessionsInv'
<1>1. Opened' = Opened
  BY DEF Opened
<1>2. AuthTypeOK'
  BY DEF SessionsInv, AuthTypeOK
<1>3. ASSUME NEW x, IsCurrent(x), x.user \in Accounts, x.sv \in Nat
      PROVE  x.sv <= account'[x.user].sv /\ (x.sv = account'[x.user].sv => x.password = account'[x.user].password)
  <2>1. account[u].sv \in Nat
    BY DEF SessionsInv, AuthTypeOK
  <2> QED
    BY <1>3, <2>1 DEF IsCurrent
<1>4. \A t \in handedOut' : IsCurrent(t)'
  BY <1>3 DEF SessionsInv, AuthTypeOK, TokenPairs, IsCurrent
<1>5. CallsInv'
  <2>1. \A c \in Callers : authCall[c].kind = "login" => authCall[c].user \in Accounts /\ authCall[c].sv \in Nat
    BY DEF SessionsInv, AuthTypeOK, AuthCalls, NoAuthCall
  <2> QED
    BY <1>1, <1>3, <2>1 DEF SessionsInv, CallsInv, IsCurrent
<1>6. FamilyInv'
  BY <1>1 DEF SessionsInv, FamilyInv
<1> QED
  BY <1>2, <1>4, <1>5, <1>6 DEF SessionsInv

\* A request keeps what it has read: a login the account, a refresh a pair that was
\* handed out, a refused refresh the family.
LEMMA ReadingKeeps ==
    ASSUME SessionsInv, NEW c \in Callers, NEW call \in AuthCalls, Reading(c, call),
           UNCHANGED <<account, session, index, handedOut, reused, revocation, authClock>>,
           call.kind = "login" => IsCurrent(call),
           call.kind = "refresh" => call.token \in handedOut,
           call.kind = "reuse" => call.sid \in Opened
    PROVE  SessionsInv'
<1>1. Opened' = Opened
  BY DEF Opened
<1>2. /\ authCall' \in [Callers -> AuthCalls]
      /\ \A d \in Callers : authCall'[d] = IF d = c THEN call ELSE authCall[d]
  BY DEF SessionsInv, AuthTypeOK, Reading
<1>3. AuthTypeOK'
  BY <1>2 DEF SessionsInv, AuthTypeOK
<1>4. CallsInv'
  <2> SUFFICES ASSUME NEW d \in Callers
               PROVE  /\ authCall'[d].kind = "login" => IsCurrent(authCall'[d])
                      /\ authCall'[d].kind = "refresh" => authCall'[d].token \in handedOut
                      /\ authCall'[d].kind = "reuse" => authCall'[d].sid \in Opened
    BY <1>1 DEF CallsInv, IsCurrent
  <2> QED
    BY <1>2 DEF SessionsInv, CallsInv
<1>5. FamilyInv'
  BY <1>1 DEF SessionsInv, FamilyInv
<1> QED
  BY <1>3, <1>4, <1>5 DEF SessionsInv, IsCurrent

\* A pair is issued: it is current, and the first of its generation in its family,
\* which is live at that generation or, squeezed out by newer sessions, not at all.
LEMMA IssueKeeps ==
    ASSUME SessionsInv, NEW c \in Callers, NEW p \in TokenPairs, NEW u \in Accounts,
           StoreSession(u, p.sid, p.gen), handedOut' = handedOut \cup {p}, Reading(c, NoAuthCall),
           UNCHANGED <<account, reused, revocation, authClock>>,
           IsCurrent(p), p.gen = p.parent + 1, p.sid \notin reused,
           \A t \in handedOut : t.sid = p.sid => t.gen < p.gen
    PROVE  SessionsInv'
<1>0. AuthTypeOK /\ p.sid \in SessionIds /\ p.gen \in Nat
  BY DEF SessionsInv, TokenPairs
<1>1. /\ DOMAIN session' \subseteq DOMAIN session \cup {p.sid}
      /\ \A s \in DOMAIN session' : s # p.sid => session'[s] = session[s]
      /\ p.sid \in DOMAIN session' => session'[p.sid].gen = p.gen
      /\ StoresTyped'
  BY <1>0, StoreEffect
<1>2. Opened' = Opened \cup {p.sid}
  BY DEF Opened
<1>3. /\ authCall' \in [Callers -> AuthCalls]
      /\ \A d \in Callers : authCall'[d] = IF d = c THEN NoAuthCall ELSE authCall[d]
  BY DEF SessionsInv, AuthTypeOK, Reading, AuthCalls
<1>4. AuthTypeOK'
  BY <1>1, <1>3 DEF SessionsInv, AuthTypeOK, StoresTyped
<1>5. \A t \in handedOut' : IsCurrent(t)'
  BY DEF SessionsInv, IsCurrent
<1>6. CallsInv'
  <2> SUFFICES ASSUME NEW d \in Callers
               PROVE  /\ authCall'[d].kind = "login" => IsCurrent(authCall'[d])
                      /\ authCall'[d].kind = "refresh" => authCall'[d].token \in handedOut'
                      /\ authCall'[d].kind = "reuse" => authCall'[d].sid \in Opened'
    BY DEF CallsInv, IsCurrent
  <2> QED
    BY <1>2, <1>3 DEF SessionsInv, CallsInv, NoAuthCall
<1>7. FamilyInv'
  <2>1. \A t \in handedOut' : t.gen = t.parent + 1
    BY DEF SessionsInv, FamilyInv
  <2>2. \A t1, t2 \in handedOut' : t1.sid = t2.sid /\ t1.gen = t2.gen => t1 = t2
    <3>1. \A t \in handedOut : t.sid = p.sid => t.gen # p.gen
      BY <1>0 DEF SessionsInv, AuthTypeOK, TokenPairs
    <3> QED
      BY <3>1 DEF SessionsInv, FamilyInv
  <2>3. \A t \in handedOut' : t.sid \in DOMAIN session' => t.gen <= session'[t.sid].gen
    <3> SUFFICES ASSUME NEW t \in handedOut', t.sid \in DOMAIN session'
                 PROVE  t.gen <= session'[t.sid].gen
      OBVIOUS
    <3>1. CASE t.sid = p.sid
      BY <1>0, <1>1, <3>1 DEF SessionsInv, AuthTypeOK, TokenPairs
    <3>2. CASE t.sid # p.sid
      BY <1>1, <3>2 DEF SessionsInv, FamilyInv
    <3> QED
      BY <3>1, <3>2
  <2>4. reused' \subseteq Opened' /\ reused' \cap DOMAIN session' = {}
    BY <1>1, <1>2 DEF SessionsInv, FamilyInv
  <2> QED
    BY <2>1, <2>2, <2>3, <2>4 DEF FamilyInv
<1> QED
  BY <1>4, <1>5, <1>6, <1>7 DEF SessionsInv

\* Login: what was read becomes the first pair of a new family.
LEMMA CreateSessionKeeps ==
    ASSUME SessionsInv, NEW c \in Callers, NEW sid \in UnusedIds, CreateSession(c, sid)
    PROVE  SessionsInv'
<1> DEFINE call == authCall[c]
           p == [sid |-> sid, user |-> call.user, sv |-> call.sv, gen |-> 1,
                 parent |-> 0, password |-> call.password]
<1>1. call.kind = "login" /\ IsCurrent(call)
  BY DEF SessionsInv, CallsInv, CreateSession
<1>2. call.user \in Accounts /\ call.sv \in Nat /\ call.password \in Nat
  BY <1>1 DEF SessionsInv, AuthTypeOK, AuthCalls, NoAuthCall
<1>3. sid \in SessionIds /\ sid \notin Opened
  BY DEF UnusedIds, Opened
<1>4. p \in TokenPairs /\ p.sid = sid /\ p.gen = 1 /\ p.gen = p.parent + 1
  BY <1>2, <1>3 DEF TokenPairs
<1>5. IsCurrent(p)
  BY <1>1 DEF IsCurrent
<1>6. StoreSession(call.user, p.sid, p.gen) /\ handedOut' = handedOut \cup {p} /\ Reading(c, NoAuthCall)
      /\ UNCHANGED <<account, reused, revocation, authClock>>
  BY DEF CreateSession
<1> HIDE DEF p, call
<1>7. p.sid \notin reused /\ \A t \in handedOut : t.sid # p.sid
  BY <1>3, <1>4 DEF SessionsInv, FamilyInv, Opened
<1> QED
  BY <1>2, <1>4, <1>5, <1>6, <1>7, IssueKeeps

\* Refresh: the pair the session is at is followed by the next one, or the family
\* of any other pair is about to end.
LEMMA RotateKeeps ==
    ASSUME SessionsInv, NEW c \in Callers, Rotate(c)
    PROVE  SessionsInv'
<1> DEFINE token == authCall[c].token
<1>1. authCall[c].kind = "refresh" /\ token \in handedOut /\ token \in TokenPairs /\ IsCurrent(token)
  BY DEF SessionsInv, CallsInv, Rotate, AuthTypeOK
<1>2. CASE MayRotate(token)
  <2> DEFINE gen == session[token.sid].gen + 1
             p == [token EXCEPT !.gen = gen, !.parent = token.gen]
             u == session[token.sid].user
  <2>1. /\ StoreSession(u, token.sid, gen) /\ handedOut' = handedOut \cup {p} /\ Reading(c, NoAuthCall)
        /\ UNCHANGED <<account, reused, revocation, authClock>>
    BY <1>2 DEF Rotate
  <2>2. token.sid \in DOMAIN session /\ session[token.sid].gen = token.gen
    BY <1>2 DEF MayRotate
  <2>3. u \in Accounts /\ token.gen \in Nat /\ gen \in Nat /\ gen = token.gen + 1
    BY <1>1, <2>2 DEF SessionsInv, AuthTypeOK, TokenPairs
  <2>4. /\ p \in TokenPairs /\ p.sid = token.sid /\ p.gen = gen /\ p.parent = token.gen
        /\ p.user = token.user /\ p.sv = token.sv /\ p.password = token.password
    BY <1>1, <2>3 DEF TokenPairs
  <2> HIDE DEF p, gen, u
  <2>5. IsCurrent(p)
    BY <1>1, <2>4 DEF IsCurrent
  <2>6. p.sid \notin reused
    BY <2>2, <2>4 DEF SessionsInv, FamilyInv
  <2>7. \A t \in handedOut : t.sid = p.sid => t.gen < p.gen
    <3> SUFFICES ASSUME NEW t \in handedOut, t.sid = p.sid PROVE t.gen < p.gen
      OBVIOUS
    <3>1. t.gen <= session[t.sid].gen /\ t.gen \in Nat
      BY <2>2, <2>4 DEF SessionsInv, FamilyInv, AuthTypeOK, TokenPairs
    <3> QED
      BY <2>2, <2>3, <2>4, <3>1
  <2>8. StoreSession(u, p.sid, p.gen) /\ p.gen = p.parent + 1
    BY <2>1, <2>3, <2>4
  <2> QED
    BY <2>1, <2>3, <2>4, <2>5, <2>6, <2>7, <2>8, IssueKeeps
<1>3. CASE ~MayRotate(token)
  <2> DEFINE call == [kind |-> "reuse", sid |-> token.sid]
  <2>1. Reading(c, call) /\ UNCHANGED <<account, session, index, handedOut, reused, revocation, authClock>>
    BY <1>3 DEF Rotate
  <2>2. call \in AuthCalls /\ call.kind = "reuse" /\ call.sid \in Opened
    BY <1>1 DEF AuthCalls, TokenPairs, Opened
  <2> HIDE DEF call
  <2> QED
    BY <2>1, <2>2, ReadingKeeps
<1> QED
  BY <1>2, <1>3

\* The reads before a login and a refresh.
LEMMA ReadsKeep ==
    ASSUME SessionsInv, NEW c \in Callers,
           \/ \E u \in Accounts : ReadForLogin(c, u)
           \/ \E token \in handedOut : ReadForRefresh(c, token)
    PROVE  SessionsInv'
<1>1. ASSUME NEW u \in Accounts, ReadForLogin(c, u) PROVE SessionsInv'
  <2> DEFINE call == [kind |-> "login", user |-> u, sv |-> account[u].sv, password |-> account[u].password]
  <2>1. account[u].sv \in Nat /\ account[u].password \in Nat
    BY DEF SessionsInv, AuthTypeOK
  <2>2. call \in AuthCalls /\ call.kind = "login" /\ IsCurrent(call)
    BY <2>1 DEF AuthCalls, IsCurrent
  <2>3. Reading(c, call) /\ UNCHANGED <<account, session, index, handedOut, reused, revocation, authClock>>
    BY <1>1 DEF ReadForLogin
  <2> HIDE DEF call
  <2> QED
    BY <2>2, <2>3, ReadingKeeps
<1>2. ASSUME NEW token \in handedOut, ReadForRefresh(c, token) PROVE SessionsInv'
  <2> DEFINE call == [kind |-> "refresh", token |-> token]
  <2>1. call \in AuthCalls /\ call.kind = "refresh" /\ call.token \in handedOut
    BY DEF AuthCalls, SessionsInv, AuthTypeOK
  <2>2. Reading(c, call) /\ UNCHANGED <<account, session, index, handedOut, reused, revocation, authClock>>
    BY <1>2 DEF ReadForRefresh
  <2> HIDE DEF call
  <2> QED
    BY <2>1, <2>2, ReadingKeeps
<1> QED
  BY <1>1, <1>2

\* The deletions: of a reused family, of a session, of all that an index names, and
\* of what has expired.
LEMMA DeletionsKeep ==
    ASSUME SessionsInv,
           \/ \E c \in Callers : RevokeFamily(c)
           \/ \E sid \in DOMAIN session : Logout(sid)
           \/ \E u \in Accounts : RevokeUser(u) \/ LoseRevocation(u)
           \/ AuthTick
    PROVE  SessionsInv'
<1>0. AuthTypeOK /\ authCall \in [Callers -> AuthCalls] /\ StoresTyped
  BY DEF SessionsInv, AuthTypeOK, StoresTyped
<1>1. ASSUME NEW c \in Callers, RevokeFamily(c) PROVE SessionsInv'
  <2> DEFINE sid == authCall[c].sid
  <2>1. /\ DeleteSession(sid) /\ reused' = reused \cup {sid} /\ Reading(c, NoAuthCall)
        /\ UNCHANGED <<account, handedOut, revocation, authClock>> /\ sid \in Opened
    BY <1>1 DEF RevokeFamily, SessionsInv, CallsInv
  <2>2. /\ DOMAIN session' = DOMAIN session \ {sid}
        /\ \A s \in DOMAIN session' : session'[s] = session[s]
        /\ StoresTyped'
    BY <1>0, <2>1, DeleteEffect
  <2>3. /\ authCall' \in [Callers -> AuthCalls]
        /\ \A d \in Callers : authCall'[d] \in {authCall[d], NoAuthCall}
    BY <1>0, <2>1 DEF Reading, AuthCalls
  <2> QED
    BY <1>0, <2>1, <2>2, <2>3, ShrinkKeeps DEF AuthTypeOK
<1>2. ASSUME NEW sid \in DOMAIN session, Logout(sid) PROVE SessionsInv'
  <2>1. DeleteSession(sid) /\ UNCHANGED <<account, handedOut, reused, authCall, revocation, authClock>>
    BY <1>2 DEF Logout
  <2>2. /\ DOMAIN session' = DOMAIN session \ {sid}
        /\ \A s \in DOMAIN session' : session'[s] = session[s]
        /\ StoresTyped'
    BY <1>0, <2>1, DeleteEffect
  <2> QED
    BY <1>0, <2>1, <2>2, ShrinkKeeps DEF AuthTypeOK
<1>3. ASSUME NEW u \in Accounts, RevokeUser(u) PROVE SessionsInv'
  <2>1. /\ session' = Only(session, DOMAIN session \ DOMAIN index[u])
        /\ index' = [index EXCEPT ![u] = Only(index[u], {})]
        /\ revocation' \subseteq revocation /\ UNCHANGED <<account, handedOut, reused, authCall, authClock>>
    BY <1>3 DEF RevokeUser
  <2>2. /\ DOMAIN session' \subseteq DOMAIN session
        /\ \A s \in DOMAIN session' : session'[s] = session[s]
    BY <2>1 DEF Only
  <2>3. DOMAIN Only(index[u], {}) = {}
    BY DEF Only
  <2>4. StoresTyped'
    BY <1>0, <2>1, <2>2, <2>3 DEF StoresTyped
  <2> QED
    BY <1>0, <2>1, <2>2, <2>4, ShrinkKeeps DEF AuthTypeOK
<1>4. ASSUME NEW u \in Accounts, LoseRevocation(u) PROVE SessionsInv'
  <2>1. revocation' \subseteq revocation
        /\ UNCHANGED <<account, session, index, handedOut, reused, authCall, authClock>>
    BY <1>4 DEF LoseRevocation
  <2>2. StoresTyped'
    BY <1>0, <2>1 DEF StoresTyped
  <2> QED
    BY <1>0, <2>1, <2>2, ShrinkKeeps DEF AuthTypeOK
<1>5. CASE AuthTick
  <2>1. authClock' \in 0 .. MaxAuthClock
    BY <1>0, <1>5, SessionsAssumption DEF AuthTick, AuthTypeOK
  <2>2. UNCHANGED <<account, handedOut, reused, authCall, revocation>>
    BY <1>5 DEF AuthTick
  <2>3. /\ DOMAIN session' \subseteq DOMAIN session
        /\ \A s \in DOMAIN session' : session'[s] = session[s]
    BY <1>5 DEF AuthTick, Only
  <2>4. DOMAIN index' = Accounts /\ \A u \in Accounts : DOMAIN index'[u] \subseteq DOMAIN index[u]
    BY <1>5 DEF AuthTick, Only
  <2>5. StoresTyped'
    BY <1>0, <2>3, <2>4 DEF StoresTyped
  <2> QED
    BY <1>0, <2>1, <2>2, <2>3, <2>5, ShrinkKeeps DEF AuthTypeOK
<1> QED
  BY <1>1, <1>2, <1>3, <1>4, <1>5

\* The account changes of core/user.
LEMMA AccountChangesKeep ==
    ASSUME SessionsInv, NEW u \in Accounts,
           UpdatePassword(u) \/ \E status \in {"active", "disabled"} : SetStatus(u, status)
    PROVE  SessionsInv'
<1> DEFINE Rows == [status : {"active", "disabled"}, sv : Nat, password : Nat]
<1>1. account \in [Accounts -> Rows] /\ revocation \subseteq Accounts
  BY DEF SessionsInv, AuthTypeOK
<1>2. account[u].sv + 1 \in Nat /\ account[u].password + 1 \in Nat /\ account[u] \in Rows
  BY <1>1
<1>3. CASE UpdatePassword(u)
  <2> DEFINE row == [account[u] EXCEPT !.password = @ + 1, !.sv = @ + 1]
  <2>1. row \in Rows /\ row.sv = account[u].sv + 1
    BY <1>2
  <2>2. account' = [account EXCEPT ![u] = row]
    BY <1>1, <1>3 DEF UpdatePassword
  <2> HIDE DEF row
  <2>3. /\ account' \in [Accounts -> Rows] /\ account'[u].sv = account[u].sv + 1
        /\ \A v \in Accounts : v # u => account'[v] = account[v]
    BY <1>1, <2>1, <2>2
  <2> QED
    BY <1>1, <1>3, <2>3, VersionKeeps DEF UpdatePassword
<1>4. ASSUME NEW status \in {"active", "disabled"}, SetStatus(u, status) PROVE SessionsInv'
  <2> DEFINE row == [account[u] EXCEPT !.status = status, !.sv = @ + 1]
  <2>1. row \in Rows /\ row.sv = account[u].sv + 1
    BY <1>2
  <2>2. account' = [account EXCEPT ![u] = row]
    BY <1>1, <1>4 DEF SetStatus
  <2> HIDE DEF row
  <2>3. /\ account' \in [Accounts -> Rows] /\ account'[u].sv = account[u].sv + 1
        /\ \A v \in Accounts : v # u => account'[v] = account[v]
    BY <1>1, <2>1, <2>2
  <2>4. revocation' \subseteq Accounts
    BY <1>1, <1>4 DEF SetStatus
  <2> QED
    BY <1>4, <2>3, <2>4, VersionKeeps DEF SetStatus
<1> QED
  BY <1>3, <1>4

\* Every step keeps the invariant.
LEMMA SessionsStep == SessionsInv /\ [AuthNext]_authVars => SessionsInv'
<1> SUFFICES ASSUME SessionsInv, [AuthNext]_authVars PROVE SessionsInv'
  OBVIOUS
<1>1. CASE UNCHANGED authVars
  BY <1>1 DEF authVars, SessionsInv, AuthTypeOK, CallsInv, FamilyInv, IsCurrent, Opened
<1>2. CASE AuthNext
  BY <1>2, ReadsKeep, CreateSessionKeeps, RotateKeeps, DeletionsKeep, AccountChangesKeep DEF AuthNext
<1> QED
  BY <1>1, <1>2

\* The invariant holds in every reachable state.
LEMMA SessionsInvariant == AuthSpec => []SessionsInv
BY SessionsInitInv, SessionsStep, PTL DEF AuthSpec

\* Accounts, sessions, pairs and requests under way have their types in every state.
THEOREM AuthTypeCorrect == AuthSpec => []AuthTypeOK
<1>1. SessionsInv => AuthTypeOK
  BY DEF SessionsInv
<1> QED
  BY <1>1, SessionsInvariant, PTL

\* A changed password locks out every family opened with an earlier one, also one
\* whose login or refresh straddled the change, and although the callback that
\* deletes the sessions may be lost (Login, Refresh, Update and Authenticate).
THEOREM OldPasswordIsLockedOut == AuthSpec => []OldPasswordLocksOut
<1>1. SessionsInv => OldPasswordLocksOut
  BY DEF SessionsInv, OldPasswordLocksOut, Authenticate, IsCurrent
<1> QED
  BY <1>1, SessionsInvariant, PTL

\* A refresh token buys one pair, and a family whose reuse was answered never comes
\* back (rotateScript, createSessionScript and deleteSessionScript).
THEOREM TokensRefreshOnce == AuthSpec => []RefreshedOnce
<1>1. ASSUME SessionsInv PROVE RefreshedOnce
  <2>1. ASSUME NEW t1 \in handedOut, NEW t2 \in handedOut, t1.sid = t2.sid, t1.parent = t2.parent
        PROVE  t1 = t2
    BY <1>1, <2>1 DEF SessionsInv, FamilyInv
  <2> QED
    BY <1>1, <2>1 DEF SessionsInv, FamilyInv, RefreshedOnce
<1> QED
  BY <1>1, SessionsInvariant, PTL

-----------------------------------------------------------------------------
(* AcademicVerification: materials, their files and their cleanup.            *)

\* The least of a set of ids is one of them, and no other is less.
LEMMA MinId ==
    ASSUME NEW S \in SUBSET Nat, S # {}
    PROVE  Min(S) \in S /\ \A n \in S : Min(S) <= n
<1>1. \E m \in S : \A n \in S : m <= n
  BY LeastNumber
<1> QED
  BY <1>1 DEF Min

\* A material that may be deleted: its retention has begun, or it was not used in
\* time. Neither is ever taken back.
Doomed(row) == row.retention # "none" \/ (row.request = 0 /\ row.expired)

\* What holds of the row of material m: only a doomed one is being deleted or is
\* deleted, one that is not doomed has its file, a deleted one has none.
RowKept(m, row) ==
    /\ row.status = "available" => row.request = 0
    /\ row.status = "bound" => row.request # 0
    /\ row.request # 0 => row.request \in DOMAIN verification
    /\ row.request = 0 => row.retention = "none"
    /\ row.status \in {"deleting", "deleted"} => Doomed(row)
    /\ ~Doomed(row) => m \in files
    /\ row.status = "deleted" => m \notin files

\* An upload has its file under a key of its own, and no row.
UploadsInv ==
    /\ \A up \in uploading : up.key \in files /\ up.key \notin DOMAIN material
    /\ \A up1, up2 \in uploading : up1.key = up2.key => up1 = up2

\* A pending request has its material, whose retention has not begun.
PendingInv ==
    \A r \in DOMAIN verification : verification[r].status = "pending" =>
        LET m == verification[r].material IN
        m \in DOMAIN material /\ material[m].request = r /\ material[m].retention = "none"

\* A cleanup holds doomed rows only, and deletes a file before it completes the row.
CleanerKept(c) ==
    /\ c.batch \subseteq DOMAIN material /\ \A m \in c.batch : Doomed(material[m])
    /\ c.step # "idle" => c.batch # {}
    /\ c.step = "complete" => Min(c.batch) \notin files

\* The types of the materials, and of the rest.
MaterialTyped ==
    /\ \A m \in DOMAIN material : m \in MaterialIds /\ material[m] \in MaterialRows
    /\ files \subseteq MaterialIds
    /\ uploading \subseteq [user : Students, key : MaterialIds]
    /\ cleaner \in [Cleaners -> Cleanups]
    /\ cleanupFaults \in 0 .. MaxCleanupFaults
RequestTyped ==
    /\ \A r \in DOMAIN verification : r \in RequestIds /\ verification[r] \in RequestRows
    /\ \A u \in DOMAIN identity : u \in Students /\ identity[u] \in IdentityRows
    /\ members \subseteq Students

\* Inductive, with the types of the requests.
MaterialInv ==
    /\ MaterialTyped
    /\ UploadsInv
    /\ \A m \in DOMAIN material : RowKept(m, material[m])
    /\ PendingInv
    /\ \A w \in Cleaners : CleanerKept(cleaner[w])

\* Ids are positive numbers; the bounds are numbers.
LEMMA AcademicNumbers ==
    /\ MaterialIds \subseteq Nat /\ RequestIds \subseteq Nat /\ 0 \notin RequestIds /\ 0 \notin MaterialIds
    /\ CleanupBatch \in Nat /\ MaxIdentityVersion \in Nat /\ MaxCleanupFaults \in Nat /\ 0 < CleanupBatch
BY AcademicAssumption

\* No materials, no uploads, no requests, no cleanups.
LEMMA MaterialInitInv == AcademicInit => MaterialInv /\ RequestTyped
<1> SUFFICES ASSUME AcademicInit PROVE MaterialInv /\ RequestTyped
  OBVIOUS
<1>1. NoCleanup \in Cleanups
  BY DEF NoCleanup, Cleanups
<1>2. MaterialTyped /\ RequestTyped
  BY <1>1, AcademicNumbers DEF AcademicInit, MaterialTyped, RequestTyped
<1>3. \A w \in Cleaners : CleanerKept(cleaner[w])
  BY DEF AcademicInit, CleanerKept, NoCleanup
<1> QED
  BY <1>2, <1>3 DEF AcademicInit, MaterialInv, UploadsInv, PendingInv

\* A write of one material row keeps the invariant when the row stays with its
\* request, no doom is taken back, and what the cleanups hold is doomed.
LEMMA MaterialWriteKeeps ==
    ASSUME MaterialInv, NEW m \in DOMAIN material, NEW row \in MaterialRows,
           material' = [material EXCEPT ![m] = row],
           UNCHANGED <<files, uploading, verification>>,
           RowKept(m, row), row.request = material[m].request,
           Doomed(material[m]) => Doomed(row),
           (row.retention = "none") = (material[m].retention = "none"),
           cleanupFaults' \in 0 .. MaxCleanupFaults,
           cleaner' \in [Cleaners -> Cleanups],
           \A w \in Cleaners : CleanerKept(cleaner'[w])
    PROVE  MaterialInv'
<1>1. DOMAIN material' = DOMAIN material /\ \A n \in DOMAIN material : material'[n] = IF n = m THEN row ELSE material[n]
  OBVIOUS
<1>2. MaterialTyped'
  BY <1>1 DEF MaterialInv, MaterialTyped
<1>3. UploadsInv'
  BY <1>1 DEF MaterialInv, UploadsInv
<1>4. \A n \in DOMAIN material' : RowKept(n, material[n])'
  BY <1>1 DEF MaterialInv, RowKept
<1>5. PendingInv'
  BY <1>1 DEF MaterialInv, PendingInv
<1>6. \A n \in DOMAIN material : Doomed(material[n]) => Doomed(material'[n])
  BY <1>1
<1>7. \A w \in Cleaners : CleanerKept(cleaner[w])'
  BY <1>1, <1>6 DEF CleanerKept
<1> QED
  BY <1>2, <1>3, <1>4, <1>5, <1>7 DEF MaterialInv

\* The uploads: a file, then its row; a failed one may leave its file.
LEMMA UploadsKeep ==
    ASSUME MaterialInv,
           \/ \E u \in Students : SaveMaterial(u)
           \/ \E up \in uploading : CreateMaterial(up) \/ UploadFails(up)
    PROVE  MaterialInv'
<1>1. ASSUME NEW u \in Students, SaveMaterial(u) PROVE MaterialInv'
  <2>1. PICK m \in MaterialIds \ (files \cup DOMAIN material) :
          files' = files \cup {m} /\ uploading' = uploading \cup {[user |-> u, key |-> m]}
    BY <1>1 DEF SaveMaterial
  <2>2. UNCHANGED <<material, cleaner, cleanupFaults, verification, identity, members>>
    BY <1>1 DEF SaveMaterial
  <2>3. MaterialTyped'
    BY <2>1, <2>2 DEF MaterialInv, MaterialTyped
  <2>4. UploadsInv'
    BY <2>1, <2>2 DEF MaterialInv, UploadsInv
  <2>5. \A n \in DOMAIN material' : RowKept(n, material[n])'
    BY <2>1, <2>2 DEF MaterialInv, RowKept
  <2>6. PendingInv'
    BY <2>2 DEF MaterialInv, PendingInv
  <2>7. \A w \in Cleaners : CleanerKept(cleaner[w])'
    <3> SUFFICES ASSUME NEW w \in Cleaners PROVE CleanerKept(cleaner[w])'
      OBVIOUS
    <3>1. CleanerKept(cleaner[w]) /\ cleaner[w].batch \in SUBSET Nat
      BY AcademicNumbers DEF MaterialInv, MaterialTyped, Cleanups
    <3>2. cleaner[w].batch # {} => Min(cleaner[w].batch) \in DOMAIN material
      BY <3>1, MinId DEF CleanerKept
    <3> QED
      BY <2>1, <2>2, <3>1, <3>2 DEF CleanerKept
  <2> QED
    BY <2>3, <2>4, <2>5, <2>6, <2>7 DEF MaterialInv
<1>2. ASSUME NEW up \in uploading, CreateMaterial(up) PROVE MaterialInv'
  <2> DEFINE row == [user |-> up.user, status |-> "available", request |-> 0, expired |-> FALSE,
                     retention |-> "none", stale |-> FALSE]
  <2>1. up.user \in Students /\ up.key \in MaterialIds /\ up.key \in files /\ up.key \notin DOMAIN material
    BY DEF MaterialInv, MaterialTyped, UploadsInv
  <2>2. row \in MaterialRows
    BY <2>1 DEF MaterialRows
  <2>3. RowKept(up.key, row)
    BY <2>1 DEF RowKept, Doomed
  <2>4. material' = Having(material, up.key, row)
    BY <1>2 DEF CreateMaterial
  <2> HIDE DEF row
  <2>5. /\ DOMAIN material' = DOMAIN material \cup {up.key}
        /\ \A m \in DOMAIN material' : material'[m] = IF m = up.key THEN row ELSE material[m]
    BY <2>4 DEF Having
  <2>6. uploading' = uploading \ {up} /\ UNCHANGED <<files, cleaner, cleanupFaults, verification>>
    BY <1>2 DEF CreateMaterial
  <2>7. MaterialTyped'
    BY <2>1, <2>2, <2>5, <2>6 DEF MaterialInv, MaterialTyped
  <2>8. UploadsInv'
    BY <2>5, <2>6 DEF MaterialInv, UploadsInv
  <2>9. \A n \in DOMAIN material' : RowKept(n, material[n])'
    BY <2>3, <2>5, <2>6 DEF MaterialInv, RowKept
  <2>10. PendingInv'
    BY <2>1, <2>5, <2>6 DEF MaterialInv, PendingInv
  <2>11. \A w \in Cleaners : CleanerKept(cleaner[w])'
    BY <2>1, <2>5, <2>6 DEF MaterialInv, CleanerKept
  <2> QED
    BY <2>7, <2>8, <2>9, <2>10, <2>11 DEF MaterialInv
<1>3. ASSUME NEW up \in uploading, UploadFails(up) PROVE MaterialInv'
  <2>1. /\ uploading' = uploading \ {up} /\ files' \subseteq files /\ files \ {up.key} \subseteq files'
        /\ UNCHANGED <<material, cleaner, verification>>
    BY <1>3 DEF UploadFails
  <2>2. cleanupFaults' \in 0 .. MaxCleanupFaults
    BY <1>3, AcademicNumbers DEF UploadFails, MaterialInv, MaterialTyped
  <2>3. MaterialTyped'
    BY <2>1, <2>2 DEF MaterialInv, MaterialTyped
  <2>4. UploadsInv'
    BY <2>1 DEF MaterialInv, UploadsInv
  <2>5. \A n \in DOMAIN material' : RowKept(n, material[n])'
    BY <2>1 DEF MaterialInv, RowKept, UploadsInv
  <2>6. PendingInv'
    BY <2>1 DEF MaterialInv, PendingInv
  <2>7. \A w \in Cleaners : CleanerKept(cleaner[w])'
    BY <2>1 DEF MaterialInv, CleanerKept
  <2> QED
    BY <2>3, <2>4, <2>5, <2>6, <2>7 DEF MaterialInv
<1> QED
  BY <1>1, <1>2, <1>3

\* SubmitStudentCard: the material goes with the new request. It is not doomed, so
\* its file is there and no cleanup holds it.
LEMMA SubmitKeepsMaterial ==
    ASSUME MaterialInv, RequestTyped, NEW u \in Students, NEW no \in StudentNos,
           NEW m \in DOMAIN material, NEW r \in FreeRequestIds, SubmitStudentCard(u, no, m, r)
    PROVE  MaterialInv'
<1> DEFINE row == [material[m] EXCEPT !.status = "bound", !.request = r]
           new == [user |-> u, no |-> no, method |-> "student_card", material |-> m, status |-> "pending"]
<1>1. r \in RequestIds /\ r \notin DOMAIN verification /\ r # 0
  BY AcademicNumbers DEF FreeRequestIds
<1>2. /\ verification' = Having(verification, r, new)
      /\ material' = [material EXCEPT ![m].status = "bound", ![m].request = r]
      /\ material[m].status = "available" /\ ~material[m].expired
      /\ UNCHANGED <<files, uploading, cleaner, cleanupFaults>>
  BY DEF SubmitStudentCard
<1>3. material[m] \in MaterialRows /\ m \in MaterialIds /\ RowKept(m, material[m])
  BY DEF MaterialInv, MaterialTyped
<1>4. material[m].request = 0 /\ material[m].retention = "none" /\ ~Doomed(material[m]) /\ m \in files
  BY <1>2, <1>3 DEF RowKept, Doomed
<1>5. /\ row \in MaterialRows /\ row.status = "bound" /\ row.request = r /\ row.retention = "none"
      /\ row.expired = material[m].expired
  BY <1>1, <1>3, <1>4 DEF MaterialRows
<1>6. material' = [material EXCEPT ![m] = row]
  BY <1>2, <1>3 DEF MaterialRows
<1>new. new.status = "pending" /\ new.material = m
  OBVIOUS
<1> HIDE DEF row, new
<1>7. DOMAIN material' = DOMAIN material /\ \A n \in DOMAIN material : material'[n] = IF n = m THEN row ELSE material[n]
  BY <1>6
<1>8. /\ DOMAIN verification' = DOMAIN verification \cup {r}
      /\ \A q \in DOMAIN verification' : verification'[q] = IF q = r THEN new ELSE verification[q]
  BY <1>2 DEF Having
<1>9. MaterialTyped'
  BY <1>2, <1>5, <1>7 DEF MaterialInv, MaterialTyped
<1>10. UploadsInv'
  BY <1>2, <1>7 DEF MaterialInv, UploadsInv
<1>11. \A n \in DOMAIN material' : RowKept(n, material[n])'
  BY <1>1, <1>2, <1>4, <1>5, <1>7, <1>8 DEF MaterialInv, RowKept
<1>12. PendingInv'
  <2> SUFFICES ASSUME NEW q \in DOMAIN verification', verification'[q].status = "pending"
               PROVE  LET n == verification'[q].material IN
                      n \in DOMAIN material' /\ material'[n].request = q /\ material'[n].retention = "none"
    BY DEF PendingInv
  <2>1. CASE q = r
    BY <1>5, <1>7, <1>8, <1>new, <2>1
  <2>2. CASE q # r
    <3> DEFINE n == verification[q].material
    <3>1. q \in DOMAIN verification /\ verification'[q] = verification[q]
      BY <1>8, <2>2
    <3>2. n \in DOMAIN material /\ material[n].request = q /\ material[n].retention = "none"
      BY <3>1 DEF MaterialInv, PendingInv
    <3>3. n = m => verification[q] = verification'[q] /\ q = 0
      BY <1>4, <3>1, <3>2
    <3>4. CASE n # m
      BY <1>7, <3>1, <3>2, <3>4
    <3>5. CASE n = m
      <4>1. row.request = r /\ material[m].request = 0 /\ q = 0
        BY <1>4, <1>5, <3>3, <3>5
      <4>2. 0 \notin DOMAIN verification
        BY AcademicNumbers DEF RequestTyped
      <4> QED
        BY <3>1, <4>1, <4>2
    <3> QED
      BY <3>4, <3>5
  <2> QED
    BY <2>1, <2>2
<1>13. \A w \in Cleaners : CleanerKept(cleaner[w])'
  <2> SUFFICES ASSUME NEW w \in Cleaners PROVE CleanerKept(cleaner[w])'
    OBVIOUS
  <2>1. CleanerKept(cleaner[w])
    BY DEF MaterialInv
  <2>2. m \notin cleaner[w].batch
    BY <1>4, <2>1 DEF CleanerKept
  <2> QED
    BY <1>2, <1>7, <2>1, <2>2 DEF CleanerKept
<1> QED
  BY <1>9, <1>10, <1>11, <1>12, <1>13 DEF MaterialInv

\* A decision: the requests it takes out of pending lose their material to the
\* retention, every other material stays as it is.
LEMMA DecisionKeepsMaterial ==
    ASSUME MaterialInv, StartRetention, UNCHANGED <<files, uploading, cleaner, cleanupFaults>>,
           DOMAIN verification \subseteq DOMAIN verification',
           \A r \in DOMAIN verification' : verification'[r].status = "pending" =>
              r \in DOMAIN verification /\ verification[r] = verification'[r]
    PROVE  MaterialInv'
<1> DEFINE leaves(m) == LET r == material[m].request IN
                        r # 0 /\ verification[r].status = "pending" /\ verification'[r].status # "pending"
<1>1. /\ DOMAIN material' = DOMAIN material
      /\ \A m \in DOMAIN material :
            material'[m] = IF leaves(m) THEN [material[m] EXCEPT !.retention = "running"] ELSE material[m]
  BY DEF StartRetention
<1>2. ASSUME NEW m \in DOMAIN material
      PROVE  /\ material'[m] \in MaterialRows /\ material'[m].request = material[m].request
             /\ material'[m].status = material[m].status /\ material'[m].expired = material[m].expired
             /\ leaves(m) => material'[m].retention = "running" /\ material[m].request # 0
             /\ ~leaves(m) => material'[m] = material[m]
  <2>1. material[m] \in MaterialRows
    BY DEF MaterialInv, MaterialTyped
  <2>2. CASE leaves(m)
    <3>1. material'[m] = [material[m] EXCEPT !.retention = "running"]
      BY <1>1, <2>2
    <3>2. material[m].request # 0
      BY <2>2
    <3> HIDE DEF leaves
    <3> QED
      BY <2>1, <2>2, <3>1, <3>2 DEF MaterialRows
  <2>3. CASE ~leaves(m)
    <3>1. material'[m] = material[m]
      BY <1>1, <2>3
    <3> HIDE DEF leaves
    <3> QED
      BY <2>1, <2>3, <3>1
  <2> QED
    BY <2>2, <2>3
<1>3. MaterialTyped'
  BY <1>1, <1>2 DEF MaterialInv, MaterialTyped
<1>4. UploadsInv'
  BY <1>1 DEF MaterialInv, UploadsInv
<1>5. \A m \in DOMAIN material : Doomed(material[m]) => Doomed(material'[m])
  <2> HIDE DEF leaves
  <2> QED
    BY <1>2 DEF Doomed
<1>6. \A m \in DOMAIN material' : RowKept(m, material[m])'
  <2> SUFFICES ASSUME NEW m \in DOMAIN material PROVE RowKept(m, material[m])'
    BY <1>1
  <2>1. RowKept(m, material[m])
    BY DEF MaterialInv
  <2> HIDE DEF leaves
  <2> QED
    BY <1>2, <1>5, <2>1 DEF RowKept
<1>7. PendingInv'
  <2> SUFFICES ASSUME NEW r \in DOMAIN verification', verification'[r].status = "pending"
               PROVE  LET m == verification'[r].material IN
                      m \in DOMAIN material' /\ material'[m].request = r /\ material'[m].retention = "none"
    BY DEF PendingInv
  <2> DEFINE m == verification[r].material
  <2>1. r \in DOMAIN verification /\ verification'[r] = verification[r]
    OBVIOUS
  <2>2. m \in DOMAIN material /\ material[m].request = r /\ material[m].retention = "none"
    BY <2>1 DEF MaterialInv, PendingInv
  <2>3. ~leaves(m)
    BY <2>2
  <2> QED
    BY <1>1, <2>1, <2>2, <2>3
<1>8. \A w \in Cleaners : CleanerKept(cleaner[w])'
  BY <1>1, <1>5 DEF MaterialInv, CleanerKept
<1> QED
  BY <1>3, <1>4, <1>6, <1>7, <1>8 DEF MaterialInv

\* What is due is doomed already.
LEMMA DueAreDoomed ==
    ASSUME MaterialInv, NEW m \in DueMaterials
    PROVE  m \in DOMAIN material /\ Doomed(material[m]) /\ material[m].status # "deleted"
BY DEF MaterialInv, DueMaterials, RowKept, Doomed

\* ClaimCleanup: the claimed rows are doomed and there is at least one.
LEMMA ClaimKeepsMaterial ==
    ASSUME MaterialInv, NEW w \in Cleaners, ClaimCleanup(w)
    PROVE  MaterialInv'
<1> DEFINE batch == ClaimedRows
           c == [batch |-> batch, step |-> "delete"]
<1>0. UNCHANGED <<files, verification>>
  BY Zenon DEF ClaimCleanup
<1>1. /\ DueMaterials # {} /\ cleaner' = [cleaner EXCEPT ![w] = c]
      /\ material' = [m \in DOMAIN material |->
                         IF m \in batch
                         THEN [material[m] EXCEPT !.status = "deleting", !.stale = FALSE]
                         ELSE material[m]]
      /\ UNCHANGED <<files, uploading, cleanupFaults, verification>>
  BY DEF ClaimCleanup
<1>2. DueMaterials \subseteq DOMAIN material /\ DOMAIN material \subseteq MaterialIds
  BY DEF DueMaterials, MaterialInv, MaterialTyped
<1>3. batch \subseteq DueMaterials /\ batch # {}
  <2>1. DueMaterials \in SUBSET Nat
    BY <1>2, AcademicNumbers
  <2>2. Min(DueMaterials) \in DueMaterials /\ \A n \in DueMaterials : Min(DueMaterials) <= n
    BY <1>1, <2>1, MinId
  <2>3. {n \in DueMaterials : n < Min(DueMaterials)} = {}
    <3>1. ASSUME NEW n \in DueMaterials PROVE ~(n < Min(DueMaterials))
      <4>1. n \in Nat /\ Min(DueMaterials) \in Nat /\ Min(DueMaterials) <= n
        BY <2>1, <2>2
      <4> QED
        BY <4>1
    <3> QED
      BY <3>1
  <2>4. Cardinality({n \in DueMaterials : n < Min(DueMaterials)}) < CleanupBatch
    BY <2>3, FS_EmptySet, AcademicNumbers
  <2> QED
    BY <2>2, <2>4 DEF ClaimedRows
<1>4. c \in Cleanups /\ c.batch = batch /\ c.step = "delete"
  BY <1>2, <1>3 DEF Cleanups
<1>5. CleanerKept(c)
  BY <1>2, <1>3, <1>4, DueAreDoomed DEF CleanerKept
<1> HIDE DEF batch, c
<1>6. cleaner' \in [Cleaners -> Cleanups] /\ \A v \in Cleaners : CleanerKept(cleaner'[v])
  BY <1>1, <1>4, <1>5 DEF MaterialInv, MaterialTyped
<1>7. DOMAIN material' = DOMAIN material
  BY <1>1
<1>8. ASSUME NEW m \in DOMAIN material
      PROVE  /\ material'[m] \in MaterialRows /\ material'[m].request = material[m].request
             /\ material'[m].retention = material[m].retention /\ material'[m].expired = material[m].expired
             /\ material'[m].status = material[m].status
                \/ (material'[m].status = "deleting" /\ Doomed(material[m]) /\ material[m].status # "deleted")
  <2>1. material[m] \in MaterialRows
    BY DEF MaterialInv, MaterialTyped
  <2>2. CASE m \in batch
    <3>1. Doomed(material[m]) /\ material[m].status # "deleted"
      BY <1>3, <2>2, DueAreDoomed
    <3> QED
      BY <1>1, <2>1, <2>2, <3>1 DEF MaterialRows
  <2>3. CASE m \notin batch
    BY <1>1, <2>1, <2>3
  <2> QED
    BY <2>2, <2>3
<1>9. MaterialTyped'
  BY <1>1, <1>6, <1>7, <1>8 DEF MaterialInv, MaterialTyped
<1>10. \A m \in DOMAIN material : Doomed(material'[m]) = Doomed(material[m])
  BY <1>8 DEF Doomed
<1>11. \A m \in DOMAIN material' : RowKept(m, material[m])'
  <2> SUFFICES ASSUME NEW m \in DOMAIN material PROVE RowKept(m, material[m])'
    BY <1>7
  <2>1. RowKept(m, material[m])
    BY DEF MaterialInv
  <2> QED
    BY <1>1, <1>8, <1>10, <2>1 DEF RowKept
<1>12. UploadsInv' /\ PendingInv'
  <2>1. UploadsInv'
    BY <1>1, <1>7 DEF MaterialInv, UploadsInv
  <2>2. ASSUME NEW r \in DOMAIN verification, verification[r].status = "pending"
        PROVE  LET m == verification[r].material IN
               m \in DOMAIN material' /\ material'[m].request = r /\ material'[m].retention = "none"
    <3> DEFINE m == verification[r].material
    <3>1. m \in DOMAIN material /\ material[m].request = r /\ material[m].retention = "none"
      BY <2>2 DEF MaterialInv, PendingInv
    <3> QED
      BY <1>7, <1>8, <3>1
  <2>3. PendingInv'
    <3>1. verification' = verification
      BY <1>0
    <3> SUFFICES ASSUME NEW r \in DOMAIN verification', verification'[r].status = "pending"
                 PROVE  LET m == verification'[r].material IN
                        m \in DOMAIN material' /\ material'[m].request = r /\ material'[m].retention = "none"
      BY DEF PendingInv
    <3> QED
      BY <2>2, <3>1
  <2> QED
    BY <2>1, <2>3
<1>13. \A v \in Cleaners : CleanerKept(cleaner[v])'
  BY <1>0, <1>6, <1>7, <1>10 DEF CleanerKept
<1> QED
  BY <1>9, <1>11, <1>12, <1>13 DEF MaterialInv

\* DeleteFile: the file of a doomed material goes, which no pending request has.
LEMMA DeleteFileKeepsMaterial ==
    ASSUME MaterialInv, NEW w \in Cleaners, DeleteFile(w)
    PROVE  MaterialInv'
<1> DEFINE m == RowInHand(w)
<1>1. /\ cleaner[w].step = "delete" /\ files' = files \ {m}
      /\ cleaner' = [cleaner EXCEPT ![w].step = "complete"]
      /\ UNCHANGED <<material, uploading, cleanupFaults, verification>>
  BY DEF DeleteFile
<1>2. cleaner[w] \in Cleanups /\ CleanerKept(cleaner[w])
  BY DEF MaterialInv, MaterialTyped
<1>3. cleaner[w].batch \in SUBSET Nat /\ cleaner[w].batch # {}
  BY <1>1, <1>2, AcademicNumbers DEF Cleanups, CleanerKept
<1>4. m \in cleaner[w].batch
  BY <1>3, MinId DEF RowInHand
<1>5. m \in DOMAIN material /\ Doomed(material[m])
  BY <1>2, <1>4 DEF CleanerKept
<1> DEFINE c == [cleaner[w] EXCEPT !.step = "complete"]
<1>6. c \in Cleanups /\ c.batch = cleaner[w].batch /\ c.step = "complete" /\ Min(c.batch) = m
  BY <1>2 DEF Cleanups, RowInHand
<1>7. cleaner' = [cleaner EXCEPT ![w] = c]
  BY <1>1 DEF MaterialInv, MaterialTyped, Cleanups
<1> HIDE DEF c, m
<1>8. cleaner' \in [Cleaners -> Cleanups] /\ \A v \in Cleaners : cleaner'[v] = IF v = w THEN c ELSE cleaner[v]
  BY <1>6, <1>7 DEF MaterialInv, MaterialTyped
<1>9. MaterialTyped'
  BY <1>1, <1>8 DEF MaterialInv, MaterialTyped
<1>10. UploadsInv' /\ PendingInv'
  <2>1. UploadsInv'
    BY <1>1, <1>5 DEF MaterialInv, UploadsInv
  <2>2. PendingInv'
    BY <1>1 DEF MaterialInv, PendingInv
  <2> QED
    BY <2>1, <2>2
<1>11. \A n \in DOMAIN material' : RowKept(n, material[n])'
  BY <1>1, <1>5 DEF MaterialInv, RowKept
<1>12. \A v \in Cleaners : CleanerKept(cleaner[v])'
  <2> SUFFICES ASSUME NEW v \in Cleaners PROVE CleanerKept(cleaner[v])'
    OBVIOUS
  <2>1. CASE v = w
    BY <1>1, <1>2, <1>3, <1>6, <1>8, <2>1 DEF CleanerKept
  <2>2. CASE v # w
    BY <1>1, <1>8, <2>2 DEF MaterialInv, CleanerKept
  <2> QED
    BY <2>1, <2>2
<1> QED
  BY <1>9, <1>10, <1>11, <1>12 DEF MaterialInv

\* A cleanup that ends, or turns to its next row, holds no more than it held.
LEMMA CleanerMoves ==
    ASSUME MaterialInv, NEW w \in Cleaners, NEW c \in Cleanups, CleanerKept(c),
           cleaner' = [cleaner EXCEPT ![w] = c]
    PROVE  cleaner' \in [Cleaners -> Cleanups] /\ \A v \in Cleaners : CleanerKept(cleaner'[v])
BY DEF MaterialInv, MaterialTyped

\* A step that changes nothing but one cleanup.
LEMMA CleanerFrame ==
    ASSUME MaterialInv, NEW w \in Cleaners, NEW c \in Cleanups, CleanerKept(c),
           cleaner' = [cleaner EXCEPT ![w] = c], cleanupFaults' \in 0 .. MaxCleanupFaults,
           UNCHANGED <<material, files, uploading, verification>>
    PROVE  MaterialInv'
<1>1. cleaner' \in [Cleaners -> Cleanups] /\ \A v \in Cleaners : CleanerKept(cleaner'[v])
  BY CleanerMoves
<1>2. MaterialTyped' /\ UploadsInv' /\ PendingInv'
  BY <1>1 DEF MaterialInv, MaterialTyped, UploadsInv, PendingInv
<1> QED
  BY <1>1, <1>2 DEF MaterialInv, RowKept, CleanerKept

\* An ended cleanup holds nothing.
LEMMA NoCleanupKept == NoCleanup \in Cleanups /\ CleanerKept(NoCleanup)
BY DEF NoCleanup, Cleanups, CleanerKept

\* The row a cleanup is at is one of its batch.
LEMMA RowInHandHeld ==
    ASSUME MaterialInv, NEW w \in Cleaners, cleaner[w].step # "idle"
    PROVE  /\ RowInHand(w) \in cleaner[w].batch /\ RowInHand(w) \in DOMAIN material
           /\ Doomed(material[RowInHand(w)])
           /\ cleaner[w] \in Cleanups /\ CleanerKept(cleaner[w])
           /\ cleaner[w].step = "complete" => RowInHand(w) \notin files
<1>1. cleaner[w] \in Cleanups /\ CleanerKept(cleaner[w])
  BY DEF MaterialInv, MaterialTyped
<1>2. cleaner[w].batch \in SUBSET Nat /\ cleaner[w].batch # {}
  BY <1>1, AcademicNumbers DEF Cleanups, CleanerKept
<1>3. RowInHand(w) \in cleaner[w].batch
  BY <1>2, MinId DEF RowInHand
<1> QED
  BY <1>1, <1>3 DEF CleanerKept, RowInHand

\* CompleteCleanup: the row in hand has lost its file, whoever deleted it, so any
\* deleting row may be marked deleted.
LEMMA CompleteKeepsMaterial ==
    ASSUME MaterialInv, NEW w \in Cleaners, CompleteCleanup(w)
    PROVE  MaterialInv'
<1> DEFINE m == RowInHand(w)
           b == cleaner[w].batch
           c == IF b = {m} THEN NoCleanup ELSE [batch |-> b \ {m}, step |-> "delete"]
           row == [material[m] EXCEPT !.status = "deleted"]
<1>1. cleaner[w].step = "complete" /\ UNCHANGED <<files, uploading, cleanupFaults, verification>>
  BY DEF CompleteCleanup
<1>2. /\ m \in b /\ m \in DOMAIN material /\ Doomed(material[m]) /\ m \notin files
      /\ cleaner[w] \in Cleanups /\ CleanerKept(cleaner[w])
  BY <1>1, RowInHandHeld
<1>3. cleanupFaults' \in 0 .. MaxCleanupFaults
  BY <1>1 DEF MaterialInv, MaterialTyped
<1>4. CASE material[m].status # "deleting"
  <2>1. cleaner' = [cleaner EXCEPT ![w] = NoCleanup] /\ UNCHANGED material
    BY <1>4 DEF CompleteCleanup
  <2> QED
    BY <1>1, <1>3, <2>1, NoCleanupKept, CleanerFrame
<1>5. CASE material[m].status = "deleting"
  <2>1. material[m] \in MaterialRows /\ RowKept(m, material[m])
    BY <1>2 DEF MaterialInv, MaterialTyped
  <2>2. /\ row \in MaterialRows /\ row.status = "deleted" /\ row.request = material[m].request
        /\ row.retention = material[m].retention /\ row.expired = material[m].expired
    BY <2>1 DEF MaterialRows
  <2>3. material' = [material EXCEPT ![m] = row]
    BY <1>5, <2>1 DEF CompleteCleanup, MaterialRows
  <2>4. c \in Cleanups /\ CleanerKept(c)
    <3>1. CASE b = {m}
      BY <3>1, NoCleanupKept
    <3>2. CASE b # {m}
      <4>1. c = [batch |-> b \ {m}, step |-> "delete"]
        BY <3>2
      <4>2. b \ {m} \in SUBSET MaterialIds /\ b \ {m} # {}
        BY <1>2, <3>2 DEF Cleanups
      <4> QED
        BY <1>2, <4>1, <4>2 DEF Cleanups, CleanerKept
    <3> QED
      BY <3>1, <3>2
  <2>5. cleaner' = [cleaner EXCEPT ![w] = c]
    BY <1>5 DEF CompleteCleanup
  <2> HIDE DEF row, c
  <2>6. cleaner' \in [Cleaners -> Cleanups] /\ \A v \in Cleaners : CleanerKept(cleaner'[v])
    BY <2>4, <2>5, CleanerMoves
  <2>7. Doomed(row) /\ RowKept(m, row)
    BY <1>2, <2>1, <2>2 DEF RowKept, Doomed
  <2> HIDE DEF m
  <2> QED
    BY <1>1, <1>2, <1>3, <2>2, <2>3, <2>6, <2>7, MaterialWriteKeeps
<1> QED
  BY <1>4, <1>5

\* ReleaseCleanup: the row is given back as what it was, doomed all the same.
LEMMA ReleaseKeepsMaterial ==
    ASSUME MaterialInv, NEW w \in Cleaners, ReleaseCleanup(w)
    PROVE  MaterialInv'
<1> DEFINE m == RowInHand(w)
           status == IF material[m].request = 0 THEN "available" ELSE "bound"
           row == [material[m] EXCEPT !.status = status]
<1>1. /\ cleaner[w].step = "release" /\ UNCHANGED <<files, uploading, cleanupFaults, verification>>
      /\ cleaner' = [cleaner EXCEPT ![w] = NoCleanup]
  BY DEF ReleaseCleanup
<1>2. m \in DOMAIN material /\ Doomed(material[m])
  BY <1>1, RowInHandHeld
<1>3. cleanupFaults' \in 0 .. MaxCleanupFaults
  BY <1>1 DEF MaterialInv, MaterialTyped
<1>4. CASE material[m].status # "deleting"
  <2>1. UNCHANGED material
    BY <1>4 DEF ReleaseCleanup
  <2> QED
    BY <1>1, <1>3, <2>1, NoCleanupKept, CleanerFrame
<1>5. CASE material[m].status = "deleting"
  <2>1. material[m] \in MaterialRows /\ RowKept(m, material[m])
    BY <1>2 DEF MaterialInv, MaterialTyped
  <2>2. /\ row \in MaterialRows /\ row.status = status /\ row.request = material[m].request
        /\ row.retention = material[m].retention /\ row.expired = material[m].expired
    BY <2>1 DEF MaterialRows
  <2>3. material' = [material EXCEPT ![m] = row]
    BY <1>5, <2>1 DEF ReleaseCleanup, MaterialRows
  <2> HIDE DEF row
  <2>4. cleaner' \in [Cleaners -> Cleanups] /\ \A v \in Cleaners : CleanerKept(cleaner'[v])
    BY <1>1, NoCleanupKept, CleanerMoves
  <2>5. Doomed(row) /\ RowKept(m, row)
    BY <1>2, <2>1, <2>2 DEF RowKept, Doomed
  <2> HIDE DEF m
  <2> QED
    BY <1>1, <1>2, <1>3, <2>2, <2>3, <2>4, <2>5, MaterialWriteKeeps
<1> QED
  BY <1>4, <1>5

\* The faults of a cleanup, and the time: what was doomed stays so.
LEMMA FaultsAndTimeKeepMaterial ==
    ASSUME MaterialInv,
           \/ \E w \in Cleaners : DeleteFails(w) \/ CleanerStops(w)
           \/ \E m \in DOMAIN material : TimePasses(m)
    PROVE  MaterialInv'
<1>1. ASSUME NEW w \in Cleaners, CleanerStops(w) PROVE MaterialInv'
  <2>1. cleanupFaults' \in 0 .. MaxCleanupFaults
    BY <1>1, AcademicNumbers DEF CleanerStops, MaterialInv, MaterialTyped
  <2> QED
    BY <1>1, <2>1, NoCleanupKept, CleanerFrame DEF CleanerStops
<1>2. ASSUME NEW w \in Cleaners, DeleteFails(w) PROVE MaterialInv'
  <2> DEFINE c == [cleaner[w] EXCEPT !.step = "release"]
  <2>1. cleanupFaults' \in 0 .. MaxCleanupFaults
    BY <1>2, AcademicNumbers DEF DeleteFails, MaterialInv, MaterialTyped
  <2>2. cleaner[w].step = "delete" /\ cleaner[w] \in Cleanups /\ CleanerKept(cleaner[w])
    BY <1>2, RowInHandHeld DEF DeleteFails
  <2>3. c \in Cleanups /\ c.batch = cleaner[w].batch /\ c.step = "release"
    BY <2>2 DEF Cleanups
  <2>4. cleaner' = [cleaner EXCEPT ![w] = c]
    BY <1>2 DEF DeleteFails, MaterialInv, MaterialTyped, Cleanups
  <2> HIDE DEF c
  <2>5. CleanerKept(c)
    BY <2>2, <2>3 DEF CleanerKept
  <2> QED
    BY <1>2, <2>1, <2>3, <2>4, <2>5, CleanerFrame DEF DeleteFails
<1>3. ASSUME NEW m \in DOMAIN material, TimePasses(m) PROVE MaterialInv'
  <2>1. UNCHANGED <<files, uploading, cleaner, cleanupFaults, verification>>
    BY <1>3 DEF TimePasses
  <2>2. material[m] \in MaterialRows /\ RowKept(m, material[m])
    BY DEF MaterialInv, MaterialTyped
  <2>3. PICK row \in MaterialRows :
          /\ material' = [material EXCEPT ![m] = row]
          /\ row.status = material[m].status /\ row.request = material[m].request
          /\ (row.retention = "none") = (material[m].retention = "none")
          /\ material[m].expired => row.expired
          /\ row.request = 0 \/ row.expired = material[m].expired \/ row.retention = material[m].retention
    <3>1. CASE material' = [material EXCEPT ![m].expired = TRUE]
      <4> DEFINE row == [material[m] EXCEPT !.expired = TRUE]
      <4>1. /\ row \in MaterialRows /\ row.status = material[m].status
            /\ row.request = material[m].request /\ row.retention = material[m].retention /\ row.expired
        BY <2>2 DEF MaterialRows
      <4>2. material' = [material EXCEPT ![m] = row]
        BY <3>1
      <4> QED
        BY <4>1, <4>2
    <3>2. CASE material' = [material EXCEPT ![m].retention = IF @ = "running" THEN "over" ELSE @]
      <4> DEFINE retention == IF material[m].retention = "running" THEN "over" ELSE material[m].retention
                 row == [material[m] EXCEPT !.retention = retention]
      <4>1. retention \in {"none", "running", "over"} /\ (retention = "none") = (material[m].retention = "none")
        BY <2>2 DEF MaterialRows
      <4>2. material' = [material EXCEPT ![m] = row]
        BY <3>2
      <4> HIDE DEF retention
      <4>3. /\ row \in MaterialRows /\ row.status = material[m].status
            /\ row.request = material[m].request /\ row.retention = retention
            /\ row.expired = material[m].expired
        BY <2>2, <4>1 DEF MaterialRows
      <4> QED
        BY <4>1, <4>2, <4>3
    <3>3. CASE material' = [material EXCEPT ![m].stale = (material[m].status = "deleting")]
      <4> DEFINE row == [material[m] EXCEPT !.stale = (material[m].status = "deleting")]
      <4>1. /\ row \in MaterialRows /\ row.status = material[m].status
            /\ row.request = material[m].request /\ row.retention = material[m].retention
            /\ row.expired = material[m].expired
        BY <2>2 DEF MaterialRows
      <4>2. material' = [material EXCEPT ![m] = row]
        BY <3>3
      <4> QED
        BY <4>1, <4>2
    <3> QED
      BY <1>3, <3>1, <3>2, <3>3 DEF TimePasses
  <2>4. Doomed(material[m]) => Doomed(row)
    BY <2>3 DEF Doomed
  <2>5. RowKept(m, row)
    BY <2>2, <2>3, <2>4 DEF RowKept, Doomed
  <2>6. /\ cleaner' \in [Cleaners -> Cleanups] /\ \A w \in Cleaners : CleanerKept(cleaner'[w])
        /\ cleanupFaults' \in 0 .. MaxCleanupFaults
    BY <2>1 DEF MaterialInv, MaterialTyped
  <2> QED
    BY <2>1, <2>3, <2>4, <2>5, <2>6, MaterialWriteKeeps
<1> QED
  BY <1>1, <1>2, <1>3

-----------------------------------------------------------------------------
(* AcademicVerification: requests, identities and the base role.              *)

\* What waits for a review came with a card, so an approval makes the identity what
\* the request says.
PendingAreCards ==
    \A r \in DOMAIN verification :
        verification[r].status = "pending" => verification[r].method = "student_card"

\* An approved request of u is the one its identity came from.
HasItsRequest(u) ==
    \E r \in ApprovedOf(u) :
        verification[r].no = identity[u].no /\ verification[r].method = identity[u].method

\* Inductive on its own.
RequestInv ==
    /\ RequestTyped
    /\ PendingAreCards
    /\ members = {u \in DOMAIN identity : identity[u].status = "verified"}
    /\ \A u \in members : HasItsRequest(u)
    /\ \A u, v \in DOMAIN identity : identity[u].no = identity[v].no => u = v

\* replaceIdentity writes one identity, with a number that no other user has.
LEMMA ReplaceEffect ==
    ASSUME RequestInv, NEW u \in Students, NEW no \in StudentNos,
           NEW method \in {"student_card", "credentials"}, replaceIdentity(u, no, method)
    PROVE  /\ DOMAIN identity' = DOMAIN identity \cup {u}
           /\ \A v \in DOMAIN identity' : v # u => v \in DOMAIN identity /\ identity'[v] = identity[v]
           /\ identity'[u] \in IdentityRows /\ identity'[u].status = "verified"
           /\ identity'[u].no = no /\ identity'[u].method = method
           /\ \A v \in DOMAIN identity \ {u} : identity[v].no # no
<1> DEFINE version == IF u \in DOMAIN identity THEN identity[u].version + 1 ELSE 1
           row == [no |-> no, method |-> method, status |-> "verified", version |-> version]
<1>1. version \in Nat
  <2>1. CASE u \in DOMAIN identity
    <3>1. identity[u] \in IdentityRows
      BY <2>1 DEF RequestInv, RequestTyped
    <3>2. identity[u].version \in Nat
      BY <3>1 DEF IdentityRows
    <3> QED
      BY <2>1, <3>2
  <2>2. CASE u \notin DOMAIN identity
    BY <2>2
  <2> QED
    BY <2>1, <2>2
<1>2. identity' = Having(identity, u, row) /\ \A v \in DOMAIN identity \ {u} : identity[v].no # no
  BY DEF replaceIdentity
<1> HIDE DEF version
<1>3. row \in IdentityRows /\ row.status = "verified" /\ row.no = no /\ row.method = method
  BY <1>1 DEF IdentityRows
<1> HIDE DEF row
<1> QED
  BY <1>2, <1>3 DEF Having

\* An approval, of a request that waited or of one made for the credentials: the
\* identity is its own, and what was approved before stays so.
LEMMA ApprovalKeeps ==
    ASSUME RequestInv, NEW u \in Students, NEW no \in StudentNos,
           NEW method \in {"student_card", "credentials"}, NEW r \in RequestIds,
           replaceIdentity(u, no, method), members' = members \cup {u},
           DOMAIN verification' = DOMAIN verification \cup {r},
           r \in DOMAIN verification => verification[r].user = u /\ verification[r].status = "pending",
           verification'[r] \in RequestRows, verification'[r].user = u, verification'[r].no = no,
           verification'[r].method = method, verification'[r].status = "approved",
           \A q \in DOMAIN verification \ {r} : verification'[q] =
              IF verification[q].user = u /\ verification[q].status = "pending"
              THEN [verification[q] EXCEPT !.status = "superseded"] ELSE verification[q]
    PROVE  RequestInv'
<1>1. ASSUME NEW q \in DOMAIN verification \ {r}
      PROVE  /\ verification'[q] \in RequestRows
             /\ verification'[q].status \in {"pending", "approved"} => verification'[q] = verification[q]
             /\ verification[q].status = "approved" => verification'[q] = verification[q]
  <2>1. verification[q] \in RequestRows
    BY DEF RequestInv, RequestTyped
  <2>2. CASE verification[q].user = u /\ verification[q].status = "pending"
    <3>1. verification'[q] = [verification[q] EXCEPT !.status = "superseded"]
      BY <2>2
    <3> QED
      BY <2>1, <2>2, <3>1 DEF RequestRows
  <2>3. CASE ~(verification[q].user = u /\ verification[q].status = "pending")
    <3>1. verification'[q] = verification[q]
      BY <2>3
    <3> QED
      BY <2>1, <2>3, <3>1
  <2> QED
    BY <2>2, <2>3
<1>2. /\ DOMAIN identity' = DOMAIN identity \cup {u}
      /\ \A v \in DOMAIN identity' : v # u => v \in DOMAIN identity /\ identity'[v] = identity[v]
      /\ identity'[u] \in IdentityRows /\ identity'[u].status = "verified"
      /\ identity'[u].no = no /\ identity'[u].method = method
      /\ \A v \in DOMAIN identity \ {u} : identity[v].no # no
  BY ReplaceEffect
<1>4. RequestTyped'
  BY <1>1, <1>2 DEF RequestInv, RequestTyped
<1>5. PendingAreCards'
  BY <1>1 DEF RequestInv, PendingAreCards
<1>6. members' = {v \in DOMAIN identity' : identity'[v].status = "verified"}
  BY <1>2 DEF RequestInv
<1>7. \A v \in members' : HasItsRequest(v)'
  <2>1. HasItsRequest(u)'
    <3>1. r \in ApprovedOf(u)'
      BY DEF ApprovedOf
    <3> QED
      BY <1>2, <3>1 DEF HasItsRequest
  <2>2. ASSUME NEW v \in members \ {u} PROVE HasItsRequest(v)'
    <3>1. v \in Students /\ v \in DOMAIN identity /\ identity'[v] = identity[v]
      BY <1>2 DEF RequestInv, RequestTyped
    <3>2. PICK q \in ApprovedOf(v) :
            verification[q].no = identity[v].no /\ verification[q].method = identity[v].method
      BY DEF RequestInv, HasItsRequest
    <3>3. q \in DOMAIN verification /\ verification[q].user = v /\ verification[q].status = "approved"
      BY <3>2 DEF ApprovedOf
    <3>4. q # r /\ verification'[q] = verification[q] /\ q \in ApprovedOf(v)'
      BY <1>1, <3>3 DEF ApprovedOf
    <3> QED
      BY <3>1, <3>2, <3>4 DEF HasItsRequest
  <2> QED
    BY <2>1, <2>2
<1>8. \A v, x \in DOMAIN identity' : identity'[v].no = identity'[x].no => v = x
  BY <1>2 DEF RequestInv
<1> QED
  BY <1>4, <1>5, <1>6, <1>7, <1>8 DEF RequestInv

\* VerifyCredentials inserts its request approved, with any id that is free.
LEMMA CredentialsKeep ==
    ASSUME MaterialInv, RequestInv, NEW u \in Students, NEW no \in StudentNos,
           NEW r \in FreeRequestIds, VerifyCredentials(u, no, r)
    PROVE  MaterialInv' /\ RequestInv'
<1> DEFINE new == [user |-> u, no |-> no, method |-> "credentials", material |-> 0, status |-> "approved"]
           with == Having(verification, r, new)
<1>1. /\ verification' = supersedePending(u, r, with)
      /\ replaceIdentity(u, no, "credentials") /\ StartRetention /\ members' = members \cup {u}
      /\ UNCHANGED <<files, uploading, cleaner, cleanupFaults>>
  BY DEF VerifyCredentials
<1>2. r \in RequestIds \ DOMAIN verification
  BY DEF FreeRequestIds
<1>3. /\ new \in RequestRows /\ new.user = u /\ new.no = no /\ new.method = "credentials"
      /\ new.status = "approved"
  BY DEF RequestRows
<1> HIDE DEF new
<1>4. /\ DOMAIN with = DOMAIN verification \cup {r} /\ with[r] = new
      /\ \A q \in DOMAIN verification \ {r} : with[q] = verification[q]
  BY DEF Having
<1> HIDE DEF with
<1>5. /\ DOMAIN verification' = DOMAIN verification \cup {r} /\ verification'[r] = new
      /\ \A q \in DOMAIN verification \ {r} : verification'[q] =
            IF verification[q].user = u /\ verification[q].status = "pending"
            THEN [verification[q] EXCEPT !.status = "superseded"] ELSE verification[q]
  BY <1>1, <1>4 DEF supersedePending
<1>8. RequestInv'
  BY <1>1, <1>2, <1>3, <1>5, ApprovalKeeps
<1>9. ASSUME NEW q \in DOMAIN verification', verification'[q].status = "pending"
      PROVE  q \in DOMAIN verification /\ verification[q] = verification'[q]
  <2>1. q \in DOMAIN verification \ {r}
    BY <1>3, <1>5, <1>9
  <2>2. verification[q] \in RequestRows
    BY <2>1 DEF RequestInv, RequestTyped
  <2> QED
    BY <1>5, <1>9, <2>1, <2>2 DEF RequestRows
<1>10. MaterialInv'
  BY <1>1, <1>5, <1>9, DecisionKeepsMaterial
<1> QED
  BY <1>8, <1>10

\* Approve: the request waited, so it is one with a card.
LEMMA ApproveKeeps ==
    ASSUME MaterialInv, RequestInv, NEW r \in DOMAIN verification, ApproveVerification(r)
    PROVE  MaterialInv' /\ RequestInv'
<1> DEFINE v == verification[r]
           new == [v EXCEPT !.status = "approved"]
           with == [verification EXCEPT ![r] = new]
<1>1. /\ v.status = "pending" /\ replaceIdentity(v.user, v.no, "student_card")
      /\ verification' = supersedePending(v.user, r, with)
      /\ StartRetention /\ members' = members \cup {v.user}
      /\ UNCHANGED <<files, uploading, cleaner, cleanupFaults>>
  BY DEF ApproveVerification
<1>2. r \in RequestIds /\ v \in RequestRows /\ v.user \in Students /\ v.no \in StudentNos
  BY DEF RequestInv, RequestTyped, RequestRows
<1>3. v.method = "student_card"
  BY <1>1 DEF RequestInv, PendingAreCards
<1>4. /\ new \in RequestRows /\ new.user = v.user /\ new.no = v.no /\ new.method = "student_card"
      /\ new.status = "approved"
  BY <1>2, <1>3 DEF RequestRows
<1> HIDE DEF new
<1>5. /\ DOMAIN with = DOMAIN verification /\ with[r] = new
      /\ \A q \in DOMAIN verification \ {r} : with[q] = verification[q]
  OBVIOUS
<1> HIDE DEF with
<1>6. /\ DOMAIN verification' = DOMAIN verification \cup {r} /\ verification'[r] = new
      /\ \A q \in DOMAIN verification \ {r} : verification'[q] =
            IF verification[q].user = v.user /\ verification[q].status = "pending"
            THEN [verification[q] EXCEPT !.status = "superseded"] ELSE verification[q]
  BY <1>1, <1>5 DEF supersedePending
<1>8. RequestInv'
  BY <1>1, <1>2, <1>3, <1>4, <1>6, ApprovalKeeps
<1>9. ASSUME NEW q \in DOMAIN verification', verification'[q].status = "pending"
      PROVE  q \in DOMAIN verification /\ verification[q] = verification'[q]
  <2>1. q \in DOMAIN verification \ {r}
    BY <1>4, <1>6, <1>9
  <2>2. verification[q] \in RequestRows
    BY <2>1 DEF RequestInv, RequestTyped
  <2> QED
    BY <1>6, <1>9, <2>1, <2>2 DEF RequestRows
<1>10. MaterialInv'
  BY <1>1, <1>6, <1>9, DecisionKeepsMaterial
<1> QED
  BY <1>8, <1>10

\* A request that is not approved leaves, or enters, without touching the
\* identities: the approved ones stay what they were.
LEMMA UndecidedKeeps ==
    ASSUME RequestInv, UNCHANGED <<identity, members>>,
           DOMAIN verification \subseteq DOMAIN verification',
           \A r \in DOMAIN verification' : r \in RequestIds /\ verification'[r] \in RequestRows,
           \A r \in DOMAIN verification' : verification'[r].status = "approved" =>
              r \in DOMAIN verification /\ verification[r] = verification'[r],
           \A r \in DOMAIN verification : verification[r].status = "approved" =>
              verification[r] = verification'[r],
           \A r \in DOMAIN verification' : verification'[r].status = "pending" =>
              \/ r \in DOMAIN verification /\ verification[r] = verification'[r]
              \/ r \notin DOMAIN verification /\ verification'[r].method = "student_card"
    PROVE  RequestInv'
<1>1. \A u : ApprovedOf(u)' = ApprovedOf(u)
  BY DEF ApprovedOf
<1>2. RequestTyped'
  BY DEF RequestInv, RequestTyped
<1>3. PendingAreCards'
  BY DEF RequestInv, PendingAreCards
<1>4. \A u \in members' : HasItsRequest(u)'
  <2> SUFFICES ASSUME NEW u \in members PROVE HasItsRequest(u)'
    OBVIOUS
  <2>1. ApprovedOf(u)' = ApprovedOf(u) /\ \A r \in ApprovedOf(u) : verification'[r] = verification[r]
    BY <1>1 DEF ApprovedOf
  <2>2. HasItsRequest(u)
    BY DEF RequestInv
  <2> QED
    BY <2>1, <2>2 DEF HasItsRequest
<1> QED
  BY <1>2, <1>3, <1>4 DEF RequestInv

\* SubmitStudentCard and Reject.
LEMMA SubmitAndRejectKeep ==
    ASSUME MaterialInv, RequestInv,
           \/ \E u \in Students, no \in StudentNos, r \in FreeRequestIds :
                 \E m \in DOMAIN material : SubmitStudentCard(u, no, m, r)
           \/ \E r \in DOMAIN verification : RejectVerification(r)
    PROVE  MaterialInv' /\ RequestInv'
<1>1. ASSUME NEW u \in Students, NEW no \in StudentNos, NEW m \in DOMAIN material,
             NEW r \in FreeRequestIds, SubmitStudentCard(u, no, m, r)
      PROVE  MaterialInv' /\ RequestInv'
  <2> DEFINE new == [user |-> u, no |-> no, method |-> "student_card", material |-> m, status |-> "pending"]
  <2>1. r \in RequestIds \ DOMAIN verification
    BY DEF FreeRequestIds
  <2>2. verification' = Having(verification, r, new) /\ UNCHANGED <<identity, members>>
    BY <1>1 DEF SubmitStudentCard
  <2>3. m \in MaterialIds
    BY DEF MaterialInv, MaterialTyped
  <2>4. new \in RequestRows /\ new.status = "pending" /\ new.method = "student_card"
    BY <2>3 DEF RequestRows
  <2> HIDE DEF new
  <2>5. /\ DOMAIN verification' = DOMAIN verification \cup {r} /\ verification'[r] = new
        /\ \A q \in DOMAIN verification : verification'[q] = verification[q]
    BY <2>1, <2>2 DEF Having
  <2>7. \A q \in DOMAIN verification' : q \in RequestIds /\ verification'[q] \in RequestRows
    BY <2>1, <2>4, <2>5 DEF RequestInv, RequestTyped
  <2>8. RequestInv'
    BY <2>1, <2>2, <2>4, <2>5, <2>7, UndecidedKeeps
  <2> QED
    BY <1>1, <2>8, SubmitKeepsMaterial DEF RequestInv
<1>2. ASSUME NEW r \in DOMAIN verification, RejectVerification(r)
      PROVE  MaterialInv' /\ RequestInv'
  <2> DEFINE new == [verification[r] EXCEPT !.status = "rejected"]
  <2>1. /\ verification[r].status = "pending" /\ verification' = [verification EXCEPT ![r] = new]
        /\ StartRetention /\ UNCHANGED <<files, uploading, cleaner, cleanupFaults, identity, members>>
    BY <1>2 DEF RejectVerification
  <2>2. verification[r] \in RequestRows
    BY DEF RequestInv, RequestTyped
  <2>3. new \in RequestRows /\ new.status = "rejected"
    BY <2>2 DEF RequestRows
  <2> HIDE DEF new
  <2>4. /\ DOMAIN verification' = DOMAIN verification /\ verification'[r] = new
        /\ \A q \in DOMAIN verification \ {r} : verification'[q] = verification[q]
    BY <2>1
  <2>5. \A q \in DOMAIN verification' : q \in RequestIds /\ verification'[q] \in RequestRows
    BY <2>3, <2>4 DEF RequestInv, RequestTyped
  <2>7. RequestInv'
    BY <2>1, <2>3, <2>4, <2>5, UndecidedKeeps
  <2>8. MaterialInv'
    BY <2>1, <2>3, <2>4, DecisionKeepsMaterial
  <2> QED
    BY <2>7, <2>8
<1> QED
  BY <1>1, <1>2

\* The greatest of finitely many numbers is one of them.
LEMMA MaxIsOneOfThem ==
    ASSUME NEW u, RequestInv, ApprovedOf(u) # {}
    PROVE  Max(ApprovedOf(u)) \in ApprovedOf(u)
<1> DEFINE S == ApprovedOf(u)
<1>1. S \in SUBSET Nat /\ IsFiniteSet(S)
  <2>1. S \in SUBSET RequestIds
    BY DEF ApprovedOf, RequestInv, RequestTyped
  <2> QED
    BY <2>1, AcademicNumbers, AcademicAssumption, FS_Subset
<1>nonempty. S # {}
  OBVIOUS
<1> HIDE DEF S
<1>2. \E x \in S : \A y \in S : x >= y
  BY <1>1, <1>nonempty, GreatestNumber
<1> QED
  BY <1>2 DEF Max, S

\* Revoke: u loses identity and base role together, so which request is struck
\* matters to no other member, and no material is concerned: it was not pending.
LEMMA RevokeKeeps ==
    ASSUME MaterialInv, RequestInv, NEW u \in DOMAIN identity, RevokeIdentity(u)
    PROVE  MaterialInv' /\ RequestInv'
<1> DEFINE top == Max(ApprovedOf(u))
           old == [identity[u] EXCEPT !.status = "revoked", !.version = identity[u].version + 1]
           struck == [verification[top] EXCEPT !.status = "revoked"]
<1>1. /\ identity[u].status = "verified" /\ identity' = [identity EXCEPT ![u] = old]
      /\ verification' = [verification EXCEPT ![top] = struck]
      /\ members' = members \ {u}
      /\ UNCHANGED <<material, files, uploading, cleaner, cleanupFaults>>
  BY DEF RevokeIdentity, materialVars
<1>2. u \in members /\ u \in Students /\ identity[u] \in IdentityRows
  BY <1>1 DEF RequestInv, RequestTyped
<1>3. top \in ApprovedOf(u)
  BY MaxIsOneOfThem DEF RevokeIdentity
<1>4. top \in DOMAIN verification /\ verification[top].user = u /\ verification[top].status = "approved"
  BY <1>3 DEF ApprovedOf
<1>5. struck \in RequestRows /\ struck.status = "revoked"
  <2>1. verification[top] \in RequestRows
    BY <1>4 DEF RequestInv, RequestTyped
  <2> QED
    BY <2>1 DEF RequestRows
<1>6. old \in IdentityRows /\ old.status = "revoked" /\ old.no = identity[u].no
  <2>1. identity[u].version + 1 \in Nat
    BY <1>2 DEF IdentityRows
  <2> QED
    BY <1>2, <2>1 DEF IdentityRows
<1> HIDE DEF top, old, struck
<1>7. /\ DOMAIN verification' = DOMAIN verification /\ verification'[top] = struck
      /\ \A q \in DOMAIN verification \ {top} : verification'[q] = verification[q]
      /\ DOMAIN identity' = DOMAIN identity /\ identity'[u] = old
      /\ \A v \in DOMAIN identity \ {u} : identity'[v] = identity[v]
  BY <1>1, <1>4
<1>8. \A v : ApprovedOf(v)' \subseteq ApprovedOf(v) /\ (v # u => ApprovedOf(v)' = ApprovedOf(v))
  BY <1>4, <1>5, <1>7 DEF ApprovedOf
<1>9. RequestTyped'
  BY <1>1, <1>5, <1>6, <1>7 DEF RequestInv, RequestTyped
<1>10. PendingAreCards'
  BY <1>5, <1>7 DEF RequestInv, PendingAreCards
<1>11. members' = {v \in DOMAIN identity' : identity'[v].status = "verified"}
  BY <1>1, <1>6, <1>7 DEF RequestInv
<1>12. \A v \in members' : HasItsRequest(v)'
  <2> SUFFICES ASSUME NEW v \in members \ {u} PROVE HasItsRequest(v)'
    BY <1>1
  <2>1. v \in DOMAIN identity /\ identity'[v] = identity[v] /\ HasItsRequest(v)
    BY <1>7 DEF RequestInv
  <2>2. ApprovedOf(v)' = ApprovedOf(v) /\ \A r \in ApprovedOf(v) : verification'[r] = verification[r]
    BY <1>4, <1>7, <1>8 DEF ApprovedOf
  <2> QED
    BY <2>1, <2>2 DEF HasItsRequest
<1>13. \A v, x \in DOMAIN identity' : identity'[v].no = identity'[x].no => v = x
  <2>1. \A v \in DOMAIN identity : identity'[v].no = identity[v].no
    BY <1>6, <1>7
  <2> QED
    BY <1>7, <2>1 DEF RequestInv
<1>14. RequestInv'
  BY <1>9, <1>10, <1>11, <1>12, <1>13 DEF RequestInv
<1>15. MaterialInv'
  <2>1. MaterialTyped' /\ UploadsInv'
    BY <1>1 DEF MaterialInv, MaterialTyped, UploadsInv
  <2>2. \A m \in DOMAIN material' : RowKept(m, material[m])'
    BY <1>1, <1>7 DEF MaterialInv, RowKept
  <2>3. PendingInv'
    BY <1>1, <1>5, <1>7 DEF MaterialInv, PendingInv
  <2>4. \A w \in Cleaners : CleanerKept(cleaner[w])'
    BY <1>1 DEF MaterialInv, CleanerKept
  <2> QED
    BY <2>1, <2>2, <2>3, <2>4 DEF MaterialInv
<1> QED
  BY <1>14, <1>15

\* The steps that leave requests and identities alone.
LEMMA RequestFrame ==
    ASSUME RequestInv, UNCHANGED <<verification, identity, members>>
    PROVE  RequestInv'
<1>1. \A u : ApprovedOf(u)' = ApprovedOf(u)
  BY DEF ApprovedOf
<1>2. RequestTyped' /\ PendingAreCards'
  BY DEF RequestInv, RequestTyped, PendingAreCards
<1>3. \A u \in members' : HasItsRequest(u)'
  BY <1>1 DEF RequestInv, HasItsRequest
<1> QED
  BY <1>2, <1>3 DEF RequestInv

\* The two invariants together are inductive.
LEMMA AcademicStep ==
    MaterialInv /\ RequestInv /\ [AcademicNext]_academicVars => MaterialInv' /\ RequestInv'
<1> SUFFICES ASSUME MaterialInv, RequestInv, [AcademicNext]_academicVars
             PROVE  MaterialInv' /\ RequestInv'
  OBVIOUS
<1>1. CASE \/ \E u \in Students : SaveMaterial(u)
           \/ \E up \in uploading : CreateMaterial(up) \/ UploadFails(up)
  <2>1. UNCHANGED <<verification, identity, members>>
    BY <1>1 DEF SaveMaterial, CreateMaterial, UploadFails
  <2> QED
    BY <1>1, <2>1, UploadsKeep, RequestFrame
<1>2. CASE \E u \in Students, no \in StudentNos, r \in FreeRequestIds : VerifyCredentials(u, no, r)
  BY <1>2, CredentialsKeep
<1>3. CASE \/ \E u \in Students, no \in StudentNos, r \in FreeRequestIds :
                 \E m \in DOMAIN material : SubmitStudentCard(u, no, m, r)
           \/ \E r \in DOMAIN verification : RejectVerification(r)
  BY <1>3, SubmitAndRejectKeep
<1>4. CASE \E r \in DOMAIN verification : ApproveVerification(r)
  BY <1>4, ApproveKeeps
<1>5. CASE \E u \in DOMAIN identity : RevokeIdentity(u)
  BY <1>5, RevokeKeeps
<1>6. ASSUME NEW w \in Cleaners, Clean(w) PROVE MaterialInv' /\ RequestInv'
  <2>1. CASE ClaimCleanup(w)
    <3>1. UNCHANGED <<verification, identity, members>>
      BY <2>1, Zenon DEF ClaimCleanup
    <3> QED
      BY <2>1, <3>1, ClaimKeepsMaterial, RequestFrame
  <2>2. CASE DeleteFile(w)
    <3>1. UNCHANGED <<verification, identity, members>>
      BY <2>2 DEF DeleteFile
    <3> QED
      BY <2>2, <3>1, DeleteFileKeepsMaterial, RequestFrame
  <2>3. CASE CompleteCleanup(w)
    <3>1. UNCHANGED <<verification, identity, members>>
      BY <2>3 DEF CompleteCleanup
    <3> QED
      BY <2>3, <3>1, CompleteKeepsMaterial, RequestFrame
  <2>4. CASE ReleaseCleanup(w)
    <3>1. UNCHANGED <<verification, identity, members>>
      BY <2>4 DEF ReleaseCleanup
    <3> QED
      BY <2>4, <3>1, ReleaseKeepsMaterial, RequestFrame
  <2> QED
    BY <1>6, <2>1, <2>2, <2>3, <2>4 DEF Clean
<1>7. CASE \/ \E w \in Cleaners : DeleteFails(w) \/ CleanerStops(w)
           \/ \E m \in DOMAIN material : TimePasses(m)
  <2>1. UNCHANGED <<verification, identity, members>>
    BY <1>7 DEF DeleteFails, CleanerStops, TimePasses
  <2> QED
    BY <1>7, <2>1, FaultsAndTimeKeepMaterial, RequestFrame
<1>8. CASE UNCHANGED academicVars
  <2>1. UNCHANGED <<material, files, uploading, cleaner, cleanupFaults, verification, identity, members>>
    BY <1>8 DEF academicVars, materialVars
  <2>2. MaterialTyped' /\ UploadsInv' /\ PendingInv'
    BY <2>1 DEF MaterialInv, MaterialTyped, UploadsInv, PendingInv
  <2>3. \A m \in DOMAIN material' : RowKept(m, material[m])'
    BY <2>1 DEF MaterialInv, RowKept
  <2>4. \A w \in Cleaners : CleanerKept(cleaner[w])'
    BY <2>1 DEF MaterialInv, CleanerKept
  <2> QED
    BY <2>1, <2>2, <2>3, <2>4, RequestFrame DEF MaterialInv
<1> QED
  BY <1>1, <1>2, <1>3, <1>4, <1>5, <1>6, <1>7, <1>8 DEF AcademicNext

LEMMA AcademicInvariant == AcademicSpec => [](MaterialInv /\ RequestInv)
<1>1. AcademicInit => MaterialInv /\ RequestInv
  <2> SUFFICES ASSUME AcademicInit PROVE MaterialInv /\ RequestInv
    OBVIOUS
  <2>1. MaterialInv /\ RequestTyped
    BY MaterialInitInv
  <2>2. PendingAreCards
    BY DEF AcademicInit, PendingAreCards
  <2> QED
    BY <2>1, <2>2 DEF AcademicInit, RequestInv
<1> QED
  BY <1>1, AcademicStep, PTL DEF AcademicSpec

\* Every variable of the module keeps its type, for any number of students,
\* uploads, requests and cleanup workers and any batch.
THEOREM AcademicTypeCorrect == AcademicSpec => []AcademicTypeOK
<1>1. MaterialInv /\ RequestInv => AcademicTypeOK
  BY DEF MaterialInv, RequestInv, MaterialTyped, RequestTyped, AcademicTypeOK
<1> QED
  BY <1>1, AcademicInvariant, PTL

\* PendingMaterialKept: while a request waits for its review (Approve, Reject), its
\* material stays bound with its file, however the uploads, several cleanup
\* workers, their crashes, failed deletions and stale claims interleave; and
\* CompleteCleanup, which names no claim, marks no row deleted whose file is there.
THEOREM PendingRequestsKeepTheirMaterial == AcademicSpec => []PendingMaterialKept
<1>1. ASSUME MaterialInv, RequestInv PROVE PendingMaterialKept
  <2>1. ASSUME NEW r \in DOMAIN verification, verification[r].status = "pending"
        PROVE  LET m == verification[r].material IN
               material[m].status = "bound" /\ material[m].request = r /\ m \in files
    <3> DEFINE m == verification[r].material
    <3>1. m \in DOMAIN material /\ material[m].request = r /\ material[m].retention = "none"
      BY <1>1, <2>1 DEF MaterialInv, PendingInv
    <3>2. r # 0
      BY <1>1, AcademicNumbers DEF RequestInv, RequestTyped
    <3>3. ~Doomed(material[m]) /\ RowKept(m, material[m]) /\ material[m] \in MaterialRows
      BY <1>1, <3>1, <3>2 DEF MaterialInv, MaterialTyped, Doomed
    <3>4. material[m].status \in {"available", "bound", "deleting", "deleted"}
      BY <3>3 DEF MaterialRows
    <3> QED
      BY <3>1, <3>2, <3>3, <3>4 DEF RowKept
  <2>2. \A m \in DOMAIN material : material[m].status = "deleted" => m \notin files
    BY <1>1 DEF MaterialInv, RowKept
  <2> QED
    BY <2>1, <2>2 DEF PendingMaterialKept
<1> QED
  BY <1>1, AcademicInvariant, PTL

\* MembershipHasItsRequest: base role, identity and approved request agree, though
\* VerifyCredentials, Approve and Revoke each write them in three tables and commit
\* in any order of the requests' ids; and no number has two users.
THEOREM MembersHaveTheirRequest == AcademicSpec => []MembershipHasItsRequest
<1>1. RequestInv => MembershipHasItsRequest
  BY DEF RequestInv, HasItsRequest, MembershipHasItsRequest
<1> QED
  BY <1>1, AcademicInvariant, PTL
=============================================================================
