--------------------------- MODULE AccountsProofs ---------------------------
(***************************************************************************)
(* Proofs about what the server keeps of an account: Accounts, PutMessages *)
(* and Keys, for any number of handlers, accounts, tokens and faults       *)
(* between two statements.  What was answered is true (AccountsInv), a     *)
(* link token makes one device (TokenOnce), a message goes to the devices  *)
(* it was encrypted for and to all of them (PutExact), and a one-time key  *)
(* is given out once (HandedOnce).                                         *)
(***************************************************************************)
EXTENDS PutMessages, Keys, FiniteSetTheorems, TLAPS

Registering(h) == pc[h] \in {"regDevice", "regBundle"}
Linking(h) == pc[h] \in {"linkToken", "linkDevice"}

(* The bounds on what was created, and every account named anywhere is one *)
(* that was created: the account of a new registration is new.             *)
Numbered ==
    /\ Len(phone) <= MaxAccounts /\ Len(tokens) <= MaxTokens
    /\ \A h \in Handlers : pc[h] # "idle" => acc[h] \in 1..Len(phone)
    /\ \A d \in rows \cup answered : d.acc \in 1..Len(phone)
    /\ known \subseteq 1..Len(phone)
    /\ \A t \in DOMAIN tokens : tokens[t] \in known

(* An account that is being registered is in the table, is its handler's   *)
(* alone, and has no device before the second statement and its primary    *)
(* device after it.                                                        *)
RegistrationAlone ==
    \A h \in Handlers : Registering(h) =>
        /\ acc[h] \in live \ known
        /\ \A g \in Handlers : Registering(g) /\ acc[g] = acc[h] => g = h
        /\ pc[h] = "regDevice" => \A d \in rows : d.acc # acc[h]
        /\ pc[h] = "regBundle" => Primary(acc[h]) \in devices

(* The other handlers work on accounts whose registration was answered. *)
OthersOnKnown ==
    \A h \in Handlers :
        /\ pc[h] # "idle" /\ ~Registering(h) => acc[h] \in known
        /\ pc[h] = "delDevice" => arg[h] # 1
        /\ Linking(h) => arg[h] \in DOMAIN tokens

(* The ids that a handler has read are those of devices there were, and    *)
(* these are finitely many, so that there is a greatest.                   *)
IdsOfRows ==
    /\ \A h \in Handlers : ids[h] \subseteq Ids(rows)
    /\ IsFiniteSet(Ids(rows))

(* A token in the table belongs to one handler that is about to add a      *)
(* device, or to a device, or to neither when its handler stopped.         *)
TokensTaken ==
    /\ \A d \in rows : d.by # 0 => d.by \in used
    /\ \A h \in Handlers : pc[h] = "linkDevice" =>
        /\ arg[h] \in used
        /\ \A d \in rows : d.by # arg[h]
        /\ \A g \in Handlers : pc[g] = "linkDevice" /\ arg[g] = arg[h] => g = h

(* A device id belongs to one device of an account at a time. *)
UniqueIn(ds) == \A d, e \in ds : d.acc = e.acc /\ d.id = e.id => d = e

AccountsInd ==
    /\ AccountsInv /\ TokenOnce
    /\ Numbered /\ RegistrationAlone /\ OthersOnKnown /\ IdsOfRows /\ TokensTaken
    /\ UniqueIn(devices)

(* A finite set of numbers has a greatest element, and Max chooses it. *)
LEMMA MaxOf ==
    ASSUME NEW S \in SUBSET Int, S # {}, IsFiniteSet(S)
    PROVE  Max(S) \in S /\ \A x \in S : x <= Max(S)
<1> DEFINE From(k) == {x \in S : k <= x}
           tops == {From(k) : k \in S}
           R == StrictSubsetOrdering(S)
<1>1. IsWellFoundedOn(R, FiniteSubsetsOf(S))
    BY FS_StrictSubsetOrderingWellFounded
<1>2. tops \subseteq FiniteSubsetsOf(S)
    BY FS_FiniteSubsetsOfFinite
<1>3. PICK T \in tops : \A Q \in tops : <<Q, T>> \notin R
    <2> HIDE DEF tops, R
    <2>1. tops # {}
        BY DEF tops
    <2> QED BY <1>1, <1>2, <2>1, WFMin
<1>4. PICK k \in S : T = From(k)
    OBVIOUS
<1>5. ASSUME NEW x \in S PROVE x <= k
    <2> SUFFICES ASSUME k < x PROVE FALSE
        OBVIOUS
    <2>1. From(x) \subseteq From(k) /\ From(x) # From(k)
        <3>1. ASSUME NEW y \in S, x <= y PROVE k <= y
            <4>1. k \in Int /\ x \in Int /\ y \in Int
                OBVIOUS
            <4> QED BY <3>1, <4>1
        <3>2. k \in From(k) /\ k \notin From(x)
            OBVIOUS
        <3> QED BY <3>1, <3>2
    <2>2. <<From(x), From(k)>> \in R
        BY <2>1 DEF StrictSubsetOrdering
    <2> QED BY <1>3, <1>4, <2>2
<1>6. \E x \in S : \A y \in S : x >= y
    BY <1>5
<1> QED BY <1>6 DEF Max

(* The types of what a handler keeps, and of the tables and histories. *)
HandlersOK ==
    /\ pc \in [Handlers -> {"idle", "regDevice", "regBundle", "linkToken", "linkDevice",
                            "delAccount", "delDevice"}]
    /\ acc \in [Handlers -> Accs \cup {0}] /\ arg \in [Handlers -> Nat]
    /\ ids \in [Handlers -> SUBSET Nat]

TablesOK ==
    /\ phone \in Seq(Phones) /\ live \subseteq 1..Len(phone)
    /\ devices \subseteq Device /\ bundles \subseteq devices /\ devices \subseteq rows
    /\ \A d \in devices : d.acc \in live
    /\ tokens \in Seq(Accs) /\ used \subseteq DOMAIN tokens
    /\ rows \subseteq Device /\ known \subseteq Accs /\ answered \subseteq Device

LEMMA TypeParts == TypeOK => HandlersOK /\ TablesOK
BY DEF TypeOK, HandlersOK, TablesOK

LEMMA BeginOK ==
    ASSUME HandlersOK, NEW h \in Handlers, NEW a \in Accs \cup {0}, NEW x \in Nat,
           NEW i \in SUBSET Nat,
           NEW p \in {"idle", "regDevice", "regBundle", "linkToken", "linkDevice",
                      "delAccount", "delDevice"},
           Begin(h, p, a, x, i)
    PROVE  HandlersOK'
BY DEF HandlersOK, Begin

LEMMA FinishOK ==
    ASSUME HandlersOK, NEW h \in Handlers, Finish(h)
    PROVE  HandlersOK'
BY BeginOK DEF Finish

LEMMA GotoOK ==
    ASSUME HandlersOK, NEW h \in Handlers, NEW p \in {"regBundle", "linkDevice"}, Goto(h, p)
    PROVE  HandlersOK'
BY DEF HandlersOK, Goto

LEMMA PrimaryIs ==
    ASSUME NEW a \in Accs
    PROVE  Primary(a) \in Device /\ Primary(a).acc = a /\ Primary(a).id = 1 /\ Primary(a).by = 0
BY AccountsAssumption DEF Primary, Device

LEMMA StepRegisterAccount ==
    ASSUME AccountsInd, NEW h \in Handlers, NEW p \in Phones, RegisterAccount(h, p)
    PROVE  AccountsInd'
<1> USE AccountsAssumption DEF AccountsInd, AccountsInv, tableVars, handlerVars, history
<1> USE DEF RegisterAccount, Begin
<1>a. Len(phone) \in Nat /\ phone' = Append(phone, p) /\ Len(phone') = Len(phone) + 1
    BY DEF TypeOK
<1>1. TypeOK'
    <2>1. Len(phone) + 1 \in Accs
        BY <1>a DEF Accs
    <2>2. HandlersOK'
        BY <2>1, TypeParts, BeginOK
    <2>3. TablesOK'
        BY <1>a, TypeParts DEF TablesOK
    <2> QED BY <2>2, <2>3 DEF TypeOK, HandlersOK, TablesOK
<1>2. LinkFindsPrimary'
    BY DEF TypeOK, Numbered, LinkFindsPrimary
<1>3. LinkedHasRow'
    BY DEF TypeOK, Numbered, LinkedHasRow
<1>4. RegisteredComplete'
    BY <1>a DEF TypeOK, Numbered, RegisteredComplete
<1>5. TokenOnce'
    BY DEF TypeOK, Numbered, TokenOnce
<1>6. Numbered'
    BY DEF TypeOK, Numbered
<1>7. RegistrationAlone'
    BY DEF TypeOK, Numbered, RegistrationAlone, Registering, Primary
<1>8. OthersOnKnown'
    BY DEF TypeOK, Numbered, OthersOnKnown, Registering, Linking
<1>9. IdsOfRows'
    BY DEF TypeOK, Numbered, IdsOfRows, Ids
<1>10. TokensTaken'
    BY DEF TypeOK, Numbered, TokensTaken
<1>11. (UniqueIn(devices))'
    BY DEF TypeOK, Numbered, UniqueIn
<1> QED BY <1>1, <1>2, <1>3, <1>4, <1>5, <1>6, <1>7, <1>8, <1>9, <1>10, <1>11

LEMMA StepRegisterDevice ==
    ASSUME AccountsInd, NEW h \in Handlers, RegisterDevice(h)
    PROVE  AccountsInd'
<1> USE AccountsAssumption DEF AccountsInd, AccountsInv, tableVars, handlerVars, history
<1> USE DEF RegisterDevice, Goto
<1>a. acc[h] \in Accs /\ acc[h] \in live
    BY DEF TypeOK, Numbered, RegistrationAlone, Registering, Accs
<1> DEFINE new == Primary(acc[h])
<1>b. new \in Device /\ new.acc = acc[h] /\ new.id = 1 /\ new.by = 0
    BY <1>a, PrimaryIs
<1> HIDE DEF new
<1>c. devices' = devices \cup {new} /\ rows' = rows \cup {new}
    BY DEF new
<1>d. \A d \in rows : d.acc # acc[h]
    BY DEF RegistrationAlone, Registering
<1>1. TypeOK'
    <2>1. HandlersOK'
        BY TypeParts, GotoOK
    <2>2. TablesOK'
        BY <1>a, <1>b, <1>c, TypeParts DEF TablesOK
    <2> QED BY <2>1, <2>2 DEF TypeOK, HandlersOK, TablesOK
<1>2. LinkFindsPrimary'
    BY DEF TypeOK, Numbered, LinkFindsPrimary
<1>3. LinkedHasRow'
    BY <1>c DEF LinkedHasRow
<1>4. RegisteredComplete'
    BY DEF TypeOK, Numbered, RegisteredComplete, Primary
<1>5. TokenOnce'
    BY <1>b, <1>c DEF TokenOnce
<1>6. Numbered'
    BY <1>b, <1>c DEF TypeOK, Numbered
<1>7. RegistrationAlone'
    BY <1>b, <1>c DEF TypeOK, RegistrationAlone, Registering, new
<1>8. OthersOnKnown'
    BY DEF TypeOK, Numbered, OthersOnKnown, Registering, Linking
<1>9. IdsOfRows'
    <2>1. Ids(rows)' = Ids(rows) \cup {new.id}
        BY <1>c DEF Ids
    <2>2. IsFiniteSet(Ids(rows)) /\ IsFiniteSet(Ids(rows) \cup {new.id})
        BY FS_AddElement DEF IdsOfRows
    <2> QED BY <2>1, <2>2 DEF IdsOfRows
<1>10. TokensTaken'
    BY <1>b, <1>c DEF TypeOK, TokensTaken
<1>11. (UniqueIn(devices))'
    BY <1>b, <1>c, <1>d DEF TypeOK, UniqueIn
<1> QED BY <1>1, <1>2, <1>3, <1>4, <1>5, <1>6, <1>7, <1>8, <1>9, <1>10, <1>11

LEMMA StepRegisterBundle ==
    ASSUME AccountsInd, NEW h \in Handlers, RegisterBundle(h)
    PROVE  AccountsInd'
<1> USE AccountsAssumption DEF AccountsInd, AccountsInv, tableVars, handlerVars, history
<1> USE DEF RegisterBundle, Finish, Begin
<1>a. acc[h] \in Accs /\ Primary(acc[h]) \in devices
    BY DEF TypeOK, Numbered, RegistrationAlone, Registering, Accs
<1>1. TypeOK'
    <2>1. HandlersOK'
        BY TypeParts, FinishOK
    <2>2. TablesOK'
        BY <1>a, TypeParts DEF TablesOK
    <2> QED BY <2>1, <2>2 DEF TypeOK, HandlersOK, TablesOK
<1>2. LinkFindsPrimary'
    BY DEF TypeOK, Numbered, LinkFindsPrimary
<1>3. LinkedHasRow'
    BY DEF TypeOK, Numbered, LinkedHasRow
<1>4. RegisteredComplete'
    BY DEF TypeOK, Numbered, RegisteredComplete, Primary
<1>5. TokenOnce'
    BY DEF TypeOK, Numbered, TokenOnce
<1>6. Numbered'
    BY DEF TypeOK, Numbered
<1>7. RegistrationAlone'
    BY DEF TypeOK, Numbered, RegistrationAlone, Registering, Primary
<1>8. OthersOnKnown'
    BY DEF TypeOK, Numbered, OthersOnKnown, Registering, Linking
<1>9. IdsOfRows'
    BY DEF TypeOK, Numbered, IdsOfRows, Ids
<1>10. TokensTaken'
    BY DEF TypeOK, Numbered, TokensTaken
<1>11. (UniqueIn(devices))'
    BY DEF TypeOK, Numbered, UniqueIn
<1> QED BY <1>1, <1>2, <1>3, <1>4, <1>5, <1>6, <1>7, <1>8, <1>9, <1>10, <1>11

LEMMA StepLinkRead ==
    ASSUME AccountsInd, NEW h \in Handlers, NEW t \in DOMAIN tokens, LinkRead(h, t)
    PROVE  AccountsInd'
<1> USE AccountsAssumption DEF AccountsInd, AccountsInv, tableVars, handlerVars, history
<1> USE DEF LinkRead, Begin
<1>a. tokens[t] \in known \cap live /\ tokens[t] \in Accs /\ t \in Nat
    BY DEF TypeOK, Numbered
<1> DEFINE read == {d.id : d \in GetAllDevices(tokens[t])}
<1>b. 1 \in read
    BY <1>a, PrimaryIs DEF TypeOK, RegisteredComplete, GetAllDevices
<1>c. read \subseteq Ids(rows) /\ read \in SUBSET Nat
    BY DEF TypeOK, GetAllDevices, Ids, Device
<1>1. TypeOK'
    <2>1. HandlersOK'
        BY <1>a, <1>c, TypeParts, BeginOK
    <2>2. TablesOK'
        BY TypeParts DEF TablesOK
    <2> QED BY <2>1, <2>2 DEF TypeOK, HandlersOK, TablesOK
<1> HIDE DEF read
<1>d. ids' = [ids EXCEPT ![h] = read]
    BY DEF read
<1>2. LinkFindsPrimary'
    BY <1>b, <1>d DEF TypeOK, LinkFindsPrimary
<1>3. LinkedHasRow'
    BY DEF TypeOK, Numbered, LinkedHasRow
<1>4. RegisteredComplete'
    BY DEF TypeOK, Numbered, RegisteredComplete, Primary
<1>5. TokenOnce'
    BY DEF TypeOK, Numbered, TokenOnce
<1>6. Numbered'
    BY DEF TypeOK, Numbered
<1>7. RegistrationAlone'
    BY DEF TypeOK, Numbered, RegistrationAlone, Registering, Primary
<1>8. OthersOnKnown'
    BY <1>a DEF TypeOK, OthersOnKnown, Registering, Linking
<1>9. IdsOfRows'
    BY <1>c, <1>d DEF TypeOK, IdsOfRows
<1>10. TokensTaken'
    BY DEF TypeOK, Numbered, TokensTaken
<1>11. (UniqueIn(devices))'
    BY DEF TypeOK, Numbered, UniqueIn
<1> QED BY <1>1, <1>2, <1>3, <1>4, <1>5, <1>6, <1>7, <1>8, <1>9, <1>10, <1>11

LEMMA StepLinkToken ==
    ASSUME AccountsInd, NEW h \in Handlers, LinkToken(h)
    PROVE  AccountsInd'
<1> USE AccountsAssumption DEF AccountsInd, AccountsInv, tableVars, handlerVars, history
<1> USE DEF LinkToken
<1>a. arg[h] \in DOMAIN tokens
    BY DEF OthersOnKnown, Linking
<1>1. TypeOK'
    <2>1. HandlersOK'
        BY TypeParts, FinishOK, GotoOK
    <2>2. TablesOK'
        BY <1>a, TypeParts DEF TablesOK
    <2> QED BY <2>1, <2>2 DEF TypeOK, HandlersOK, TablesOK
<1>b. \/ Finish(h) /\ UNCHANGED used
      \/ arg[h] \notin used /\ used' = used \cup {arg[h]} /\ Goto(h, "linkDevice")
    OBVIOUS
<1> USE <1>b DEF Finish, Begin, Goto
<1>2. LinkFindsPrimary'
    BY DEF TypeOK, Numbered, LinkFindsPrimary
<1>3. LinkedHasRow'
    BY DEF TypeOK, Numbered, LinkedHasRow
<1>4. RegisteredComplete'
    BY DEF TypeOK, Numbered, RegisteredComplete, Primary
<1>5. TokenOnce'
    BY DEF TypeOK, Numbered, TokenOnce
<1>6. Numbered'
    BY DEF TypeOK, Numbered
<1>7. RegistrationAlone'
    BY SMTT(30) DEF TypeOK, Numbered, RegistrationAlone, Registering, Primary
<1>8. OthersOnKnown'
    BY DEF TypeOK, Numbered, OthersOnKnown, Registering, Linking
<1>9. IdsOfRows'
    BY DEF TypeOK, Numbered, IdsOfRows, Ids
<1>10. TokensTaken'
    <2>1. CASE Finish(h) /\ UNCHANGED used
        BY <2>1 DEF TypeOK, TokensTaken
    <2>2. CASE arg[h] \notin used /\ used' = used \cup {arg[h]} /\ Goto(h, "linkDevice")
        <3>1. \A d \in rows : d.by # arg[h]
            BY <1>a, <2>2 DEF TypeOK, TokensTaken
        <3> QED BY <2>2, <3>1 DEF TypeOK, TokensTaken
    <2> QED BY <1>b, <2>1, <2>2
<1>11. (UniqueIn(devices))'
    BY DEF TypeOK, Numbered, UniqueIn
<1> QED BY <1>1, <1>2, <1>3, <1>4, <1>5, <1>6, <1>7, <1>8, <1>9, <1>10, <1>11

(* The device a handler is about to add: its id is a number because the    *)
(* handler has read the primary device.                                    *)
LEMMA LinkedIs ==
    ASSUME AccountsInd, NEW h \in Handlers, pc[h] = "linkDevice"
    PROVE  /\ LinkedDevice(h) \in Device
           /\ LinkedDevice(h).acc = acc[h] /\ LinkedDevice(h).by = arg[h]
           /\ arg[h] # 0 /\ acc[h] \in known
<1> USE AccountsAssumption DEF AccountsInd, AccountsInv
<1>1. acc[h] \in known /\ acc[h] \in Accs /\ arg[h] \in 1..MaxTokens
    <2>1. acc[h] \in known /\ arg[h] \in DOMAIN tokens
        BY DEF OthersOnKnown, Registering, Linking
    <2>2. DOMAIN tokens = 1..Len(tokens) /\ Len(tokens) \in Nat
        BY DEF TypeOK
    <2> QED BY <2>1, <2>2 DEF TypeOK, Numbered
<1>2. ids[h] \subseteq Ids(rows) /\ ids[h] \subseteq Nat /\ ids[h] # {}
    BY DEF TypeOK, LinkFindsPrimary, IdsOfRows
<1>3. IsFiniteSet(Ids(rows))
    BY DEF IdsOfRows
<1>4. Max(ids[h]) \in Nat
    <2>1. IsFiniteSet(ids[h])
        BY <1>2, <1>3, FS_Subset
    <2>2. ids[h] \in SUBSET Int
        BY <1>2
    <2>3. Max(ids[h]) \in ids[h]
        BY <1>2, <2>1, <2>2, MaxOf
    <2> QED BY <1>2, <2>3
<1>5. NextId(h) \in Nat
    BY <1>4 DEF NextId
<1> QED BY <1>1, <1>5 DEF LinkedDevice, Device

LEMMA StepLinkDevice ==
    ASSUME AccountsInd, NEW h \in Handlers, LinkDevice(h)
    PROVE  AccountsInd'
<1> USE AccountsAssumption DEF AccountsInd, AccountsInv, tableVars, handlerVars, history
<1> USE DEF LinkDevice, Finish, Begin
<1> DEFINE d == LinkedDevice(h)
<1>a. d \in Device /\ d.acc = acc[h] /\ d.by = arg[h] /\ arg[h] # 0 /\ acc[h] \in known
    BY LinkedIs
<1>b. arg[h] \in used /\ \A e \in rows : e.by # arg[h]
    BY DEF TokensTaken
<1> HIDE DEF d
<1>c. \/ UNCHANGED <<devices, rows, answered>>
      \/ /\ acc[h] \in live /\ devices' = devices \cup {d} /\ rows' = rows \cup {d}
         /\ answered' = answered \cup {d}
         /\ \A e \in devices : ~(e.acc = d.acc /\ e.id = d.id)
      \/ /\ acc[h] \notin live /\ UNCHANGED <<devices, rows>> /\ answered' = answered \cup {d}
    BY DEF d
<1>1. TypeOK'
    <2>1. HandlersOK'
        BY TypeParts, FinishOK
    <2>2. TablesOK'
        BY <1>a, <1>c, TypeParts DEF TablesOK
    <2> QED BY <2>1, <2>2 DEF TypeOK, HandlersOK, TablesOK
<1>e. UNCHANGED <<phone, live, bundles, tokens, used, known>>
    OBVIOUS
<1>f. /\ pc' = [pc EXCEPT ![h] = "idle"] /\ acc' = [acc EXCEPT ![h] = 0]
      /\ arg' = [arg EXCEPT ![h] = 0] /\ ids' = [ids EXCEPT ![h] = {}]
    OBVIOUS
<1>2. LinkFindsPrimary'
    BY DEF TypeOK, Numbered, LinkFindsPrimary
<1>3. LinkedHasRow'
    BY <1>a, <1>c, <1>e DEF LinkedHasRow
<1>4. RegisteredComplete'
    BY DEF TypeOK, Numbered, RegisteredComplete, Primary
<1>5. TokenOnce'
    BY <1>a, <1>b, <1>c DEF TokenOnce
<1>6. Numbered'
    BY <1>a, <1>c, <1>e, <1>f DEF TypeOK, Numbered
<1>7. RegistrationAlone'
    <2>1. ASSUME NEW g \in Handlers, Registering(g), acc[g] = acc[h] PROVE FALSE
        BY <1>a, <2>1 DEF RegistrationAlone
    <2>2. ASSUME NEW g \in Handlers, Registering(g)'
          PROVE  g # h /\ Registering(g) /\ pc'[g] = pc[g] /\ acc'[g] = acc[g]
        BY <1>f, <2>2 DEF TypeOK, Registering
    <2> QED BY <1>a, <1>c, <1>e, <2>1, <2>2 DEF TypeOK, RegistrationAlone
<1>8. OthersOnKnown'
    BY DEF TypeOK, Numbered, OthersOnKnown, Registering, Linking
<1>9. IdsOfRows'
    <2>1. Ids(rows)' = Ids(rows) \/ Ids(rows)' = Ids(rows) \cup {d.id}
        BY <1>c DEF Ids
    <2>2. IsFiniteSet(Ids(rows)) /\ IsFiniteSet(Ids(rows) \cup {d.id})
        BY FS_AddElement DEF IdsOfRows
    <2> QED BY <1>f, <2>1, <2>2 DEF TypeOK, IdsOfRows
<1>10. TokensTaken'
    BY <1>a, <1>b, <1>c, <1>e, <1>f DEF TypeOK, TokensTaken
<1>11. (UniqueIn(devices))'
    BY <1>c DEF UniqueIn
<1> QED BY <1>1, <1>2, <1>3, <1>4, <1>5, <1>6, <1>7, <1>8, <1>9, <1>10, <1>11

LEMMA StepDeleteAccountRequest ==
    ASSUME AccountsInd, NEW h \in Handlers, NEW d \in rows, DeleteAccountRequest(h, d)
    PROVE  AccountsInd'
<1> USE AccountsAssumption DEF AccountsInd, AccountsInv, tableVars, handlerVars, history
<1> USE DEF DeleteAccountRequest, AuthenticateDevice, Begin
<1>1. TypeOK'
    BY DEF TypeOK, Accs, Device
<1>2. LinkFindsPrimary'
    BY DEF TypeOK, Numbered, LinkFindsPrimary
<1>3. LinkedHasRow'
    BY DEF TypeOK, Numbered, LinkedHasRow
<1>4. RegisteredComplete'
    BY DEF TypeOK, Numbered, RegisteredComplete, Primary
<1>5. TokenOnce'
    BY DEF TypeOK, Numbered, TokenOnce
<1>6. Numbered'
    BY DEF TypeOK, Numbered
<1>7. RegistrationAlone'
    BY DEF TypeOK, Numbered, RegistrationAlone, Registering, Primary
<1>8. OthersOnKnown'
    BY DEF TypeOK, Numbered, OthersOnKnown, Registering, Linking
<1>9. IdsOfRows'
    BY DEF TypeOK, Numbered, IdsOfRows, Ids
<1>10. TokensTaken'
    BY DEF TypeOK, Numbered, TokensTaken
<1>11. (UniqueIn(devices))'
    BY DEF TypeOK, Numbered, UniqueIn
<1> QED BY <1>1, <1>2, <1>3, <1>4, <1>5, <1>6, <1>7, <1>8, <1>9, <1>10, <1>11

LEMMA StepDeleteAccount ==
    ASSUME AccountsInd, NEW h \in Handlers, DeleteAccount(h)
    PROVE  AccountsInd'
<1> USE AccountsAssumption DEF AccountsInd, AccountsInv, tableVars, handlerVars, history
<1> USE DEF DeleteAccount, Finish, Begin
<1>a. acc[h] \in known
    BY DEF OthersOnKnown, Registering
<1>1. TypeOK'
    BY DEF TypeOK
<1>2. LinkFindsPrimary'
    BY DEF TypeOK, Numbered, LinkFindsPrimary
<1>3. LinkedHasRow'
    BY DEF TypeOK, Numbered, LinkedHasRow
<1>4. RegisteredComplete'
    BY PrimaryIs DEF TypeOK, RegisteredComplete
<1>5. TokenOnce'
    BY DEF TypeOK, Numbered, TokenOnce
<1>6. Numbered'
    BY DEF TypeOK, Numbered
<1>7. RegistrationAlone'
    <2>1. ASSUME NEW g \in Handlers, Registering(g)'
          PROVE  /\ g # h /\ Registering(g) /\ pc'[g] = pc[g] /\ acc'[g] = acc[g]
                 /\ acc[g] # acc[h] /\ acc[g] \in Accs
        BY <1>a, <2>1 DEF TypeOK, Numbered, Registering, RegistrationAlone, Accs
    <2> QED BY <2>1, PrimaryIs DEF TypeOK, RegistrationAlone
<1>8. OthersOnKnown'
    BY DEF TypeOK, Numbered, OthersOnKnown, Registering, Linking
<1>9. IdsOfRows'
    BY DEF TypeOK, Numbered, IdsOfRows, Ids
<1>10. TokensTaken'
    BY DEF TypeOK, Numbered, TokensTaken
<1>11. (UniqueIn(devices))'
    BY DEF TypeOK, Numbered, UniqueIn
<1> QED BY <1>1, <1>2, <1>3, <1>4, <1>5, <1>6, <1>7, <1>8, <1>9, <1>10, <1>11

LEMMA StepDeleteDeviceRequest ==
    ASSUME AccountsInd, NEW h \in Handlers, NEW d \in rows, NEW i \in {e.id : e \in devices},
           DeleteDeviceRequest(h, d, i)
    PROVE  AccountsInd'
<1> USE AccountsAssumption DEF AccountsInd, AccountsInv, tableVars, handlerVars, history
<1> USE DEF DeleteDeviceRequest, AuthenticateDevice, Begin
<1>1. TypeOK'
    BY DEF TypeOK, Accs, Device
<1>2. LinkFindsPrimary'
    BY DEF TypeOK, Numbered, LinkFindsPrimary
<1>3. LinkedHasRow'
    BY DEF TypeOK, Numbered, LinkedHasRow
<1>4. RegisteredComplete'
    BY DEF TypeOK, Numbered, RegisteredComplete, Primary
<1>5. TokenOnce'
    BY DEF TypeOK, Numbered, TokenOnce
<1>6. Numbered'
    BY DEF TypeOK, Numbered
<1>7. RegistrationAlone'
    BY DEF TypeOK, Numbered, RegistrationAlone, Registering, Primary
<1>8. OthersOnKnown'
    BY DEF TypeOK, Numbered, OthersOnKnown, Registering, Linking
<1>9. IdsOfRows'
    BY DEF TypeOK, Numbered, IdsOfRows, Ids
<1>10. TokensTaken'
    BY DEF TypeOK, Numbered, TokensTaken
<1>11. (UniqueIn(devices))'
    BY DEF TypeOK, Numbered, UniqueIn
<1> QED BY <1>1, <1>2, <1>3, <1>4, <1>5, <1>6, <1>7, <1>8, <1>9, <1>10, <1>11

LEMMA StepDeleteDevice ==
    ASSUME AccountsInd, NEW h \in Handlers, DeleteDevice(h)
    PROVE  AccountsInd'
<1> USE AccountsAssumption DEF AccountsInd, AccountsInv, tableVars, handlerVars, history
<1> USE DEF DeleteDevice, Finish, Begin
<1>a. acc[h] \in known /\ arg[h] # 1
    BY DEF OthersOnKnown, Registering
<1>b. \A a \in Accs : /\ Primary(a) \in devices => Primary(a) \in devices'
                      /\ Primary(a) \in bundles => Primary(a) \in bundles'
    BY <1>a, PrimaryIs
<1>1. TypeOK'
    BY DEF TypeOK
<1>2. LinkFindsPrimary'
    BY DEF TypeOK, Numbered, LinkFindsPrimary
<1>3. LinkedHasRow'
    BY DEF TypeOK, Numbered, LinkedHasRow
<1>4. RegisteredComplete'
    BY <1>b DEF TypeOK, RegisteredComplete
<1>5. TokenOnce'
    BY DEF TypeOK, Numbered, TokenOnce
<1>6. Numbered'
    BY DEF TypeOK, Numbered
<1>7. RegistrationAlone'
    <2>1. ASSUME NEW g \in Handlers, Registering(g)'
          PROVE  /\ g # h /\ Registering(g) /\ pc'[g] = pc[g] /\ acc'[g] = acc[g]
                 /\ acc[g] \in Accs
        BY <2>1 DEF TypeOK, Numbered, Registering, Accs
    <2> QED BY <1>b, <2>1 DEF TypeOK, RegistrationAlone
<1>8. OthersOnKnown'
    BY DEF TypeOK, Numbered, OthersOnKnown, Registering, Linking
<1>9. IdsOfRows'
    BY DEF TypeOK, Numbered, IdsOfRows, Ids
<1>10. TokensTaken'
    BY DEF TypeOK, Numbered, TokensTaken
<1>11. (UniqueIn(devices))'
    BY DEF TypeOK, Numbered, UniqueIn
<1> QED BY <1>1, <1>2, <1>3, <1>4, <1>5, <1>6, <1>7, <1>8, <1>9, <1>10, <1>11

LEMMA StepAbort ==
    ASSUME AccountsInd, NEW h \in Handlers, Abort(h)
    PROVE  AccountsInd'
<1> USE AccountsAssumption DEF AccountsInd, AccountsInv, tableVars, handlerVars, history
<1> USE DEF Abort, Finish, Begin
<1>1. TypeOK'
    BY DEF TypeOK
<1>2. LinkFindsPrimary'
    BY DEF TypeOK, Numbered, LinkFindsPrimary
<1>3. LinkedHasRow'
    BY DEF TypeOK, Numbered, LinkedHasRow
<1>4. RegisteredComplete'
    BY DEF TypeOK, Numbered, RegisteredComplete, Primary
<1>5. TokenOnce'
    BY DEF TypeOK, Numbered, TokenOnce
<1>6. Numbered'
    BY DEF TypeOK, Numbered
<1>7. RegistrationAlone'
    BY DEF TypeOK, Numbered, RegistrationAlone, Registering, Primary
<1>8. OthersOnKnown'
    BY DEF TypeOK, Numbered, OthersOnKnown, Registering, Linking
<1>9. IdsOfRows'
    BY DEF TypeOK, Numbered, IdsOfRows, Ids
<1>10. TokensTaken'
    BY DEF TypeOK, Numbered, TokensTaken
<1>11. (UniqueIn(devices))'
    BY DEF TypeOK, Numbered, UniqueIn
<1> QED BY <1>1, <1>2, <1>3, <1>4, <1>5, <1>6, <1>7, <1>8, <1>9, <1>10, <1>11

LEMMA StepGetToken ==
    ASSUME AccountsInd, NEW d \in rows, GetToken(d)
    PROVE  AccountsInd'
<1> USE AccountsAssumption DEF AccountsInd, AccountsInv, tableVars, handlerVars, history
<1> USE DEF GetToken, AuthenticateDevice
<1>1. TypeOK'
    BY DEF TypeOK, Device
<1>2. LinkFindsPrimary'
    BY DEF TypeOK, Numbered, LinkFindsPrimary
<1>3. LinkedHasRow'
    BY DEF TypeOK, Numbered, LinkedHasRow
<1>4. RegisteredComplete'
    BY DEF TypeOK, Numbered, RegisteredComplete, Primary
<1>5. TokenOnce'
    BY DEF TypeOK, Numbered, TokenOnce
<1>6. Numbered'
    BY DEF TypeOK, Numbered
<1>7. RegistrationAlone'
    BY DEF TypeOK, Numbered, RegistrationAlone, Registering, Primary
<1>8. OthersOnKnown'
    BY DEF TypeOK, Numbered, OthersOnKnown, Registering, Linking
<1>9. IdsOfRows'
    BY DEF TypeOK, Numbered, IdsOfRows, Ids
<1>10. TokensTaken'
    BY DEF TypeOK, Numbered, TokensTaken
<1>11. (UniqueIn(devices))'
    BY DEF TypeOK, Numbered, UniqueIn
<1> QED BY <1>1, <1>2, <1>3, <1>4, <1>5, <1>6, <1>7, <1>8, <1>9, <1>10, <1>11

LEMMA InitAccounts == Init => AccountsInd
<1> SUFFICES ASSUME Init PROVE AccountsInd
    OBVIOUS
<1> USE AccountsAssumption DEF Init
<1>1. TypeOK
    BY DEF TypeOK
<1>2. LinkFindsPrimary /\ LinkedHasRow /\ RegisteredComplete /\ TokenOnce
    BY DEF LinkFindsPrimary, LinkedHasRow, RegisteredComplete, TokenOnce
<1>3. Numbered /\ RegistrationAlone /\ OthersOnKnown /\ TokensTaken /\ UniqueIn(devices)
    BY DEF Numbered, RegistrationAlone, OthersOnKnown, Registering, Linking, TokensTaken,
           UniqueIn
<1>4. IdsOfRows
    <2>1. Ids(rows) = {}
        BY DEF Ids
    <2> QED BY <2>1, FS_EmptySet DEF IdsOfRows
<1> QED BY <1>1, <1>2, <1>3, <1>4 DEF AccountsInd, AccountsInv

(* AccountsInd is inductive. *)
LEMMA NextAccounts == AccountsInd /\ [Next]_vars => AccountsInd'
<1> SUFFICES ASSUME AccountsInd, [Next]_vars PROVE AccountsInd'
    OBVIOUS
<1>1. CASE UNCHANGED vars
    BY <1>1 DEF AccountsInd, AccountsInv, TypeOK, LinkFindsPrimary, LinkedHasRow,
        RegisteredComplete, TokenOnce, Numbered, RegistrationAlone, OthersOnKnown, Registering,
        Linking, IdsOfRows, TokensTaken, UniqueIn, vars, tableVars, handlerVars, history
<1>2. CASE \E d \in rows : GetToken(d)
    BY <1>2, StepGetToken
<1>3. ASSUME NEW h \in Handlers,
             \/ \E p \in Phones : RegisterAccount(h, p)
             \/ RegisterDevice(h) \/ RegisterBundle(h)
      PROVE  AccountsInd'
    BY <1>3, StepRegisterAccount, StepRegisterDevice, StepRegisterBundle
<1>4. ASSUME NEW h \in Handlers,
             \/ \E t \in DOMAIN tokens : LinkRead(h, t)
             \/ LinkToken(h) \/ LinkDevice(h)
      PROVE  AccountsInd'
    BY <1>4, StepLinkRead, StepLinkToken, StepLinkDevice
<1>5. ASSUME NEW h \in Handlers,
             \/ \E d \in rows : \/ DeleteAccountRequest(h, d)
                                \/ \E i \in {e.id : e \in devices} : DeleteDeviceRequest(h, d, i)
             \/ DeleteAccount(h) \/ DeleteDevice(h) \/ Abort(h)
      PROVE  AccountsInd'
    BY <1>5, StepDeleteAccountRequest, StepDeleteDeviceRequest, StepDeleteAccount,
       StepDeleteDevice, StepAbort
<1> QED BY <1>1, <1>2, <1>3, <1>4, <1>5 DEF Next

(* A device that was deleted does not come back: what a step adds to the   *)
(* table was never there.  This is what PutExact rests on.                 *)
LEMMA NeverBack ==
    ASSUME AccountsInd, [Next]_vars
    PROVE  devices' \cap rows \subseteq devices /\ rows \subseteq rows' /\ known \subseteq known'
<1> USE DEF AccountsInd, AccountsInv
<1>1. ASSUME NEW h \in Handlers, RegisterDevice(h) PROVE Primary(acc[h]) \notin rows
    <2>1. acc[h] \in Accs /\ \A d \in rows : d.acc # acc[h]
        BY <1>1 DEF RegisterDevice, TypeOK, Numbered, RegistrationAlone, Registering, Accs
    <2> QED BY <2>1, PrimaryIs
<1>2. ASSUME NEW h \in Handlers, LinkDevice(h) PROVE LinkedDevice(h) \notin rows
    <2>1. pc[h] = "linkDevice" /\ \A d \in rows : d.by # arg[h]
        BY <1>2 DEF LinkDevice, TokensTaken
    <2> QED BY <2>1, LinkedIs
<1>3. ASSUME NEW h \in Handlers, RegisterDevice(h) \/ LinkDevice(h) \/ RegisterBundle(h)
      PROVE  devices' \cap rows \subseteq devices /\ rows \subseteq rows' /\ known \subseteq known'
    BY <1>1, <1>2, <1>3 DEF RegisterDevice, LinkDevice, RegisterBundle
<1>4. ASSUME NEW h \in Handlers, NEW p \in Phones, RegisterAccount(h, p)
      PROVE  UNCHANGED <<devices, rows, known>>
    BY <1>4 DEF RegisterAccount, history
<1>5. ASSUME NEW h \in Handlers,
             \/ \E t \in DOMAIN tokens : LinkRead(h, t)
             \/ LinkToken(h) \/ Abort(h)
             \/ \E d \in rows : \/ DeleteAccountRequest(h, d)
                                \/ \E i \in {e.id : e \in devices} : DeleteDeviceRequest(h, d, i)
      PROVE  UNCHANGED <<devices, rows, known>>
    BY <1>5 DEF LinkRead, LinkToken, Abort, DeleteAccountRequest, DeleteDeviceRequest,
                tableVars, history
<1>6. ASSUME NEW h \in Handlers, DeleteAccount(h) \/ DeleteDevice(h)
      PROVE  devices' \subseteq devices /\ UNCHANGED <<rows, known>>
    BY <1>6 DEF DeleteAccount, DeleteDevice, history
<1>7. ASSUME NEW d \in rows, GetToken(d) PROVE UNCHANGED <<devices, rows, known>>
    BY <1>7 DEF GetToken, history
<1>8. UNCHANGED vars => UNCHANGED <<devices, rows, known>>
    BY DEF vars, tableVars, history
<1> QED BY <1>3, <1>4, <1>5, <1>6, <1>7, <1>8 DEF Next
-----------------------------------------------------------------------------
(***************************************************************************)
(* The request of handle_put_messages.                                     *)
(***************************************************************************)
PutRecord ==
    [pc : {"devices", "account", "validate", "insert"}, acc : Accs,
     list : SUBSET rows, unnamed : SUBSET rows,
     queued : SUBSET [acc : Accs, id : Nat, for : rows],
     senderKnows : SUBSET rows, found : SUBSET rows, excluded : SUBSET Nat,
     since : SUBSET rows]

(* What an authentication reads: a device that is there and the devices of *)
(* its account.                                                            *)
Authenticated(who) ==
    /\ who \in [device : rows, devices : SUBSET rows]
    /\ UniqueIn(who.devices) /\ \A d \in who.devices : d.acc = who.device.acc

SocketInd == socket = <<>> \/ \E who : socket = <<who>> /\ Authenticated(who)

(* Message m is in the queue of d, and was encrypted for it or names no    *)
(* registration id.                                                        *)
Reaches(m, d, unnamed) == m.acc = d.acc /\ m.id = d.id /\ (m.for = d \/ m.for \in unnamed)

(* A request in progress: what it has read, and what that tells about the  *)
(* devices that were there when it came in.                                *)
RequestInd(p) ==
    /\ \A d \in p.list \cup p.senderKnows \cup p.found \cup p.since : d.acc = p.acc
    /\ UniqueIn(p.found)
    /\ p.pc # "insert" => p.queued = {}
    /\ p.pc = "devices" => p.senderKnows \cap devices \subseteq p.since
    /\ p.pc \in {"account", "validate"} =>
        /\ p.found \cap p.senderKnows \subseteq p.since
        /\ p.since \cap devices \subseteq p.found
    /\ p.pc = "insert" =>
        /\ p.list \ p.unnamed \subseteq p.since
        /\ \A d \in p.since \cap devices :
            \/ d.id \in p.excluded
            \/ \E m \in p.list : m.id = d.id /\ (m = d \/ m \in p.unnamed)
            \/ \E m \in p.queued : Reaches(m, d, p.unnamed)
    /\ \A m \in p.queued :
        m.for \in p.unnamed \/ (m.for \in p.since /\ Reaches(m, m.for, {}))

PutInd == put = <<>> \/ \E p \in PutRecord : put = <<p>> /\ RequestInd(p)

(* The inductive invariant of PutSpec. *)
AllInd == AccountsInd /\ SocketInd /\ PutInd

LEMMA AccountsMove ==
    ASSUME AllInd, [Next]_vars, UNCHANGED putVars
    PROVE  AllInd'
<1>1. AccountsInd'
    BY NextAccounts DEF AllInd
<1>2. devices' \cap rows \subseteq devices /\ rows \subseteq rows'
    BY NeverBack DEF AllInd
<1>3. SocketInd'
    BY <1>2 DEF AllInd, SocketInd, Authenticated, UniqueIn, putVars
<1>4. ASSUME NEW p \in PutRecord, RequestInd(p) PROVE p \in PutRecord' /\ RequestInd(p)'
    <2>1. p \in PutRecord'
        BY <1>2 DEF PutRecord
    <2>2. /\ p.senderKnows \cap devices' \subseteq p.senderKnows \cap devices
          /\ p.since \cap devices' \subseteq p.since \cap devices
        BY <1>2 DEF PutRecord
    <2>3. RequestInd(p)'
        BY <1>4, <2>2 DEF RequestInd, UniqueIn
    <2> QED BY <2>1, <2>3
<1>5. PutInd'
    BY <1>4 DEF AllInd, PutInd, putVars
<1> QED BY <1>1, <1>3, <1>5 DEF AllInd

(* A step of the request or the socket leaves Accounts alone. *)
LEMMA AccountsStay ==
    ASSUME AllInd, UNCHANGED vars, SocketInd', PutInd'
    PROVE  AllInd'
BY NextAccounts DEF AllInd

LEMMA SameRows ==
    ASSUME UNCHANGED vars
    PROVE  PutRecord' = PutRecord /\ UNCHANGED <<devices, rows, live>>
BY DEF vars, tableVars, history, PutRecord

(* What AuthenticateDevice lets through. *)
LEMMA AuthenticatedIs ==
    ASSUME AccountsInd, NEW d \in rows
    PROVE  Authenticated(AuthenticatedDevice(d))
BY DEF AccountsInd, AccountsInv, TypeOK, AuthenticatedDevice, Authenticated, GetAllDevices, UniqueIn

LEMMA StepSocket ==
    ASSUME AllInd, CloseSocket \/ \E d \in rows : OpenSocket(d)
    PROVE  AllInd'
<1>1. UNCHANGED vars /\ UNCHANGED put
    BY DEF CloseSocket, OpenSocket
<1>2. UNCHANGED <<devices, rows>>
    BY <1>1, SameRows
<1>3. SocketInd'
    <2>1. socket' = <<>> \/ \E who : socket' = <<who>> /\ Authenticated(who)
        BY AuthenticatedIs DEF AllInd, CloseSocket, OpenSocket
    <2> QED BY <1>2, <2>1 DEF SocketInd, Authenticated
<1>4. PutInd'
    BY <1>1, <1>2, SameRows DEF AllInd, PutInd, RequestInd
<1> QED BY <1>1, <1>3, <1>4, AccountsStay

(* A request changes neither Accounts nor the socket. *)
LEMMA RequestStep ==
    ASSUME AllInd, UNCHANGED <<vars, socket>>,
           put' = <<>> \/ \E p \in PutRecord : put' = <<p>> /\ RequestInd(p)
    PROVE  AllInd'
<1>1. UNCHANGED vars /\ UNCHANGED <<devices, rows>> /\ PutRecord' = PutRecord
    BY SameRows
<1>2. SocketInd'
    BY <1>1 DEF AllInd, SocketInd, Authenticated
<1>3. PutInd'
    BY <1>1 DEF PutInd, RequestInd
<1> QED BY <1>1, <1>2, <1>3, AccountsStay

(* A request begins with what was read when its sender was authenticated,  *)
(* or with nothing.                                                        *)
LEMMA StepBegin ==
    ASSUME AllInd, NEW a \in known, NEW who, BeginPut(who, a),
           Authenticated(who) \/ who.device.acc # a
    PROVE  AllInd'
<1>1. a \in Accs /\ devices \subseteq rows /\ rows \subseteq Device
    BY DEF AllInd, AccountsInd, AccountsInv, TypeOK
<1>2. CASE a = who.device.acc
    <2>1. /\ who.device.id \in Nat /\ who.devices \subseteq rows /\ UniqueIn(who.devices)
          /\ \A d \in who.devices : d.acc = a
        BY <1>1, <1>2 DEF Authenticated, Device
    <2> DEFINE p == [pc |-> "validate", acc |-> a, list |-> {}, unnamed |-> {},
                     queued |-> {},
                     senderKnows |-> {d \in rows : d.acc = a},
                     found |-> who.devices, excluded |-> {who.device.id},
                     since |-> who.devices]
    <2>2. put' = <<p>>
        BY <1>2 DEF BeginPut
    <2>3. p \in PutRecord
        BY <1>1, <2>1 DEF PutRecord
    <2>4. RequestInd(p)
        BY <2>1 DEF RequestInd
    <2> HIDE DEF p
    <2> QED BY <2>2, <2>3, <2>4, RequestStep DEF BeginPut
<1>3. CASE a # who.device.acc
    <2> DEFINE p == [pc |-> "devices", acc |-> a, list |-> {}, unnamed |-> {},
                     queued |-> {},
                     senderKnows |-> {d \in rows : d.acc = a},
                     found |-> {}, excluded |-> {}, since |-> GetAllDevices(a)]
    <2>1. put' = <<p>>
        BY <1>3 DEF BeginPut
    <2>2. p \in PutRecord
        BY <1>1 DEF PutRecord, GetAllDevices
    <2>3. RequestInd(p)
        BY <1>1 DEF RequestInd, UniqueIn, GetAllDevices
    <2> HIDE DEF p
    <2> QED BY <2>1, <2>2, <2>3, RequestStep DEF BeginPut
<1> QED BY <1>2, <1>3

LEMMA StepPutOnSocket ==
    ASSUME AllInd, NEW a \in known, PutOnSocket(a)
    PROVE  AllInd'
<1>1. PICK who : socket = <<who>> /\ Authenticated(who)
    BY DEF AllInd, SocketInd, PutOnSocket
<1>2. BeginPut(who, a)
    BY <1>1 DEF PutOnSocket
<1> QED BY <1>1, <1>2, StepBegin

LEMMA StepPutEndpoint ==
    ASSUME AllInd, NEW a \in known, NEW d \in rows \cup {Stranger}, PutEndpoint(d, a)
    PROVE  AllInd'
<1>1. BeginPut(AuthenticatedDevice(d), a)
    BY DEF PutEndpoint
<1>2. CASE d \in rows
    <2>1. Authenticated(AuthenticatedDevice(d))
        BY <1>2, AuthenticatedIs DEF AllInd
    <2> QED BY <1>1, <2>1, StepBegin
<1>3. CASE d = Stranger
    <2>1. AuthenticatedDevice(d).device.acc = 0
        BY <1>3 DEF AuthenticatedDevice, Stranger
    <2>2. a # 0
        BY AccountsAssumption DEF AllInd, AccountsInd, AccountsInv, TypeOK, Accs
    <2>3. AuthenticatedDevice(d).device.acc # a
        BY <2>1, <2>2
    <2> QED BY <1>1, <2>3, StepBegin
<1> QED BY <1>2, <1>3

(* The devices of the destination are those in the table now: any the      *)
(* sender knows were there when the request came in.                       *)
LEMMA StepReadDestination ==
    ASSUME AllInd, ReadDestination
    PROVE  AllInd'
<1>1. PICK p \in PutRecord : put = <<p>> /\ RequestInd(p)
    BY DEF AllInd, PutInd, ReadDestination, PutAt
<1> DEFINE q == [p EXCEPT !.pc = "account", !.found = GetAllDevices(p.acc)]
<1>2. put' = <<q>> /\ p.pc = "devices"
    BY <1>1 DEF ReadDestination, PutAt
<1>3. devices \subseteq rows /\ UniqueIn(devices)
    BY DEF AllInd, AccountsInd, AccountsInv, TypeOK
<1>4. q \in PutRecord
    BY <1>3 DEF PutRecord, GetAllDevices
<1>5. RequestInd(q)
    <2>1. /\ q.pc = "account" /\ q.acc = p.acc /\ q.list = p.list /\ q.queued = p.queued
          /\ q.senderKnows = p.senderKnows /\ q.since = p.since /\ q.excluded = p.excluded
          /\ q.found = GetAllDevices(p.acc)
        BY DEF PutRecord
    <2>2. q.found = {d \in devices : d.acc = p.acc} /\ UniqueIn(q.found)
        BY <1>3, <2>1 DEF GetAllDevices, UniqueIn
    <2> HIDE DEF q
    <2> QED BY <1>1, <1>2, <2>1, <2>2 DEF RequestInd
<1> HIDE DEF q
<1> QED BY <1>2, <1>4, <1>5, RequestStep DEF ReadDestination

LEMMA StepGetAccount ==
    ASSUME AllInd, GetAccount
    PROVE  AllInd'
<1>1. PICK p \in PutRecord : put = <<p>> /\ RequestInd(p)
    BY DEF AllInd, PutInd, GetAccount, PutAt
<1> DEFINE q == [p EXCEPT !.pc = "validate"]
<1>2. (put' = <<q>> \/ put' = <<>>) /\ p.pc = "account"
    BY <1>1 DEF GetAccount, PutAt, PutGoto
<1>3. q \in PutRecord
    BY DEF PutRecord
<1>4. RequestInd(q)
    <2>1. /\ q.pc = "validate" /\ q.acc = p.acc /\ q.list = p.list /\ q.queued = p.queued
          /\ q.senderKnows = p.senderKnows /\ q.since = p.since /\ q.excluded = p.excluded
          /\ q.found = p.found
        BY DEF PutRecord
    <2> HIDE DEF q
    <2> QED BY <1>1, <1>2, <2>1 DEF RequestInd
<1> HIDE DEF q
<1> QED BY <1>2, <1>3, <1>4, RequestStep DEF GetAccount

(* A list that passes the validators has the ids of the devices that were  *)
(* found, and leaves out only the excluded one; a message that names a     *)
(* registration id is for the device found.                                *)
LEMMA StepValidate ==
    ASSUME AllInd, NEW list \in SUBSET rows, NEW unnamed \in SUBSET list,
           Validate(list, unnamed)
    PROVE  AllInd'
<1>1. PICK p \in PutRecord : put = <<p>> /\ RequestInd(p)
    BY DEF AllInd, PutInd, Validate, PutAt
<1> DEFINE q == [p EXCEPT !.pc = "insert", !.list = list, !.unnamed = unnamed,
                         !.found = {}, !.senderKnows = {}]
<1>2. CASE put' = <<>>
    BY <1>2, RequestStep DEF Validate
<1>3. CASE put' # <<>>
    <2>1. /\ put' = <<q>> /\ p.pc = "validate" /\ list \subseteq p.senderKnows
          /\ Ids(list) = Ids(p.found) \ p.excluded
          /\ \A m \in list \ unnamed : m \in p.found
        BY <1>1, <1>3 DEF Validate, PutAt, ValidateCompleteDeviceList, ValidateRegistrationId
    <2>2. q \in PutRecord
        BY DEF PutRecord
    <2>3. /\ q.pc = "insert" /\ q.acc = p.acc /\ q.list = list /\ q.queued = p.queued
          /\ q.unnamed = unnamed
          /\ q.senderKnows = {} /\ q.since = p.since /\ q.excluded = p.excluded
          /\ q.found = {}
        BY DEF PutRecord
    <2>4. list \ unnamed \subseteq p.since
        BY <1>1, <2>1 DEF RequestInd
    <2>5. ASSUME NEW d \in p.since \cap devices, d.id \notin p.excluded
          PROVE  \E m \in list : m.id = d.id /\ (m = d \/ m \in unnamed)
        <3>1. d \in p.found
            BY <1>1, <2>1 DEF RequestInd
        <3>2. d.id \in Ids(list)
            BY <2>1, <2>5, <3>1 DEF Ids
        <3>3. PICK m \in list : m.id = d.id
            BY <3>2 DEF Ids
        <3>4. m \in unnamed \/ m = d
            BY <1>1, <2>1, <3>1, <3>3 DEF RequestInd, UniqueIn
        <3> QED BY <3>3, <3>4
    <2>6. RequestInd(q)
        <3> HIDE DEF q
        <3> QED BY <1>1, <2>1, <2>3, <2>4, <2>5 DEF RequestInd, UniqueIn
    <2> HIDE DEF q
    <2> QED BY <2>1, <2>2, <2>6, RequestStep DEF Validate
<1> QED BY <1>2, <1>3

LEMMA StepInsertFor ==
    ASSUME AllInd, NEW m \in rows, InsertFor(m)
    PROVE  AllInd'
<1>1. PICK p \in PutRecord : put = <<p>> /\ RequestInd(p)
    BY DEF AllInd, PutInd, InsertFor, PutAt
<1> DEFINE new == [acc |-> p.acc, id |-> m.id, for |-> m]
           q == [p EXCEPT !.list = @ \ {m}, !.queued = @ \cup {new}]
<1>2. put' = <<q>> /\ p.pc = "insert" /\ m \in p.list
    BY <1>1 DEF InsertFor, PutAt
<1>3. p.acc \in Accs /\ m.id \in Nat
    BY DEF PutRecord, AllInd, AccountsInd, AccountsInv, TypeOK, Device
<1>4. new \in [acc : Accs, id : Nat, for : rows]
    BY <1>3
<1>5. new.acc = m.acc /\ new.for = m /\ new.id = m.id /\ m.acc = p.acc
    BY <1>1, <1>2 DEF RequestInd
<1> HIDE DEF new
<1>6. q \in PutRecord
    BY <1>4 DEF PutRecord
<1>7. RequestInd(q)
    <2>1. /\ q.pc = p.pc /\ q.acc = p.acc /\ q.list = p.list \ {m}
          /\ q.queued = p.queued \cup {new}
          /\ q.senderKnows = p.senderKnows /\ q.since = p.since /\ q.excluded = p.excluded
          /\ q.found = p.found /\ q.unnamed = p.unnamed
        BY DEF PutRecord
    <2> HIDE DEF q
    <2>2. q.list \ q.unnamed \subseteq q.since
        BY <1>1, <1>2, <2>1 DEF RequestInd
    <2>3. ASSUME NEW d \in q.since \cap devices, d.id \notin q.excluded,
                 \A n \in q.list : ~(n.id = d.id /\ (n = d \/ n \in q.unnamed))
          PROVE  \E n \in q.queued : Reaches(n, d, q.unnamed)
        <3>1. CASE \E n \in p.queued : Reaches(n, d, p.unnamed)
            BY <2>1, <3>1
        <3>2. CASE m.id = d.id /\ (m = d \/ m \in p.unnamed)
            <4>1. d.acc = p.acc
                BY <1>1, <2>1, <2>3 DEF RequestInd
            <4>2. Reaches(new, d, q.unnamed)
                BY <1>5, <2>1, <3>2, <4>1 DEF Reaches
            <4> QED BY <2>1, <4>2
        <3> QED BY <1>1, <1>2, <2>1, <2>3, <3>1, <3>2 DEF RequestInd
    <2>4. \A n \in q.queued :
             n.for \in q.unnamed \/ (n.for \in q.since /\ Reaches(n, n.for, {}))
        BY <1>1, <1>2, <1>5, <2>1 DEF RequestInd, Reaches
    <2>5. /\ \A d \in q.list \cup q.senderKnows \cup q.found \cup q.since : d.acc = q.acc
          /\ UniqueIn(q.found) /\ q.pc = "insert"
        BY <1>1, <1>2, <2>1 DEF RequestInd
    <2> QED BY <2>2, <2>3, <2>4, <2>5 DEF RequestInd
<1> HIDE DEF q
<1> QED BY <1>2, <1>6, <1>7, RequestStep DEF InsertFor

LEMMA InitAll == PutInit => AllInd
BY InitAccounts DEF PutInit, AllInd, SocketInd, PutInd

LEMMA NextAll == AllInd /\ [PutNext]_allVars => AllInd'
<1> SUFFICES ASSUME AllInd, [PutNext]_allVars PROVE AllInd'
    OBVIOUS
<1>1. CASE UNCHANGED allVars \/ (Next /\ UNCHANGED putVars)
    BY <1>1, AccountsMove DEF allVars
<1>2. CASE CloseSocket \/ \E d \in rows : OpenSocket(d)
    BY <1>2, StepSocket
<1>3. CASE \E a \in known : PutOnSocket(a) \/ \E d \in rows \cup {Stranger} : PutEndpoint(d, a)
    BY <1>3, StepPutOnSocket, StepPutEndpoint
<1>4. CASE ReadDestination \/ GetAccount
    BY <1>4, StepReadDestination, StepGetAccount
<1>5. CASE \E list \in SUBSET rows : \E unnamed \in SUBSET list : Validate(list, unnamed)
    BY <1>5, StepValidate
<1>6. CASE \E m \in rows : InsertFor(m)
    BY <1>6, StepInsertFor
<1>7. CASE AnswerPut \/ PutFails
    BY <1>7, RequestStep DEF AnswerPut, PutFails
<1> QED BY <1>1, <1>2, <1>3, <1>4, <1>5, <1>6, <1>7 DEF PutNext

LEMMA ExactFromInd == AllInd => PutExact
<1> SUFFICES ASSUME AllInd, put # <<>> PROVE PutExact
    BY DEF PutExact
<1>1. PICK p \in PutRecord : put = <<p>> /\ RequestInd(p)
    BY DEF AllInd, PutInd
<1> QED BY <1>1 DEF PutExact, RequestInd, Reaches

LEMMA AlwaysAll == PutSpec => []AllInd
BY InitAll, NextAll, PTL DEF PutSpec

(* Whatever the handlers of other requests do between two statements, and  *)
(* wherever one stops, what a handler expects is there and what was        *)
(* answered is true (handle_post_registration, handle_post_link_device,    *)
(* delete_account, delete_device).                                         *)
THEOREM AccountsCorrect == PutSpec => []AccountsInv
<1>1. AllInd => AccountsInv
    BY DEF AllInd, AccountsInd
<1> QED BY <1>1, AlwaysAll, PTL

(* A link token makes at most one device, however many requests use it at  *)
(* once (add_used_device_link_token, add_device).                          *)
THEOREM TokenMakesOne == PutSpec => []TokenOnce
<1>1. AllInd => TokenOnce
    BY DEF AllInd, AccountsInd
<1> QED BY <1>1, AlwaysAll, PTL

(* A message reaches all the devices it has to, and one that names a       *)
(* registration id is put in a queue only for the device it was encrypted  *)
(* for, while devices are linked and deleted and device ids used again     *)
(* (handle_put_messages).                                                  *)
THEOREM PutIsExact == PutSpec => []PutExact
BY ExactFromInd, AlwaysAll, PTL
-----------------------------------------------------------------------------
(***************************************************************************)
(* Keys: KeysInv is inductive, so that a one-time key is given out at most *)
(* once however many uploads and requests overlap.                         *)
(***************************************************************************)
(* A field that is left to store is a later one. *)
LEMMA NextFieldIs ==
    ASSUME NEW there, NEW i \in 1..4
    PROVE  NextField(there, i) \in {"done"} \cup {Fields[j] : j \in i..4}
<1> DEFINE later == {j \in i..4 : Fields[j] \in there}
<1>1. CASE later = {}
    BY <1>1 DEF NextField
<1>2. CASE later # {}
    <2>1. PICK x \in later : \A y \in later : x =< y
        <3>1. later \subseteq {1, 2, 3, 4}
            OBVIOUS
        <3>2. \/ 1 \in later
              \/ 1 \notin later /\ 2 \in later
              \/ 1 \notin later /\ 2 \notin later /\ 3 \in later
              \/ 1 \notin later /\ 2 \notin later /\ 3 \notin later /\ 4 \in later
            BY <1>2, <3>1
        <3> HIDE DEF later
        <3> QED BY <3>1, <3>2
    <2>2. Min(later) \in later
        BY <2>1 DEF Min
    <2> QED BY <1>2, <2>2 DEF NextField
<1> QED BY <1>1, <1>2

LEMMA FieldNames ==
    /\ Fields[1] = "preKey"
    /\ \A j \in 2..4 : Fields[j] \in {"signed", "pqPreKey", "lastResort"}
    /\ \A j \in 1..4 : Fields[j] \in {"preKey", "signed", "pqPreKey", "lastResort"}
BY DEF Fields

(* The device a handler is at. *)
LEMMA DevIs ==
    ASSUME KeysTypeOK, HasDevice, NEW r \in Requests, stmt[r] \notin {"new", "done", "failed"}
    PROVE  Dev(r) \in Devices
<1>1. devs[r] # {} /\ devs[r] \subseteq Devices
    BY DEF KeysTypeOK, HasDevice
<1> QED BY <1>1 DEF Dev

LEMMA InitKeys == KeysInit => KeysInv
<1> SUFFICES ASSUME KeysInit PROVE KeysInv
    OBVIOUS
<1>1. KeysTypeOK
    <2>1. \A d \in Devices : Bundle(d) \in [Kinds -> [KeyIds -> Requests \cup {0, None}]]
        BY DEF Bundle
    <2>2. signed \in [Devices -> [Kinds -> [KeyIds -> Requests \cup {0, None}]]]
        BY <2>1 DEF KeysInit
    <2>3. FirstId \in KeyIds
        BY KeysAssumption
    <2> QED BY <2>2, <2>3 DEF KeysInit, KeysTypeOK
<1>2. HasDevice
    BY DEF KeysInit, HasDevice
<1>3. StoredOnce /\ NotBeforeCommit /\ HandedIsGone /\ HandedOnce
    BY DEF KeysInit, StoredOnce, NotBeforeCommit, Uncommitted, HandedIsGone, HandedOnce
<1> QED BY <1>1, <1>2, <1>3 DEF KeysInv

(* A step that neither stores nor gives out keys. *)
LEMMA OtherStep ==
    ASSUME KeysInv, KeysTypeOK', HasDevice', UNCHANGED <<preKeys, handed>>,
           Uncommitted' \subseteq Uncommitted
    PROVE  KeysInv'
<1>1. StoredOnce' /\ HandedIsGone' /\ HandedOnce'
    BY DEF KeysInv, StoredOnce, HandedIsGone, HandedOnce
<1>2. NotBeforeCommit'
    BY DEF KeysInv, NotBeforeCommit
<1> QED BY <1>1, <1>2 DEF KeysInv

LEMMA StepPut ==
    ASSUME KeysInv, NEW r \in Requests, NEW d \in Devices, NEW f \in Uploads,
           NEW i \in KeyIds, Put(r, d, f, i)
    PROVE  KeysInv'
<1>1. f \subseteq {"preKey", "signed", "pqPreKey", "lastResort"}
    BY KeysAssumption
<1>2. f \subseteq {Fields[j] : j \in 1..4}
    BY <1>1 DEF Fields
<1>3. NextField(f, 1) \in {"done"} \cup {Fields[j] : j \in 1..4}
    BY NextFieldIs
<1>4. KeysTypeOK'
    BY <1>2, <1>3 DEF KeysInv, KeysTypeOK, Put, storeVars
<1>5. HasDevice'
    BY DEF KeysInv, KeysTypeOK, HasDevice, Put
<1>6. Uncommitted' \subseteq Uncommitted
    BY DEF KeysInv, KeysTypeOK, Uncommitted, Put, Begins
<1>7. UNCHANGED <<preKeys, handed>>
    BY DEF Put, storeVars
<1> QED BY <1>4, <1>5, <1>6, <1>7, OtherStep

LEMMA StepStorePreKeys ==
    ASSUME KeysInv, NEW r \in Requests, StorePreKeys(r)
    PROVE  KeysInv'
<1>1. Dev(r) \in Devices
    BY DevIs DEF KeysInv, StorePreKeys
<1>2. KeysTypeOK'
    BY <1>1 DEF KeysInv, KeysTypeOK, StorePreKeys, storeVars
<1>3. HasDevice'
    BY DEF KeysInv, KeysTypeOK, HasDevice, StorePreKeys
<1>4. Uncommitted' \subseteq Uncommitted
    BY DEF KeysInv, KeysTypeOK, Uncommitted, StorePreKeys
<1>5. UNCHANGED <<preKeys, handed>>
    BY DEF StorePreKeys, storeVars
<1> QED BY <1>2, <1>3, <1>4, <1>5, OtherStep

LEMMA StepCommit ==
    ASSUME KeysInv, NEW r \in Requests, CommitPreKeys(r)
    PROVE  KeysInv'
<1>1. Dev(r) \in Devices
    BY DevIs DEF KeysInv, CommitPreKeys
<1>2. OneTimeKeys(r) \subseteq Key /\ \A k \in OneTimeKeys(r) : k.up = r
    BY DEF OneTimeKeys, Key
<1>3. NextField(fields[r], 2) \in {"done", "signed", "pqPreKey", "lastResort"}
    BY NextFieldIs, FieldNames
<1>4. NextField(fields[r], 2) \in {"done"} \cup {Fields[j] : j \in 1..4}
    BY NextFieldIs
<1>5. preKeys' = [preKeys EXCEPT ![Dev(r)] = (@ \ seen[r]) \cup OneTimeKeys(r)]
    BY DEF CommitPreKeys
<1>6. preKeys' \in [Devices -> SUBSET Key]
    BY <1>1, <1>2, <1>5 DEF KeysInv, KeysTypeOK
<1>7. KeysTypeOK'
    <2>1. stmt' \in [Requests -> {Fields[j] : j \in 1..4}
                \cup {"new", "commit", "bundle", "select", "take", "done", "failed"}]
        BY <1>4 DEF KeysInv, KeysTypeOK, CommitPreKeys
    <2>2. seen' \in [Requests -> SUBSET Key]
        BY DEF KeysInv, KeysTypeOK, CommitPreKeys
    <2> QED BY <1>6, <2>1, <2>2 DEF KeysInv, KeysTypeOK, CommitPreKeys
<1>8. HasDevice'
    BY DEF KeysInv, KeysTypeOK, HasDevice, CommitPreKeys
<1>9. r \in Uncommitted /\ Uncommitted' = Uncommitted \ {r}
    BY <1>3 DEF KeysInv, KeysTypeOK, Uncommitted, CommitPreKeys
<1>10. \A d \in Devices : \A k \in preKeys'[d] : k \in preKeys[d] \/ (d = Dev(r) /\ k.up = r)
    BY <1>1, <1>2, <1>5 DEF KeysInv, KeysTypeOK
<1>11. handed' = handed
    BY DEF CommitPreKeys
<1>12. \A d \in Devices : \A k \in preKeys[d] : k.up # r
    BY <1>9 DEF KeysInv, NotBeforeCommit
<1>13. \A q \in Requests : \A k \in handed[q] : k.up # r
    BY <1>9 DEF KeysInv, NotBeforeCommit
<1>14. StoredOnce'
    BY <1>10, <1>12 DEF KeysInv, StoredOnce
<1>15. NotBeforeCommit'
    BY <1>9, <1>10, <1>11 DEF KeysInv, NotBeforeCommit
<1>16. HandedIsGone'
    BY <1>10, <1>11, <1>13 DEF KeysInv, HandedIsGone
<1>17. HandedOnce'
    BY <1>11 DEF KeysInv, HandedOnce
<1> QED BY <1>7, <1>8, <1>14, <1>15, <1>16, <1>17 DEF KeysInv

LEMMA StepStoreSigned ==
    ASSUME KeysInv, NEW r \in Requests, StoreSigned(r)
    PROVE  KeysInv'
<1>1. Dev(r) \in Devices
    BY DevIs DEF KeysInv, StoreSigned
<1>2. NextField(fields[r], 3) \in {"done", "signed", "pqPreKey", "lastResort"}
    BY NextFieldIs, FieldNames
<1>3. NextField(fields[r], 3) \in {"done"} \cup {Fields[j] : j \in 1..4}
    BY NextFieldIs
<1>4. KeysTypeOK'
    <2>1. stmt' \in [Requests -> {Fields[j] : j \in 1..4}
                \cup {"new", "commit", "bundle", "select", "take", "done", "failed"}]
        BY <1>3 DEF KeysInv, KeysTypeOK, StoreSigned
    <2>2. signed' \in [Devices -> [Kinds -> [KeyIds -> Requests \cup {0, None}]]]
        BY <1>1 DEF KeysInv, KeysTypeOK, StoreSigned, SignedRow
    <2> QED BY <2>1, <2>2 DEF KeysInv, KeysTypeOK, StoreSigned
<1>5. HasDevice'
    BY DEF KeysInv, KeysTypeOK, HasDevice, StoreSigned
<1>6. Uncommitted' \subseteq Uncommitted
    BY <1>2 DEF KeysInv, KeysTypeOK, Uncommitted, StoreSigned
<1>7. UNCHANGED <<preKeys, handed>>
    BY DEF StoreSigned
<1> QED BY <1>4, <1>5, <1>6, <1>7, OtherStep

LEMMA StepStorePq ==
    ASSUME KeysInv, NEW r \in Requests, StorePqPreKeys(r)
    PROVE  KeysInv'
<1>1. Dev(r) \in Devices
    BY DevIs DEF KeysInv, StorePqPreKeys
<1>2. NextField(fields[r], 4) \in {"done", "signed", "pqPreKey", "lastResort"}
    BY NextFieldIs, FieldNames
<1>3. NextField(fields[r], 4) \in {"done"} \cup {Fields[j] : j \in 1..4}
    BY NextFieldIs
<1>4. KeysTypeOK'
    <2>1. stmt' \in [Requests -> {Fields[j] : j \in 1..4}
                \cup {"new", "commit", "bundle", "select", "take", "done", "failed"}]
        BY <1>3 DEF KeysInv, KeysTypeOK, StorePqPreKeys
    <2>2. OneTimeKeys(r) \subseteq Key
        BY DEF OneTimeKeys, Key
    <2>3. pqPreKeys' \in [Devices -> SUBSET Key]
        BY <1>1, <2>2 DEF KeysInv, KeysTypeOK, StorePqPreKeys
    <2> QED BY <2>1, <2>3 DEF KeysInv, KeysTypeOK, StorePqPreKeys
<1>5. HasDevice'
    BY DEF KeysInv, KeysTypeOK, HasDevice, StorePqPreKeys
<1>6. Uncommitted' \subseteq Uncommitted
    BY <1>2 DEF KeysInv, KeysTypeOK, Uncommitted, StorePqPreKeys
<1>7. UNCHANGED <<preKeys, handed>>
    BY DEF StorePqPreKeys
<1> QED BY <1>4, <1>5, <1>6, <1>7, OtherStep

LEMMA StepStoreLastResort ==
    ASSUME KeysInv, NEW r \in Requests, StoreLastResort(r)
    PROVE  KeysInv'
<1>1. Dev(r) \in Devices
    BY DevIs DEF KeysInv, StoreLastResort
<1>2. KeysTypeOK'
    <2>1. lastResort' \in [Devices -> [Kinds -> [KeyIds -> Requests \cup {0, None}]]]
        BY <1>1 DEF KeysInv, KeysTypeOK, StoreLastResort, LastResortRow
    <2> QED BY <2>1 DEF KeysInv, KeysTypeOK, StoreLastResort
<1>3. HasDevice'
    BY DEF KeysInv, KeysTypeOK, HasDevice, StoreLastResort
<1>4. Uncommitted' \subseteq Uncommitted
    BY DEF KeysInv, KeysTypeOK, Uncommitted, StoreLastResort
<1>5. UNCHANGED <<preKeys, handed>>
    BY DEF StoreLastResort
<1> QED BY <1>2, <1>3, <1>4, <1>5, OtherStep

LEMMA StepGet ==
    ASSUME KeysInv, NEW r \in Requests,
           NEW ds \in {{d} : d \in Devices} \cup {Devices}, Get(r, ds)
    PROVE  KeysInv'
<1>1. ds \subseteq Devices /\ ds # {}
    BY KeysAssumption
<1>2. KeysTypeOK'
    BY <1>1 DEF KeysInv, KeysTypeOK, Get, storeVars
<1>3. HasDevice'
    BY <1>1 DEF KeysInv, KeysTypeOK, HasDevice, Get
<1>4. Uncommitted' \subseteq Uncommitted
    BY DEF KeysInv, KeysTypeOK, Uncommitted, Get
<1>5. UNCHANGED <<preKeys, handed>>
    BY DEF Get, storeVars
<1> QED BY <1>2, <1>3, <1>4, <1>5, OtherStep

LEMMA StepGetBundle ==
    ASSUME KeysInv, NEW r \in Requests, GetBundle(r)
    PROVE  KeysInv'
<1>1. KeysTypeOK'
    BY DEF KeysInv, KeysTypeOK, GetBundle, storeVars
<1>2. HasDevice'
    BY DEF KeysInv, KeysTypeOK, HasDevice, GetBundle
<1>3. Uncommitted' \subseteq Uncommitted
    BY DEF KeysInv, KeysTypeOK, Uncommitted, GetBundle
<1>4. UNCHANGED <<preKeys, handed>>
    BY DEF GetBundle, storeVars
<1> QED BY <1>1, <1>2, <1>3, <1>4, OtherStep

LEMMA StepSelect ==
    ASSUME KeysInv, NEW r \in Requests, SelectPreKey(r)
    PROVE  KeysInv'
<1>1. Dev(r) \in Devices
    BY DevIs DEF KeysInv, SelectPreKey
<1>2. KeysTypeOK'
    <2>1. PICK s \in SUBSET preKeys[Dev(r)] : seen' = [seen EXCEPT ![r] = s]
        BY DEF SelectPreKey
    <2>2. s \subseteq Key
        BY <1>1, <2>1 DEF KeysInv, KeysTypeOK
    <2>3. seen' \in [Requests -> SUBSET Key]
        BY <2>1, <2>2 DEF KeysInv, KeysTypeOK
    <2> QED BY <2>3 DEF KeysInv, KeysTypeOK, SelectPreKey, storeVars
<1>3. HasDevice'
    BY DEF KeysInv, KeysTypeOK, HasDevice, SelectPreKey
<1>4. Uncommitted' \subseteq Uncommitted
    BY DEF KeysInv, KeysTypeOK, Uncommitted, SelectPreKey
<1>5. UNCHANGED <<preKeys, handed>>
    BY DEF SelectPreKey, storeVars
<1> QED BY <1>2, <1>3, <1>4, <1>5, OtherStep

(* The key taken was stored, for this device only, so no one had it. *)
LEMMA StepTake ==
    ASSUME KeysInv, NEW r \in Requests, TakePreKey(r)
    PROVE  KeysInv'
<1> DEFINE key == seen[r] \cap preKeys[Dev(r)]
<1>1. Dev(r) \in Devices
    BY DevIs DEF KeysInv, TakePreKey
<1>2. /\ preKeys' = [preKeys EXCEPT ![Dev(r)] = @ \ key]
      /\ handed' = [handed EXCEPT ![r] = @ \cup key]
    BY DEF TakePreKey
<1>3. \A d \in Devices : preKeys'[d] = IF d = Dev(r) THEN preKeys[d] \ key ELSE preKeys[d]
    BY <1>1, <1>2 DEF KeysInv, KeysTypeOK
<1>4. \A q \in Requests : handed'[q] = IF q = r THEN handed[q] \cup key ELSE handed[q]
    BY <1>2 DEF KeysInv, KeysTypeOK
<1>5. key \subseteq preKeys[Dev(r)] /\ key \subseteq Key
    BY <1>1 DEF KeysInv, KeysTypeOK
<1>6. KeysTypeOK'
    <2>1. preKeys' \in [Devices -> SUBSET Key] /\ handed' \in [Requests -> SUBSET Key]
        BY <1>1, <1>2, <1>5 DEF KeysInv, KeysTypeOK
    <2>2. seen' \in [Requests -> SUBSET Key] /\ devs' \in [Requests -> SUBSET Devices]
        BY DEF KeysInv, KeysTypeOK, TakePreKey
    <2>3. stmt' \in [Requests -> {Fields[j] : j \in 1..4}
                \cup {"new", "commit", "bundle", "select", "take", "done", "failed"}]
        BY DEF KeysInv, KeysTypeOK, TakePreKey
    <2> QED BY <2>1, <2>2, <2>3 DEF KeysInv, KeysTypeOK, TakePreKey
<1>7. HasDevice'
    BY DEF KeysInv, KeysTypeOK, HasDevice, TakePreKey
<1>8. Uncommitted' \subseteq Uncommitted
    BY DEF KeysInv, KeysTypeOK, Uncommitted, TakePreKey
<1> HIDE DEF key
<1>9. StoredOnce'
    BY <1>3 DEF KeysInv, StoredOnce
<1>10. NotBeforeCommit'
    BY <1>1, <1>3, <1>4, <1>5, <1>8 DEF KeysInv, NotBeforeCommit
<1>11. HandedIsGone'
    <2> SUFFICES ASSUME NEW q \in Requests, NEW d \in Devices, NEW k \in handed'[q],
                        k \in preKeys'[d]
                 PROVE  FALSE
        BY DEF HandedIsGone
    <2>1. k \in preKeys[d]
        BY <1>3
    <2>2. k \notin handed[q]
        BY <2>1 DEF KeysInv, HandedIsGone
    <2>3. k \in key
        BY <1>4, <2>2
    <2>4. d # Dev(r)
        BY <1>3, <2>3
    <2> QED BY <1>1, <1>5, <2>1, <2>3, <2>4 DEF KeysInv, StoredOnce
<1>12. HandedOnce'
    <2>1. \A q \in Requests : handed[q] \cap key = {}
        BY <1>1, <1>5 DEF KeysInv, HandedIsGone
    <2> QED BY <1>4, <2>1 DEF KeysInv, HandedOnce
<1> QED BY <1>6, <1>7, <1>9, <1>10, <1>11, <1>12 DEF KeysInv

LEMMA StepFail ==
    ASSUME KeysInv, NEW r \in Requests, Fail(r)
    PROVE  KeysInv'
<1>1. KeysTypeOK'
    BY DEF KeysInv, KeysTypeOK, Fail, storeVars
<1>2. HasDevice'
    BY DEF KeysInv, KeysTypeOK, HasDevice, Fail
<1>3. Uncommitted' \subseteq Uncommitted
    BY DEF KeysInv, KeysTypeOK, Uncommitted, Fail
<1>4. UNCHANGED <<preKeys, handed>>
    BY DEF Fail, storeVars
<1> QED BY <1>1, <1>2, <1>3, <1>4, OtherStep

(* Every step keeps the invariant. *)
LEMMA StepKeys == KeysInv /\ [KeysNext]_keysVars => KeysInv'
<1> SUFFICES ASSUME KeysInv, [KeysNext]_keysVars PROVE KeysInv'
    OBVIOUS
<1>1. CASE UNCHANGED keysVars
    <2>1. KeysTypeOK'
        BY <1>1 DEF KeysInv, KeysTypeOK, keysVars, storeVars, requestVars
    <2>2. HasDevice' /\ UNCHANGED <<preKeys, handed>> /\ Uncommitted' \subseteq Uncommitted
        BY <1>1 DEF KeysInv, HasDevice, Uncommitted, keysVars, storeVars, requestVars
    <2> QED BY <2>1, <2>2, OtherStep
<1>2. CASE KeysNext
    BY <1>2, StepPut, StepStorePreKeys, StepCommit, StepStoreSigned, StepStorePq,
       StepStoreLastResort, StepGet, StepGetBundle, StepSelect, StepTake, StepFail DEF KeysNext
<1> QED BY <1>1, <1>2

(* KeysInv holds for any number of devices, keys and overlapping requests  *)
(* (handle_put_keys, handle_get_keys_id_device_id).                        *)
THEOREM KeysCorrect == KeysSpec => []KeysInv
BY InitKeys, StepKeys, PTL DEF KeysSpec

(* No one-time key is ever given to two requests                           *)
(* (get_one_time_ec_pre_key).                                              *)
THEOREM GivenOnce == KeysSpec => []HandedOnce
<1>1. KeysInv => HandedOnce
    BY DEF KeysInv
<1> QED BY <1>1, KeysCorrect, PTL

(* A step that takes the last key of a device gives it out. *)
LEMMA StepKeeps ==
    ASSUME KeysInv, KeysNext, NEW d \in Devices, preKeys[d] # {}, preKeys'[d] = {}
    PROVE  handed' # handed
<1>1. PICK r \in Requests : preKeys' = preKeys \/ CommitPreKeys(r) \/ TakePreKey(r)
    BY DEF KeysNext, Put, StorePreKeys, StoreSigned, StorePqPreKeys, StoreLastResort, Get,
           GetBundle, SelectPreKey, Fail, storeVars
<1>2. CASE CommitPreKeys(r)
    <2>1. Dev(r) \in Devices
        BY <1>2, DevIs DEF KeysInv, CommitPreKeys
    <2>2. [up |-> r, n |-> 1] \in OneTimeKeys(r)
        BY KeysAssumption DEF OneTimeKeys
    <2> QED BY <1>2, <2>1, <2>2 DEF KeysInv, KeysTypeOK, CommitPreKeys
<1>3. CASE TakePreKey(r)
    <2>1. Dev(r) \in Devices
        BY <1>3, DevIs DEF KeysInv, TakePreKey
    <2>2. d = Dev(r) /\ preKeys[d] \subseteq seen[r]
        BY <1>3, <2>1 DEF KeysInv, KeysTypeOK, TakePreKey
    <2>3. PICK k \in preKeys[d] : TRUE
        OBVIOUS
    <2>4. k \in handed'[r]
        BY <1>3, <2>2, <2>3 DEF KeysInv, KeysTypeOK, TakePreKey
    <2>5. k \notin handed[r]
        BY <2>3 DEF KeysInv, HandedIsGone
    <2> QED BY <2>4, <2>5
<1> QED BY <1>1, <1>2, <1>3

(* No upload, also none that fails half way or overlaps with others,       *)
(* leaves a device without one-time keys that had some                     *)
(* (store_one_time_ec_pre_keys).                                           *)
THEOREM UploadsKeepKeys == KeysSpec => UploadKeepsKeys
<1> DEFINE Keeps == \A d \in Devices : preKeys[d] # {} /\ preKeys'[d] = {} => handed' # handed
<1>1. KeysInv /\ [KeysNext]_keysVars => [Keeps]_keysVars
    BY StepKeeps
<1> QED BY <1>1, KeysCorrect, PTL DEF KeysSpec, UploadKeepsKeys
=============================================================================
