------------------------------ MODULE Accounts ------------------------------
(***************************************************************************)
(* Accounts and devices: registration, linking a device with a token,      *)
(* deleting devices and accounts.  Each handler is a sequence of database  *)
(* statements that commit one by one, and handlers run concurrently.       *)
(*                                                                         *)
(* Accounts are numbered in the order of their creation (a new ACI each    *)
(* time); a device is its account, its device id and the link token that   *)
(* made it, or 0 for the primary device.  Signatures, capabilities and the *)
(* age of a link token only decide whether a handler goes on: a request    *)
(* that is refused before its first change of the database changes         *)
(* nothing, and any request may be.                                        *)
(***************************************************************************)
EXTENDS Integers, Sequences, FiniteSets, FiniteSetsExt

CONSTANTS
    Phones,       \* phone numbers
    Handlers,     \* concurrent requests
    Faults,       \* a handler may stop between two statements
    MaxAccounts,  \* bound: accounts ever created
    MaxTokens     \* bound: link tokens ever issued

ASSUME AccountsAssumption ==
    Faults \in BOOLEAN /\ MaxAccounts \in Nat /\ MaxTokens \in Nat

VARIABLES
    phone,     \* phone[a]: the phone number of account a
    live,      \* the accounts in the table accounts
    devices,   \* the table devices
    bundles,   \* the devices with a row in device_keys
    tokens,    \* tokens[t]: the account link token t was issued for
    used,      \* the table used_device_link_tokens
    pc,        \* pc[h]: the next statement of handler h
    acc,       \* acc[h]: the account it works on
    arg,       \* arg[h]: its link token, or the id of the device to delete
    ids,       \* ids[h]: device ids it read
    \* history
    rows,      \* every device that was ever in the table
    known,     \* accounts whose registration was answered
    answered   \* devices whose link request was answered

tableVars == <<phone, live, devices, bundles, tokens, used>>
handlerVars == <<pc, acc, arg, ids>>
history == <<rows, known, answered>>
vars == <<tableVars, handlerVars, history>>

Accs == 1..MaxAccounts
Device == [acc : Accs, id : Nat, by : 0..MaxTokens]
Primary(a) == [acc |-> a, id |-> 1, by |-> 0]

TypeOK ==
    /\ phone \in Seq(Phones) /\ live \subseteq 1..Len(phone)
    /\ devices \subseteq Device /\ bundles \subseteq devices /\ devices \subseteq rows
    /\ \A d \in devices : d.acc \in live
    /\ tokens \in Seq(Accs) /\ used \subseteq DOMAIN tokens
    /\ pc \in [Handlers -> {"idle", "regDevice", "regBundle", "linkToken", "linkDevice",
                            "delAccount", "delDevice"}]
    /\ acc \in [Handlers -> Accs \cup {0}] /\ arg \in [Handlers -> Nat]
    /\ ids \in [Handlers -> SUBSET Nat]
    /\ rows \subseteq Device /\ known \subseteq Accs /\ answered \subseteq Device

Init ==
    /\ phone = <<>> /\ live = {} /\ devices = {} /\ bundles = {}
    /\ tokens = <<>> /\ used = {}
    /\ pc = [h \in Handlers |-> "idle"] /\ acc = [h \in Handlers |-> 0]
    /\ arg = [h \in Handlers |-> 0] /\ ids = [h \in Handlers |-> {}]
    /\ rows = {} /\ known = {} /\ answered = {}

-----------------------------------------------------------------------------
(* get_all_devices: the rows of an account. *)
GetAllDevices(a) == {d \in devices : d.acc = a}

(* SaltedTokenHash::verify: the password belongs to the device of the row. *)
(* Every device is given one of its own when it is registered or linked.   *)
Verify(row, d) == row = d

(* from_request_parts and authenticate_device, for a request of device d,  *)
(* which may have been deleted and its id given to another: the account is *)
(* read with its devices, the one with the id of d found, its password     *)
(* compared.  The request goes on with what was read here.                 *)
AuthenticateDevice(d) ==
    /\ d.acc \in known \cap live
    /\ \E row \in GetAllDevices(d.acc) : row.id = d.id /\ Verify(row, d)

(* Handler h goes on with statement p; or it is over. *)
Begin(h, p, a, x, i) ==
    /\ pc' = [pc EXCEPT ![h] = p] /\ acc' = [acc EXCEPT ![h] = a]
    /\ arg' = [arg EXCEPT ![h] = x] /\ ids' = [ids EXCEPT ![h] = i]

Finish(h) == Begin(h, "idle", 0, 0, {})
Goto(h, p) == pc' = [pc EXCEPT ![h] = p] /\ UNCHANGED <<acc, arg, ids>>
-----------------------------------------------------------------------------
(***************************************************************************)
(* Registration: handle_post_registration.                                 *)
(***************************************************************************)
(* create_account: the phone numbers are UNIQUE. *)
PhoneInUse(p) == \E b \in live : phone[b] = p

(* add_account, first statement. *)
RegisterAccount(h, p) ==
    LET a == Len(phone) + 1
    IN  /\ pc[h] = "idle" /\ a <= MaxAccounts
        /\ ~PhoneInUse(p)
        /\ phone' = Append(phone, p)
        /\ live' = live \cup {a}
        /\ Begin(h, "regDevice", a, 0, {})
        /\ UNCHANGED <<devices, bundles, tokens, used, history>>

(* add_account, second statement: add_device with id 1. *)
RegisterDevice(h) ==
    /\ pc[h] = "regDevice"
    /\ devices' = devices \cup {Primary(acc[h])}
    /\ rows' = rows \cup {Primary(acc[h])}
    /\ Goto(h, "regBundle")
    /\ UNCHANGED <<phone, live, bundles, tokens, used, known, answered>>

(* Mutant: a failure to store the keys is not reported. *)
RegisterBundleUnchecked(h) ==
    /\ pc[h] = "regBundle"
    /\ bundles' \in {bundles, bundles \cup {Primary(acc[h])}}
    /\ known' = known \cup {acc[h]}
    /\ Finish(h)
    /\ UNCHANGED <<phone, live, devices, tokens, used, rows, answered>>

(* store_key_bundle is one transaction; then the request is answered. *)
RegisterBundle(h) ==
    /\ pc[h] = "regBundle"
    /\ bundles' = bundles \cup {Primary(acc[h])}
    /\ known' = known \cup {acc[h]}
    /\ Finish(h)
    /\ UNCHANGED <<phone, live, devices, tokens, used, rows, answered>>
-----------------------------------------------------------------------------
(***************************************************************************)
(* Linking.                                                                *)
(***************************************************************************)
(* handle_get_link_device_token: for primary devices only. *)
GetToken(d) ==
    /\ AuthenticateDevice(d) /\ d.id = 1
    /\ Len(tokens) < MaxTokens
    /\ tokens' = Append(tokens, d.acc)
    /\ UNCHANGED <<phone, live, devices, bundles, used, handlerVars, history>>

(* handle_post_link_device: the token is checked and the account read with *)
(* its devices.                                                            *)
LinkRead(h, t) ==
    LET a == tokens[t]
    IN  /\ pc[h] = "idle" /\ a \in live
        /\ Begin(h, "linkToken", a, t, {d.id : d \in GetAllDevices(a)})
        /\ UNCHANGED <<tableVars, history>>

(* Mutant: a token that is in the table is accepted. *)
LinkTokenAgain(h) ==
    /\ pc[h] = "linkToken"
    /\ used' = used \cup {arg[h]}
    /\ Goto(h, "linkDevice")
    /\ UNCHANGED <<phone, live, devices, bundles, tokens, history>>

(* add_used_device_link_token: the column is UNIQUE. *)
LinkToken(h) ==
    /\ pc[h] = "linkToken"
    /\ IF arg[h] \in used
       THEN Finish(h) /\ UNCHANGED used
       ELSE used' = used \cup {arg[h]} /\ Goto(h, "linkDevice")
    /\ UNCHANGED <<phone, live, devices, bundles, tokens, history>>

(* get_next_device_id *)
NextId(h) == Max(ids[h]) + 1

(* The device that handle_post_link_device builds and answers with. *)
LinkedDevice(h) == [acc |-> acc[h], id |-> NextId(h), by |-> arg[h]]

(* add_device: the row is selected from the account, so nothing happens    *)
(* when that is gone; a device id in use is an error (UNIQUE); then the    *)
(* request is answered.                                                    *)
LinkDevice(h) ==
    LET d == LinkedDevice(h)
        new == IF acc[h] \in live THEN {d} ELSE {}
    IN  /\ pc[h] = "linkDevice"
        /\ IF \E e \in devices : e.acc = d.acc /\ e.id = d.id
           THEN UNCHANGED <<devices, rows, answered>>
           ELSE /\ devices' = devices \cup new
                /\ rows' = rows \cup new
                /\ answered' = answered \cup {d}
        /\ Finish(h)
        /\ UNCHANGED <<phone, live, bundles, tokens, used, known>>
-----------------------------------------------------------------------------
(***************************************************************************)
(* Deleting.                                                               *)
(***************************************************************************)
(* A device of the account is authenticated for delete_account_endpoint. *)
DeleteAccountRequest(h, d) ==
    /\ pc[h] = "idle" /\ AuthenticateDevice(d)
    /\ Begin(h, "delAccount", d.acc, 0, {})
    /\ UNCHANGED <<tableVars, history>>

(* delete_account: devices and their keys go with it (ON DELETE CASCADE). *)
DeleteAccount(h) ==
    /\ pc[h] = "delAccount"
    /\ live' = live \ {acc[h]}
    /\ devices' = {d \in devices : d.acc # acc[h]}
    /\ bundles' = {d \in bundles : d.acc # acc[h]}
    /\ Finish(h)
    /\ UNCHANGED <<phone, tokens, used, history>>

(* handle_delete_device: device d may delete itself, the primary device    *)
(* any device, but the primary device is not deleted.                      *)
DeleteDeviceRequest(h, d, i) ==
    /\ pc[h] = "idle" /\ AuthenticateDevice(d)
    /\ d.id = 1 \/ d.id = i
    /\ i # 1
    /\ Begin(h, "delDevice", d.acc, i, {})
    /\ UNCHANGED <<tableVars, history>>

(* delete_device *)
DeleteDevice(h) ==
    /\ pc[h] = "delDevice"
    /\ devices' = {d \in devices : ~(d.acc = acc[h] /\ d.id = arg[h])}
    /\ bundles' = {d \in bundles : ~(d.acc = acc[h] /\ d.id = arg[h])}
    /\ Finish(h)
    /\ UNCHANGED <<phone, live, tokens, used, history>>

(* A statement fails, or the server stops. *)
Abort(h) ==
    /\ Faults /\ pc[h] # "idle"
    /\ Finish(h)
    /\ UNCHANGED <<tableVars, history>>
-----------------------------------------------------------------------------
Next ==
    \/ \E h \in Handlers :
        \/ \E p \in Phones : RegisterAccount(h, p)
        \/ RegisterDevice(h) \/ RegisterBundle(h)
        \/ \E t \in DOMAIN tokens : LinkRead(h, t)
        \/ LinkToken(h) \/ LinkDevice(h)
        \/ \E d \in rows : \/ DeleteAccountRequest(h, d)
                           \/ \E i \in {e.id : e \in devices} : DeleteDeviceRequest(h, d, i)
        \/ DeleteAccount(h) \/ DeleteDevice(h) \/ Abort(h)
    \/ \E d \in rows : GetToken(d)

Spec == Init /\ [][Next]_vars
-----------------------------------------------------------------------------
(* A handler that links a device has read the account with its primary     *)
(* device: the expectations of has_capability ("User always has a primary  *)
(* device") and get_next_device_id ("Will always have some device") hold.  *)
LinkFindsPrimary ==
    \A h \in Handlers : pc[h] \in {"linkToken", "linkDevice"} => 1 \in ids[h]

(* A link token makes at most one device, however often and concurrently   *)
(* it is used (handle_post_link_device).                                   *)
TokenOnce == \A d, e \in rows : d.by = e.by /\ d.by # 0 => d = e

(* Whoever was answered that a device was linked got a device of its own,  *)
(* unless the account was deleted (handle_post_link_device).               *)
LinkedHasRow == \A d \in answered : d \in rows \/ d.acc \notin live

(* An account whose registration was answered has, until it is deleted,    *)
(* its primary device with a key bundle (handle_post_registration).        *)
RegisteredComplete == \A a \in known \cap live : Primary(a) \in bundles

(* The types of all variables, LinkFindsPrimary, LinkedHasRow and          *)
(* RegisteredComplete: whatever other handlers do between the statements   *)
(* of one, it finds what it expects and what was answered is true.         *)
AccountsInv == TypeOK /\ LinkFindsPrimary /\ LinkedHasRow /\ RegisteredComplete
=============================================================================
