-------------------------------- MODULE Keys --------------------------------
(***************************************************************************)
(* The keys of one account's devices: uploads (handle_put_keys) and        *)
(* requests for the keys that start a conversation                         *)
(* (handle_get_keys_id_device_id), by concurrent handlers.                 *)
(*                                                                         *)
(* A key is known by the request that uploaded it: an upload r brings the  *)
(* one-time keys [up |-> r, n |-> 1], [up |-> r, n |-> 2], ... and, where  *)
(* it has them, a signed key and a last resort key under a key id.         *)
(* Signatures are checked before anything is stored and are left out.      *)
(*                                                                         *)
(* Postgres (READ COMMITTED) is external: a statement sees the rows that   *)
(* were committed when it began, and a row it wants to delete that another *)
(* transaction has deleted meanwhile is skipped.                           *)
(***************************************************************************)
EXTENDS Integers, FiniteSets, FiniteSetsExt, Sequences

CONSTANTS
    Devices,      \* device ids of the account
    Bundled,      \* the devices whose bundle was stored: the registered one
    Kinds,        \* identities: "aci", "pni"
    KeyIds,       \* ids of signed keys; FirstId is that of the bundle
    FirstId,
    OneTime,      \* one-time keys of an upload that has any
    Uploads,      \* the sets of fields that uploads have
    Failures,     \* a handler may stop between two statements
    MaxRequests   \* bound: requests

ASSUME KeysAssumption ==
    /\ Devices # {} /\ Bundled \subseteq Devices
    /\ \A f \in Uploads : f \subseteq {"preKey", "signed", "pqPreKey", "lastResort"}
    /\ FirstId \in KeyIds /\ OneTime \in Nat \ {0} /\ Failures \in BOOLEAN /\ MaxRequests \in Nat

Requests == 1..MaxRequests
Fields == <<"preKey", "signed", "pqPreKey", "lastResort">>
Key == [up : Requests, n : 1..OneTime]

VARIABLES
    preKeys,    \* preKeys[d]: rows of one_time_ec_pre_key_store
    pqPreKeys,  \* pqPreKeys[d]: rows of one_time_pq_pre_key_store
    signed,     \* signed[d][k][i]: who uploaded the signed key of kind k with
                \* id i; 0: at registration; None: no such row
    lastResort, \* the same for the last resort keys
    stmt,       \* stmt[r]: the next statement of request r
    kind,       \* the identity it is about
    fields,     \* upload: the fields that are there
    keyId,      \* upload: the id of its signed keys
    devs,       \* the device, or the devices still to do
    seen,       \* the rows its current statement wants to delete
    handed      \* history: handed[r]: one-time keys given to request r

storeVars == <<preKeys, pqPreKeys, signed, lastResort>>
requestVars == <<stmt, kind, fields, keyId, devs, seen>>
keysVars == <<storeVars, requestVars, handed>>

None == -1

KeysTypeOK ==
    /\ preKeys \in [Devices -> SUBSET Key] /\ pqPreKeys \in [Devices -> SUBSET Key]
    /\ signed \in [Devices -> [Kinds -> [KeyIds -> Requests \cup {0, None}]]]
    /\ lastResort \in [Devices -> [Kinds -> [KeyIds -> Requests \cup {0, None}]]]
    /\ stmt \in [Requests -> {Fields[i] : i \in 1..4}
                \cup {"new", "commit", "bundle", "select", "take", "done", "failed"}]
    /\ kind \in [Requests -> Kinds] /\ keyId \in [Requests -> KeyIds]
    /\ fields \in [Requests -> SUBSET {Fields[i] : i \in 1..4}]
    /\ devs \in [Requests -> SUBSET Devices] /\ seen \in [Requests -> SUBSET Key]
    /\ handed \in [Requests -> SUBSET Key]

(* After registration: store_key_bundle has put the bundle's keys in the   *)
(* stores and made device_keys refer to their rows.                        *)
Bundle(d) ==
    [k \in Kinds |-> [i \in KeyIds |-> IF d \in Bundled /\ i = FirstId THEN 0 ELSE None]]

KeysInit ==
    /\ preKeys = [d \in Devices |-> {}] /\ pqPreKeys = [d \in Devices |-> {}]
    /\ signed = [d \in Devices |-> Bundle(d)] /\ lastResort = signed
    /\ stmt = [r \in Requests |-> "new"]
    /\ kind \in [Requests -> Kinds]
    /\ fields = [r \in Requests |-> {}] /\ keyId = [r \in Requests |-> FirstId]
    /\ devs = [r \in Requests |-> {}] /\ seen = [r \in Requests |-> {}]
    /\ handed = [r \in Requests |-> {}]

(* Requests come in one after the other. *)
Begins(r) == stmt[r] = "new" /\ (r > 1 => stmt[r - 1] # "new")

(* The device a handler is at: the order of the devices does not matter. *)
Dev(r) == CHOOSE d \in devs[r] : TRUE
OneTimeKeys(r) == {[up |-> r, n |-> i] : i \in 1..OneTime}
-----------------------------------------------------------------------------
(***************************************************************************)
(* Uploads: each field that is present is stored by a call of its own.     *)
(***************************************************************************)
NextField(there, i) ==
    LET later == {j \in i..4 : Fields[j] \in there}
    IN  IF later = {} THEN "done" ELSE Fields[Min(later)]

Put(r, d, f, i) ==
    /\ Begins(r)
    /\ fields' = [fields EXCEPT ![r] = f]
    /\ keyId' = [keyId EXCEPT ![r] = i]
    /\ devs' = [devs EXCEPT ![r] = {d}]
    /\ stmt' = [stmt EXCEPT ![r] = NextField(f, 1)]
    /\ UNCHANGED <<storeVars, kind, seen, handed>>

(* Mutant: the deletion is not part of the transaction. *)
StorePreKeysAtOnce(r) ==
    /\ stmt[r] = "preKey"
    /\ preKeys' = [preKeys EXCEPT ![Dev(r)] = {}]
    /\ stmt' = [stmt EXCEPT ![r] = "commit"]
    /\ UNCHANGED <<pqPreKeys, signed, lastResort, kind, fields, keyId, devs, seen, handed>>

(* store_one_time_ec_pre_keys: a transaction that deletes the keys of the  *)
(* device, of either identity, ...                                         *)
StorePreKeys(r) ==
    /\ stmt[r] = "preKey"
    /\ seen' = [seen EXCEPT ![r] = preKeys[Dev(r)]]
    /\ stmt' = [stmt EXCEPT ![r] = "commit"]
    /\ UNCHANGED <<storeVars, kind, fields, keyId, devs, handed>>

(* ... and inserts the new ones. *)
CommitPreKeys(r) ==
    /\ stmt[r] = "commit"
    /\ preKeys' = [preKeys EXCEPT ![Dev(r)] = (@ \ seen[r]) \cup OneTimeKeys(r)]
    /\ seen' = [seen EXCEPT ![r] = {}]
    /\ stmt' = [stmt EXCEPT ![r] = NextField(fields[r], 2)]
    /\ UNCHANGED <<pqPreKeys, signed, lastResort, kind, fields, keyId, devs, handed>>

(* store_aci_signed_pre_key, store_pni_signed_pre_key: a new row in the    *)
(* table of identity k, or an update of the one with this id.              *)
SignedRow(d, k, i, r) == [signed EXCEPT ![d][k][i] = r]

(* store_pq_aci_signed_pre_key, store_pq_pni_signed_pre_key: the same. *)
LastResortRow(d, k, i, r) == [lastResort EXCEPT ![d][k][i] = r]

(* store_signed_pre_key *)
StoreSigned(r) ==
    /\ stmt[r] = "signed"
    /\ signed' = SignedRow(Dev(r), kind[r], keyId[r], r)
    /\ stmt' = [stmt EXCEPT ![r] = NextField(fields[r], 3)]
    /\ UNCHANGED <<preKeys, pqPreKeys, lastResort, kind, fields, keyId, devs, seen, handed>>

(* store_one_time_pq_pre_keys, in one transaction; no handler reads them.  *)
StorePqPreKeys(r) ==
    /\ stmt[r] = "pqPreKey"
    /\ pqPreKeys' = [pqPreKeys EXCEPT ![Dev(r)] = OneTimeKeys(r)]
    /\ stmt' = [stmt EXCEPT ![r] = NextField(fields[r], 4)]
    /\ UNCHANGED <<preKeys, signed, lastResort, kind, fields, keyId, devs, seen, handed>>

(* store_pq_signed_pre_key *)
StoreLastResort(r) ==
    /\ stmt[r] = "lastResort"
    /\ lastResort' = LastResortRow(Dev(r), kind[r], keyId[r], r)
    /\ stmt' = [stmt EXCEPT ![r] = "done"]
    /\ UNCHANGED <<preKeys, pqPreKeys, signed, kind, fields, keyId, devs, seen, handed>>
-----------------------------------------------------------------------------
(***************************************************************************)
(* Requests for keys: of one device, or of all.                            *)
(***************************************************************************)
Get(r, ds) ==
    /\ Begins(r)
    /\ devs' = [devs EXCEPT ![r] = ds]
    /\ stmt' = [stmt EXCEPT ![r] = "bundle"]
    /\ UNCHANGED <<storeVars, kind, fields, keyId, seen, handed>>

(* get_key_bundle: without a row in device_keys the request fails. *)
GetBundle(r) ==
    /\ stmt[r] = "bundle"
    /\ stmt' = [stmt EXCEPT ![r] = IF Dev(r) \in Bundled THEN "select" ELSE "failed"]
    /\ UNCHANGED <<storeVars, kind, fields, keyId, devs, seen, handed>>

(* get_one_time_ec_pre_key: the subquery chooses a row of the device, of   *)
(* whatever identity, ...                                                  *)
SelectPreKey(r) ==
    /\ stmt[r] = "select"
    /\ \E s \in SUBSET preKeys[Dev(r)] :
        /\ Cardinality(s) = IF preKeys[Dev(r)] = {} THEN 0 ELSE 1
        /\ seen' = [seen EXCEPT ![r] = s]
    /\ stmt' = [stmt EXCEPT ![r] = "take"]
    /\ UNCHANGED <<storeVars, kind, fields, keyId, devs, handed>>

(* Rows that a transaction in progress has deleted are locked. *)
LockedRows == UNION {seen[q] : q \in {p \in Requests : stmt[p] = "commit"}}

(* Mutant: the row is selected with one statement, deleted with another. *)
TakeSelected(r) ==
    LET left == devs[r] \ {Dev(r)}
    IN  /\ stmt[r] = "take"
        /\ seen[r] \cap LockedRows = {}
        /\ preKeys' = [preKeys EXCEPT ![Dev(r)] = @ \ seen[r]]
        /\ handed' = [handed EXCEPT ![r] = @ \cup seen[r]]
        /\ seen' = [seen EXCEPT ![r] = {}]
        /\ devs' = [devs EXCEPT ![r] = left]
        /\ stmt' = [stmt EXCEPT ![r] = IF left = {} THEN "done" ELSE "bundle"]
        /\ UNCHANGED <<pqPreKeys, signed, lastResort, kind, fields, keyId>>

(* Mutant: the row is returned and not deleted. *)
TakeCopy(r) ==
    LET left == devs[r] \ {Dev(r)}
    IN  /\ stmt[r] = "take"
        /\ seen[r] \cap LockedRows = {}
        /\ handed' = [handed EXCEPT ![r] = @ \cup (seen[r] \cap preKeys[Dev(r)])]
        /\ seen' = [seen EXCEPT ![r] = {}]
        /\ devs' = [devs EXCEPT ![r] = left]
        /\ stmt' = [stmt EXCEPT ![r] = IF left = {} THEN "done" ELSE "bundle"]
        /\ UNCHANGED <<storeVars, kind, fields, keyId>>

(* ... and it is deleted and returned, if it is still there; then comes    *)
(* the next device.                                                        *)
TakePreKey(r) ==
    LET key == seen[r] \cap preKeys[Dev(r)]
        left == devs[r] \ {Dev(r)}
    IN  /\ stmt[r] = "take"
        /\ seen[r] \cap LockedRows = {}
        /\ preKeys' = [preKeys EXCEPT ![Dev(r)] = @ \ key]
        /\ handed' = [handed EXCEPT ![r] = @ \cup key]
        /\ seen' = [seen EXCEPT ![r] = {}]
        /\ devs' = [devs EXCEPT ![r] = left]
        /\ stmt' = [stmt EXCEPT ![r] = IF left = {} THEN "done" ELSE "bundle"]
        /\ UNCHANGED <<pqPreKeys, signed, lastResort, kind, fields, keyId>>

(* A statement fails, or the server stops: an open transaction is undone.  *)
Fail(r) ==
    /\ Failures /\ stmt[r] \notin {"new", "done", "failed"}
    /\ stmt' = [stmt EXCEPT ![r] = "failed"]
    /\ seen' = [seen EXCEPT ![r] = {}]
    /\ UNCHANGED <<storeVars, kind, fields, keyId, devs, handed>>
-----------------------------------------------------------------------------
KeysNext ==
    \E r \in Requests :
        \/ \E d \in Devices, f \in Uploads, i \in KeyIds : Put(r, d, f, i)
        \/ StorePreKeys(r) \/ CommitPreKeys(r) \/ StoreSigned(r)
        \/ StorePqPreKeys(r) \/ StoreLastResort(r)
        \/ \E ds \in {{d} : d \in Devices} \cup {Devices} : Get(r, ds)
        \/ GetBundle(r) \/ SelectPreKey(r) \/ TakePreKey(r)
        \/ Fail(r)

KeysSpec == KeysInit /\ [][KeysNext]_keysVars
-----------------------------------------------------------------------------
(* No one-time key is given to two requests, however uploads and requests  *)
(* overlap (get_one_time_ec_pre_key).                                      *)
HandedOnce == \A q, r \in Requests : q # r => handed[q] \cap handed[r] = {}

(* A key that was given out is no longer stored, so an upload that ends    *)
(* later cannot bring it back (store_one_time_ec_pre_keys).                *)
HandedIsGone ==
    \A r \in Requests : \A d \in Devices : handed[r] \cap preKeys[d] = {}

(* An upload, also one that fails half way, never leaves a device without  *)
(* one-time keys that had some: only giving out the last key does          *)
(* (store_one_time_ec_pre_keys is a transaction).                          *)
UploadKeepsKeys ==
    [][\A d \in Devices :
        preKeys[d] # {} /\ preKeys'[d] = {} => handed' # handed]_keysVars

-----------------------------------------------------------------------------
(***************************************************************************)
(* The inductive invariant behind HandedOnce and HandedIsGone.             *)
(***************************************************************************)
(* A one-time key is stored for one device. *)
StoredOnce == \A d, e \in Devices : d # e => preKeys[d] \cap preKeys[e] = {}

(* The keys of an upload are nowhere before it has committed them. *)
Uncommitted == {r \in Requests : stmt[r] \in {"new", "preKey", "commit"}}
NotBeforeCommit ==
    \A r \in Uncommitted :
        /\ \A d \in Devices : \A k \in preKeys[d] : k.up # r
        /\ \A q \in Requests : \A k \in handed[q] : k.up # r

(* A handler that is not over has a device to go on with. *)
HasDevice ==
    \A r \in Requests : stmt[r] \notin {"new", "done", "failed"} => devs[r] # {}

(* All of it: keys are stored once, given out once, gone then, and cannot  *)
(* be brought back by an upload or by the end of one.                      *)
KeysInv ==
    KeysTypeOK /\ HasDevice /\ StoredOnce /\ NotBeforeCommit /\ HandedIsGone /\ HandedOnce
=============================================================================
