----------------------------- MODULE ClientStart -----------------------------
(***************************************************************************)
(* How a client comes to its account and its keys: Client::register and    *)
(* Client::login (client/src/client.rs), KeyManager (client/src/           *)
(* key_manager.rs) and the key tables of client/src/storage/device.rs.     *)
(*                                                                         *)
(* make_client (client/src/main.rs) registers when there is no database    *)
(* file and logs in when there is one.  A registration is a long sequence  *)
(* of SQL statements with two requests to the server among them, and any   *)
(* of them may be the last.  A key is named by its id; `published' holds   *)
(* what the server can give to a peer.  What peers do with it, and what    *)
(* the client does once it runs, is the subject of ClientStores, which     *)
(* composes this module with the protocol stores.                          *)
(***************************************************************************)
EXTENDS Integers, FiniteSetsExt, SequencesExt

CONSTANTS
  BundleSize,     \* one-time keys of a bundle (100 in the code)
  Faults          \* the client may crash, a request or its answer get lost

ASSUME StartAssumption ==
  /\ BundleSize \in Nat \ {0}
  /\ Faults \in BOOLEAN

Kinds == {"oneTime", "signed", "kyber"}

VARIABLES
  file,           \* the database file exists
  identity,       \* table IdentityKeys has its row
  account,        \* table Identity has its row (aci, pni and password)
  keys,           \* keys[k]: the ids in the table of keys of kind k
  next,           \* KeyManager.key_incrementer_map, in memory
  pc,             \* the next step of register(), or Off, or Running
  request,        \* ids collected for the next request to the server
  registered,     \* the server has the account with this client's password
  published,      \* published[k]: the ids the server can give out
  given           \* history: the ids of all keys ever published

server == <<registered, published, given>>
startVars == <<file, identity, account, keys, next, pc, request, server>>

None == [k \in Kinds |-> {}]

(* KeyManager::default.                                                    *)
FirstIds == [k \in Kinds |-> 1]

(* The steps of register(): the identity keys, the four keys of the        *)
(* request, the request, the row of the account, the bundle of             *)
(* generate_key_bundle, and its upload.                                    *)
AccountSteps == <<"identity", "signed", "signed", "kyber", "kyber", "register", "account">>
LastSteps    == <<"signed", "kyber", "publish">>

Registration ==
  [i \in 1..(2 * BundleSize + 10) |->
     CASE i \in 1..7                 -> AccountSteps[i]
       [] i \in 8..2 * BundleSize + 7 -> IF i % 2 = 0 THEN "oneTime" ELSE "kyber"
       [] OTHER                      -> LastSteps[i - 2 * BundleSize - 7]]

(* The client is not running; it is, and takes commands.                   *)
Off == 0
Running == 2 * BundleSize + 11

StartInit ==
  /\ file = FALSE
  /\ identity = FALSE
  /\ account = FALSE
  /\ keys = None
  /\ next = FirstIds
  /\ pc = Off
  /\ request = None
  /\ registered = FALSE
  /\ published = None
  /\ given = None

At(step) == pc \in DOMAIN Registration /\ Registration[pc] = step

Advance == pc' = pc + 1

-----------------------------------------------------------------------------
(* No database file: it is created, and the registration begins.           *)
Register ==
  /\ pc = Off
  /\ ~file
  /\ file' = TRUE
  /\ next' = FirstIds
  /\ request' = None
  /\ pc' = 1
  /\ UNCHANGED <<identity, account, keys>> /\ UNCHANGED server

InsertIdentity ==
  /\ At("identity")
  /\ identity' = TRUE
  /\ Advance
  /\ UNCHANGED <<file, account, keys, next, request>> /\ UNCHANGED server

(* save_pre_key, save_signed_pre_key and save_kyber_pre_key: an INSERT     *)
(* that replaces the row of the same id.                                   *)
SavePreKey(id)       == [keys EXCEPT !["oneTime"] = @ \cup {id}]
SaveSignedPreKey(id) == [keys EXCEPT !["signed"] = @ \cup {id}]
SaveKyberPreKey(id)  == [keys EXCEPT !["kyber"] = @ \cup {id}]

(* The key takes the next id of its kind, is saved, and only then is       *)
(* returned to become part of the next request.                            *)
Generated(k) ==
  /\ next' = [next EXCEPT ![k] = @ + 1]
  /\ request' = [request EXCEPT ![k] = @ \cup {next[k]}]
  /\ Advance
  /\ UNCHANGED <<file, identity, account>> /\ UNCHANGED server

GeneratePreKey ==
  /\ At("oneTime")
  /\ keys' = SavePreKey(next["oneTime"])
  /\ Generated("oneTime")

(* A signed key, and a post-quantum key, need the identity key pair.       *)
GenerateSignedPreKey ==
  /\ At("signed")
  /\ identity
  /\ keys' = SaveSignedPreKey(next["signed"])
  /\ Generated("signed")

GenerateKyberPreKey ==
  /\ At("kyber")
  /\ identity
  /\ keys' = SaveKyberPreKey(next["kyber"])
  /\ Generated("kyber")

(* The server gets the keys of a request.                                  *)
Publish ==
  /\ published' = [k \in Kinds |-> published[k] \cup request[k]]
  /\ given' = [k \in Kinds |-> given[k] \cup request[k]]

(* register_client: the server creates the account with the keys of the    *)
(* request and answers; or the answer, or the request, gets lost and the   *)
(* client ends.                                                            *)
RequestAccount ==
  /\ At("register")
  /\ \/ /\ registered' = TRUE
        /\ Publish
        /\ \/ Advance
           \/ Faults /\ pc' = Off
     \/ /\ Faults
        /\ pc' = Off
        /\ UNCHANGED <<registered, published, given>>
  /\ request' = None
  /\ UNCHANGED <<file, identity, account, keys, next>>

InsertAccount ==
  /\ At("account")
  /\ account' = TRUE
  /\ Advance
  /\ UNCHANGED <<file, identity, keys, next, request>> /\ UNCHANGED server

(* publish_pre_key_bundle.                                                 *)
PublishBundle ==
  /\ At("publish")
  /\ \/ /\ Publish
        /\ \/ Advance
           \/ Faults /\ pc' = Off
     \/ /\ Faults
        /\ pc' = Off
        /\ UNCHANGED <<published, given>>
  /\ request' = None
  /\ UNCHANGED <<file, identity, account, keys, next, registered>>

(* get_key_ids: the greatest id in a table, 0 if it is empty.              *)
GetKeyId(k) == IF keys[k] = {} THEN 0 ELSE Max(keys[k])

(* get_password, get_aci and get_pni find the row.                         *)
GetPassword == account
GetAci == account
GetPni == account

(* Mutant: the counters go on with the ids in the tables. *)
LoginReusesIds ==
  /\ pc = Off
  /\ file
  /\ account
  /\ registered
  /\ next' = [k \in Kinds |-> Max({GetKeyId(k), 1})]
  /\ pc' = Running
  /\ UNCHANGED <<file, identity, account, keys, request>> /\ UNCHANGED server

(* A database file: login() needs the password and the account.            *)
Login ==
  /\ pc = Off
  /\ file
  /\ GetPassword /\ GetAci /\ GetPni
  /\ registered
  /\ next' = [k \in Kinds |-> GetKeyId(k) + 1]
  /\ pc' = Running
  /\ UNCHANGED <<file, identity, account, keys, request>> /\ UNCHANGED server

StartNext ==
  \/ Register \/ InsertIdentity
  \/ GeneratePreKey \/ GenerateSignedPreKey \/ GenerateKyberPreKey
  \/ RequestAccount \/ InsertAccount \/ PublishBundle
  \/ Login

-----------------------------------------------------------------------------
(* A step makes at most one key. *)
Ids == 1..Running

(* Tables, counters and requests hold values of their types; ids start at  *)
(* 1.                                                                      *)
StartTypeOK ==
  /\ file \in BOOLEAN /\ identity \in BOOLEAN /\ account \in BOOLEAN
  /\ registered \in BOOLEAN
  /\ keys \in [Kinds -> SUBSET Ids]
  /\ request \in [Kinds -> SUBSET Ids]
  /\ published \in [Kinds -> SUBSET Ids]
  /\ given \in [Kinds -> SUBSET Ids]
  /\ next \in [Kinds -> Ids]
  /\ pc \in Off..Running

(* The row login() reads is there only for an account the server knows.    *)
AccountIsRegistered == account => registered

(* After login() the key manager goes on with ids under which no key is    *)
(* stored, so that a new key never replaces one that a peer may still use; *)
(* an id of a signed or post-quantum key was never published before        *)
(* either.  (The id of a one-time key may have been: the key is removed    *)
(* when it is used, and get_key_ids only sees what is left.)               *)
IdsUnused ==
  pc = Running =>
    \A k \in Kinds : /\ next[k] \notin keys[k] \cup published[k]
                     /\ k # "oneTime" => next[k] \notin given[k]
=============================================================================
