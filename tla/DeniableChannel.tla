-------------------------- MODULE DeniableChannel --------------------------
(***************************************************************************)
(* What a leg of the deniable transport promises: as long as nothing fails *)
(* the payloads that were submitted for an account come out for that       *)
(* account, whole, each exactly once and in the order of submission.       *)
(* After a failure payloads may be lost; what comes out still comes out    *)
(* once and in order.  Between accounts there is no order.                 *)
(***************************************************************************)
EXTENDS Naturals, Sequences

CONSTANTS Accounts, Lengths

VARIABLES
    sent,   \* submitted payloads, in order: [len, to]
    got,    \* numbers of the payloads that came out for each account
    lossy   \* something has failed: payloads may be missing

channelVars == <<sent, got, lossy>>

Init == sent = <<>> /\ got = [a \in Accounts |-> <<>>] /\ lossy = FALSE

Submit(len, a) ==
    /\ sent' = Append(sent, [len |-> len, to |-> a])
    /\ UNCHANGED <<got, lossy>>

Out(a) == {got[a][i] : i \in DOMAIN got[a]}

(* Payload id is the first one for account a that has not come out. *)
IsNextFor(id, a) ==
    /\ sent[id].to = a /\ id \notin Out(a)
    /\ \A j \in 1..(id - 1) : sent[j].to = a => j \in Out(a)

(* It is one of the later ones. *)
IsLaterFor(id, a) ==
    /\ sent[id].to = a
    /\ \A j \in Out(a) : j < id

Deliver(id, a) ==
    /\ IF lossy THEN IsLaterFor(id, a) ELSE IsNextFor(id, a)
    /\ got' = [got EXCEPT ![a] = Append(@, id)]
    /\ UNCHANGED <<sent, lossy>>

Fail ==
    /\ lossy' = TRUE
    /\ UNCHANGED <<sent, got>>

Next ==
    \/ \E len \in Lengths, a \in Accounts : Submit(len, a)
    \/ \E id \in DOMAIN sent, a \in Accounts : Deliver(id, a)
    \/ Fail

Spec == Init /\ [][Next]_channelVars
=============================================================================
