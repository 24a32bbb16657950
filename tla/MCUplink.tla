------------------------------ MODULE MCUplink ------------------------------
(***************************************************************************)
(* Model-checking instances of Uplink: a history variable that remembers   *)
(* whether a request was sent twice, the budgets that the sizes of regular *)
(* messages give, and the size of a message as sent.                       *)
(***************************************************************************)
EXTENDS Uplink, FreeSpace

VARIABLE resent

MessageBudgets == {FreeSpaceInBytes(size) : size \in Sizes}

MCInit == Init /\ resent = FALSE
MCNext == Next /\ resent' = (resent \/ attempts' = 2)
MCSpec == MCInit /\ [][MCNext]_<<vars, resent>>
MCFairSpec == MCSpec /\ Fairness

(* The size of a message on the wire depends on its regular content only:  *)
(* whatever the deniable buffer holds, the vector of its chunks and its    *)
(* ballast are together exactly q times that content.  Neither the loop of *)
(* create_chunks nor the subtractions on usize gain or lose a byte.        *)
SizeIndependentOfBuffer ==
    cpc = "filling" =>
        /\ SizeOfAll(part) + free = budget
        /\ \E size \in Sizes :
              EmptyVecSize + SizeOfAll(part) + free = TotalFreeSpace(size)

(* Whatever is lost on the way (a stopped client, a broken socket, a       *)
(* refused request, an error or an abort of the handler, a flush that does *)
(* not see the whole buffer), a payload is put in the outgoing buffer of   *)
(* an account at most once and never after a later payload for it.  Only a *)
(* request that send_message sends a second time can repeat one.           *)
LossesKeepOrder == ~resent => InOrder
=============================================================================
