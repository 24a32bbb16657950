----------------------------- MODULE MCDownlink -----------------------------
(***************************************************************************)
(* Model-checking instances of Downlink: the budgets that the sizes of     *)
(* regular messages give, and the size of a message as sent.               *)
(***************************************************************************)
EXTENDS Downlink, FreeSpace

MessageBudgets == {FreeSpaceInBytes(size) : size \in Sizes}

(* The size of a message to a device depends on its regular content only:  *)
(* whatever the outgoing payload buffer holds, the vector of the chunks    *)
(* dequeued and the ballast are together exactly q times that content,     *)
(* usize subtractions included.                                            *)
SizeIndependentOfBuffer ==
    spc = "filling" =>
        /\ SizeOfAll(part) + take = budget
        /\ \E size \in Sizes :
              EmptyVecSize + SizeOfAll(part) + take = TotalFreeSpace(size)
=============================================================================
