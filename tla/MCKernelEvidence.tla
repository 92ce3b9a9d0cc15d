-------------------------- MODULE MCKernelEvidence --------------------------
(* Instance of KernelEvidence for TLC: two modules besides the withheld one, *)
(* a rebuild that needs a symbol of the other module or of a newer firmware, *)
(* one with another vermagic, two firmware images and two kernels.           *)
EXTENDS KernelEvidence

MCNeeds == [p \in Modules \X Builds |->
              CASE p = <<"n", 2>> -> {"s", "t"} [] p = <<"o", 2>> -> {"u"} [] OTHER -> {"s"}]
MCGives == [p \in Modules \X Builds |->
              CASE p = <<"n", 1>> -> {"u"} [] OTHER -> {}]
MCImages == { [builtin |-> {"s"}, modular |-> {}, kernel |-> 1],
              [builtin |-> {"s"}, modular |-> {"t", "u"}, kernel |-> 1],
              [builtin |-> {"s", "u"}, modular |-> {"t"}, kernel |-> 2] }
=============================================================================
