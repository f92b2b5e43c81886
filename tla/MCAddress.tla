------------------------------ MODULE MCAddress ------------------------------
(***************************************************************************)
(* Texts for module Address: hosts of every kind, with and without         *)
(* brackets, with ports at the limits, and texts without a port; each on   *)
(* its own, and some in pairs, so that objects have addresses of different *)
(* texts, among them two of one address.                                   *)
(***************************************************************************)
EXTENDS Address

MCIps   == { <<"quad">>, <<"::">>, <<"0", "::">>, <<"::", "7">>, <<"7", "::", "7">> }
MCNames == { <<>>, <<"p">>, <<"name45">>, <<"name46">> }

MCPorts == { <<>>, <<"0">>, <<"0", "7">>, <<"6", "5", "5", "3", "5">>,
             <<"6", "5", "5", "3", "6">>, <<"6", "5", "5", "4", "3">>, <<"7", "p">> }

MCHostPorts == MCIps \X MCPorts \cup MCNames \X {<<"7">>, <<"7", "p">>}

MCTexts ==
  {hp[1] \o <<":">> \o hp[2] : hp \in MCHostPorts}
  \cup {<<"[">> \o hp[1] \o <<"]", ":">> \o hp[2] : hp \in MCHostPorts}
  \cup {host \o end : host \in MCIps \cup MCNames, end \in {<<>>, <<"]", ":", "7">>}}
  \cup {<<"[">> \o host \o <<":", "7">> : host \in MCIps \cup MCNames}
  \cup {<<"name107">>, <<"name108">>}

MCPaired == { <<"quad">>, <<"quad", ":", "0", "7">>, <<"::">>, <<"0", "::">>,
              <<"[", "::", "]", ":", "0", "7">>, <<"0", "::", ":", "0", "7">>,
              <<"quad", ":", "0">>, <<"name107">> }

MCTextSets == {{t} : t \in MCTexts} \cup {{t, u} : t, u \in MCPaired}

Symmetry == Permutations(Object)
=============================================================================
