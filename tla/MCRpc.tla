------------------------------- MODULE MCRpc -------------------------------
EXTENDS Rpc

\* An administrative share with a comment and two plain ones without.
ThreeShares ==
    <<[name |-> <<7>>, kind |-> [service |-> 3, special |-> TRUE, temporary |-> FALSE],
       comment |-> <<8, 9>>],
      [name |-> <<5, 6>>, kind |-> [service |-> 0, special |-> FALSE, temporary |-> TRUE],
       comment |-> <<>>],
      [name |-> <<4>>, kind |-> [service |-> 0, special |-> FALSE, temporary |-> FALSE],
       comment |-> <<>>]>>
HostName == <<92, 92, 1>>
=============================================================================
