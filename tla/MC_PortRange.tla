------------------------------ MODULE MC_PortRange ------------------------------
(* PortRange with ranges at the top of the port space, where the offset    *)
(* check and a range whose low end exceeds its high end matter.            *)
EXTENDS PortRange

MCOptionSets ==
    { [limit |-> TRUE,  low |-> 65533, high |-> 65535, offset |-> 0],
      [limit |-> TRUE,  low |-> 65535, high |-> 65534, offset |-> 1],
      [limit |-> TRUE,  low |-> 65533, high |-> 65534, offset |-> -65533],
      [limit |-> TRUE,  low |-> 65535, high |-> 65535, offset |-> 1],
      [limit |-> FALSE, low |-> 65533, high |-> 65535, offset |-> 0] }

=============================================================================
