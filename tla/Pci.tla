-------------------------------- MODULE Pci --------------------------------
(***************************************************************************)
(* The search of the PCI bus for the network card (drivers/pci.c): one     *)
(* step per function that is probed, the loop counters with their widths,  *)
(* and the configuration registers as double words of two words each.      *)
(***************************************************************************)
EXTENDS Integers

CONSTANTS BUSES, SLOTS, FUNCS   \* 256, 32, 8

ASSUME PciAssumption == {BUSES, SLOTS, FUNCS} \subseteq Nat \ {0}

VARIABLES config,            \* external: the registers of every position
          bus, slot, func, probe_pc, found

busVars == <<config, bus, slot, func, probe_pc, found>>

Positions == (0 .. BUSES - 1) \X (0 .. SLOTS - 1) \X (0 .. FUNCS - 1)
Absent == 65535              \* 0xFFFF, what a read of no device returns
Wanted == [vendor |-> 4332, device |-> 32809]

\* The first double word of a position: device in the high half.
Cards == {[low |-> Absent, high |-> Absent],
          [low |-> Wanted.vendor, high |-> Wanted.device],
          [low |-> Wanted.device, high |-> Wanted.vendor]}

BusInit ==
  /\ config \in [Positions -> Cards]
  /\ bus = 0 /\ slot = 0 /\ func = 0 /\ probe_pc = "probe" /\ found = <<>>

pci_config_read_word(p, offset) ==
  IF (offset % 4) \div 2 = 0 THEN config[p].low ELSE config[p].high

\* uint16_t bus, uint8_t slot and func: the loop conditions can fail.
Widths_Mut == [bus |-> BUSES, slot |-> 2 * SLOTS, func |-> 2 * FUNCS]

Widths == [bus |-> 256 * BUSES, slot |-> 8 * SLOTS, func |-> 32 * FUNCS]

NextSlot ==
  /\ func' = 0
  /\ LET s == (slot + 1) % Widths.slot
         b == (bus + 1) % Widths.bus
     IN  IF s < SLOTS THEN slot' = s /\ UNCHANGED <<bus, probe_pc>>
         ELSE /\ slot' = 0 /\ bus' = b
              /\ probe_pc' = IF b < BUSES THEN "probe" ELSE "absent"

NextFunc ==
  LET f == (func + 1) % Widths.func
  IN  IF f < FUNCS THEN func' = f /\ UNCHANGED <<bus, slot, probe_pc>> ELSE NextSlot

EmptyProbe == IF func = 0 THEN NextSlot ELSE NextFunc

Matches(p) ==
  /\ pci_config_read_word(p, 0) = Wanted.vendor
  /\ pci_config_read_word(p, 2) = Wanted.device

Probe ==
  /\ probe_pc = "probe"
  /\ LET p == <<bus, slot, func>>
     IN  IF pci_config_read_word(p, 0) = Absent THEN EmptyProbe /\ UNCHANGED found
         ELSE IF Matches(p)
         THEN found' = p /\ probe_pc' = "found" /\ UNCHANGED <<bus, slot, func>>
         ELSE NextFunc /\ UNCHANGED found
  /\ UNCHANGED config

BusNext == Probe

BusSpec == BusInit /\ [][BusNext]_busVars

-----------------------------------------------------------------------------
BusTypeOK ==
  /\ config \in [Positions -> Cards] /\ probe_pc \in {"probe", "found", "absent"}
  /\ probe_pc = "probe" => <<bus, slot, func>> \in Positions
  /\ found \in Positions \cup {<<>>}

IsWanted(p) == config[p].low = Wanted.vendor /\ config[p].high = Wanted.device
Reachable(p) == config[<<p[1], p[2], 0>>].low # Absent

\* The search reports the card if and only if some slot holds it, also as a
\* function after an empty one, provided the slot has a function 0.
FindsTheCard ==
  /\ probe_pc = "found" => IsWanted(found)
  /\ probe_pc = "absent" => \A p \in Positions : ~(IsWanted(p) /\ Reachable(p))

\* ... and it ends, though the last bus is the largest value of a byte: every
\* probe but the last is of a position further on.
Place == (bus * SLOTS + slot) * FUNCS + func
SearchSound ==
  /\ [](BusTypeOK /\ FindsTheCard)
  /\ [][probe_pc' = "probe" => Place' > Place]_busVars

=============================================================================
