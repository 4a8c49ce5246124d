----------------------------- MODULE ScanInput -----------------------------
(***************************************************************************)
(* What the user asks the network scanner to scan: the parsers and the subnet *)
(* suggestions of src/core/iprange.cpp, the settings and refusals of           *)
(* src/qmlapi/networkscancontroller.cpp and the two fields of                  *)
(* qml/Base/BsNetworkScanDialog.qml.                                        *)
(*                                                                         *)
(* Addresses have AddressBits bits and octets OctetBits, so that all           *)
(* boundaries fit a small instance.  A range text is the form it is read as,   *)
(* its first address and one more number; labels in parentheses and blanks,    *)
(* which the parser removes, are left out.  A ports text is its list of parts. *)
(***************************************************************************)
EXTENDS Integers, Sequences, FiniteSets, SequencesExt, FiniteSetsExt

CONSTANTS
  AddressBits,   \* 32
  OctetBits,     \* 8
  MaxAddresses,  \* kMaxAddresses
  LastPort,      \* 65535
  MaxPorts,      \* kMaxPorts
  DefaultPorts,  \* "4840"
  RangeTexts,    \* what may be typed as a range
  PortTexts,     \* what may be typed as ports
  InterfaceLists \* what the PC's interfaces may be

VARIABLES
  interfaces,   \* the addresses of the running network interfaces
  open,         \* the dialog is shown
  rangeText, portsText,    \* its fields
  rangeError, portsError,  \* whether they have one
  lastRange, lastPorts,    \* settings scanner/lastRange and scanner/ports
  scanning,     \* the scanner's state is Scanning
  asked         \* the targets of the scan started last

inputVars == <<interfaces, open, rangeText, portsText, rangeError, portsError, lastRange,
               lastPorts, scanning, asked>>

-----------------------------------------------------------------------------
(* iprange.cpp                                                             *)

Pow2[n \in Nat] == IF n = 0 THEN 1 ELSE 2 * Pow2[n - 1]
Addresses == 0..Pow2[AddressBits] - 1
Refused   == [error |-> TRUE, list |-> <<>>]
NoText    == [form |-> "empty", base |-> 0, n |-> 0]

(* Addresses a network of this prefix has: one more than ~maskFor(prefix).  *)
BlockSize(prefix) == Pow2[AddressBits - prefix]
NetworkOf(address, prefix) == address - (address % BlockSize(prefix))

(* expand(): counted in 64 bits before any address is created.             *)
Expand(first, last) ==
  IF (last - first + 1) % Pow2[2 * AddressBits] > MaxAddresses THEN Refused
  ELSE [error |-> FALSE, list |-> [i \in 1..last - first + 1 |-> first + i - 1]]

ExpandCidr_Shorter(network, prefix) ==   \* mutant: < 30 for <= 30
  LET broadcast == network + BlockSize(prefix) - 1
  IN IF prefix < AddressBits - 2 THEN Expand(network + 1, broadcast - 1)
     ELSE Expand(network, broadcast)

ExpandCidr(network, prefix) ==
  LET broadcast == network + BlockSize(prefix) - 1
  IN IF prefix <= AddressBits - 2 THEN Expand(network + 1, broadcast - 1)
     ELSE Expand(network, broadcast)

ParseRange(text) ==
  CASE text.form = "cidr" /\ text.n \in 0..AddressBits ->
         ExpandCidr(NetworkOf(text.base, text.n), text.n)
    [] text.form = "octet" /\ text.n \in 0..Pow2[OctetBits] - 1 ->
         LET last == NetworkOf(text.base, AddressBits - OctetBits) + text.n
         IN IF last < text.base THEN Refused ELSE Expand(text.base, last)
    [] text.form = "range" ->
         IF text.n < text.base THEN Refused ELSE Expand(text.base, text.n)
    [] text.form = "single" -> Expand(text.base, text.base)
    [] OTHER -> Refused

(* Each port of a part once, whatever part named it first.                  *)
WithPorts(list, first, count) ==
  LET grown[k \in 0..count] ==
        IF k = 0 THEN list
        ELSE LET port == first + k - 1
             IN IF port \in ToSet(grown[k - 1]) THEN grown[k - 1] ELSE Append(grown[k - 1], port)
  IN grown[count]

(* One part of the ports; parts after an error are not looked at.          *)
ParsePart(sofar, part) ==
  LET count == part.last - part.first + 1
      list  == WithPorts(sofar.list, part.first, count)
  IN IF sofar.error \/ part.first < 1 \/ part.last > LastPort \/ part.last < part.first
        \/ count > MaxPorts \/ Len(list) > MaxPorts
     THEN Refused ELSE [error |-> FALSE, list |-> list]

ParsePorts(parts) ==
  LET result[k \in 0..Len(parts)] ==
        IF k = 0 THEN [error |-> FALSE, list |-> <<>>] ELSE ParsePart(result[k - 1], parts[k])
  IN IF result[Len(parts)].list = <<>> THEN Refused ELSE result[Len(parts)]

(* A network wider than a /24 is narrowed to the /24 of the PC.            *)
SubnetOf(entry) ==
  LET prefix == Max({entry.prefix, AddressBits - OctetBits})
  IN [form |-> "cidr", base |-> NetworkOf(entry.address, prefix), n |-> prefix]

SubnetsFromInterfaces(entries) ==
  LET Refuses(entry) == entry.kind # "IPv4" \/ entry.prefix \notin 1..AddressBits
      seen[k \in 0..Len(entries)] ==
        IF k = 0 THEN <<>>
        ELSE IF Refuses(entries[k]) \/ Contains(seen[k - 1], SubnetOf(entries[k]))
             THEN seen[k - 1] ELSE Append(seen[k - 1], SubnetOf(entries[k]))
  IN seen[Len(entries)]

(* What is typed and what the PC has: addresses and numbers, an address's prefix  *)
(* within its bits.  The PC's own subnet is within the limit of a scan.        *)
Parts == [first : Nat, last : Nat]
ASSUME InputAssumption ==
  /\ AddressBits \in Nat \ {0} /\ OctetBits \in 0..AddressBits
  /\ MaxAddresses \in Nat /\ Pow2[OctetBits] <= MaxAddresses
  /\ LastPort \in Nat /\ MaxPorts \in Nat
  /\ \A text \in RangeTexts :
       /\ text.base \in Addresses /\ text.n \in Nat
       /\ text.form = "range" => text.n \in Addresses
  /\ \A parts \in PortTexts \cup {DefaultPorts} : parts \in Seq(Parts)
  /\ ~ParsePorts(DefaultPorts).error
  /\ \A list \in InterfaceLists :
       /\ list \in Seq([kind : {"IPv4", "other"}, address : Addresses, prefix : Int])
       /\ \A i \in DOMAIN list : list[i].kind = "IPv4" => list[i].prefix <= AddressBits

-----------------------------------------------------------------------------
(* The dialog and the controller.                                          *)

Validate ==
  /\ rangeError' = ParseRange(rangeText').error
  /\ portsError' = ParsePorts(portsText').error

(* onAboutToShow                                                           *)
OpenDialog ==
  /\ ~open /\ open' = TRUE
  /\ LET suggested == SubnetsFromInterfaces(interfaces)
     IN rangeText' = IF lastRange # NoText THEN lastRange
                     ELSE IF suggested # <<>> THEN suggested[1] ELSE NoText
  /\ portsText' = lastPorts
  /\ Validate
  /\ UNCHANGED <<interfaces, lastRange, lastPorts, scanning, asked>>

CloseDialog ==
  /\ open /\ open' = FALSE /\ scanning' = FALSE
  /\ UNCHANGED <<interfaces, rangeText, portsText, rangeError, portsError, lastRange, lastPorts,
                 asked>>

(* The suggestions are the choices of the range field.                      *)
TypeRange(text) ==
  /\ open /\ ~scanning
  /\ rangeText' = text /\ UNCHANGED portsText
  /\ Validate
  /\ UNCHANGED <<interfaces, open, lastRange, lastPorts, scanning, asked>>

TypePorts(text) ==
  /\ open /\ ~scanning
  /\ portsText' = text /\ UNCHANGED rangeText
  /\ Validate
  /\ UNCHANGED <<interfaces, open, lastRange, lastPorts, scanning, asked>>

(* NetworkScanner::start(): every port of the first address, then the next.  *)
TargetsOf(hosts, ports) ==
  [i \in 1..Len(hosts) * Len(ports) |->
     <<hosts[(i - 1) \div Len(ports) + 1], ports[((i - 1) % Len(ports)) + 1]>>]

(* start() of the controller, behind the button the errors disable.         *)
StartScan ==
  /\ open /\ ~scanning /\ ~rangeError /\ ~portsError
  /\ LET hosts == ParseRange(rangeText)  ports == ParsePorts(portsText)
     IN /\ ~hosts.error /\ ~ports.error
        /\ asked' = TargetsOf(hosts.list, ports.list)
  /\ lastRange' = rangeText /\ lastPorts' = portsText
  /\ scanning' = TRUE
  /\ UNCHANGED <<interfaces, open, rangeText, portsText, rangeError, portsError>>

(* cancel() by the button, or the scan's own end                            *)
ScanStops ==
  /\ scanning /\ scanning' = FALSE
  /\ UNCHANGED <<interfaces, open, rangeText, portsText, rangeError, portsError, lastRange,
                 lastPorts, asked>>

(* The program is closed and started again, perhaps on another network.      *)
Restarted ==
  /\ interfaces' \in InterfaceLists
  /\ open' = FALSE /\ scanning' = FALSE
  /\ rangeText' = NoText /\ portsText' = <<>> /\ Validate
  /\ asked' = <<>>
  /\ UNCHANGED <<lastRange, lastPorts>>

InputInit ==
  /\ interfaces \in InterfaceLists
  /\ open = FALSE /\ scanning = FALSE
  /\ rangeText = NoText /\ portsText = <<>> /\ rangeError = TRUE /\ portsError = TRUE
  /\ lastRange = NoText /\ lastPorts = DefaultPorts
  /\ asked = <<>>

InputNext ==
  \/ OpenDialog \/ CloseDialog \/ StartScan \/ ScanStops \/ Restarted
  \/ \E text \in RangeTexts \cup ToSet(SubnetsFromInterfaces(interfaces)) : TypeRange(text)
  \/ \E text \in PortTexts : TypePorts(text)

InputSpec == InputInit /\ [][InputNext]_inputVars

-----------------------------------------------------------------------------
(* What a range text means, said without the parser's arithmetic: the hosts    *)
(* that share the prefix, without the two reserved addresses where there are   *)
(* others, or the addresses in between.                                      *)
HostPart(a, prefix) == a % BlockSize(prefix)
Meant(text) ==
  CASE text.form = "cidr" /\ text.n <= AddressBits ->
         {a \in Addresses :
            /\ a \div BlockSize(text.n) = text.base \div BlockSize(text.n)
            /\ BlockSize(text.n) > 2 => HostPart(a, text.n) \notin {0, BlockSize(text.n) - 1}}
    [] text.form = "octet" /\ text.n < Pow2[OctetBits] ->
         {a \in Addresses : /\ text.base <= a /\ a % Pow2[OctetBits] <= text.n
                            /\ a \div Pow2[OctetBits] = text.base \div Pow2[OctetBits]}
    [] text.form \in {"range", "single"} ->
         {a \in Addresses : text.base <= a /\ a <= IF text.form = "range" THEN text.n
                                                   ELSE text.base}
    [] OTHER -> {}

MeantPorts(parts) == UNION {parts[i].first..parts[i].last : i \in DOMAIN parts}
Wellformed(parts) ==
  \A i \in DOMAIN parts : 1 <= parts[i].first /\ parts[i].first <= parts[i].last
                          /\ parts[i].last <= LastPort

(* The fields' errors are exactly what they mean: nothing, or more than a scan *)
(* may cover; a scan covers what its input, remembered for the next time,      *)
(* means, each target once; and what the dialog offers by itself is accepted   *)
(* and lies in a network of the PC, whatever its prefix, on any later day.    *)
ScanIsWhatWasMeant ==
  /\ rangeError <=> Cardinality(Meant(rangeText)) \notin 1..MaxAddresses
  /\ portsError <=> \/ ~Wellformed(portsText)
                    \/ Cardinality(MeantPorts(portsText)) \notin 1..MaxPorts
  /\ asked # <<>> =>
       /\ ToSet(asked) = Meant(lastRange) \X MeantPorts(lastPorts)
       /\ Len(asked) = Cardinality(ToSet(asked))
  /\ ~ParsePorts(lastPorts).error
  /\ lastRange # NoText => ~ParseRange(lastRange).error
  /\ LET suggested == ToSet(SubnetsFromInterfaces(interfaces))
     IN \A entry \in ToSet(interfaces) :
          entry.kind = "IPv4" /\ entry.prefix > 0 =>
            \E text \in suggested :
              /\ ~ParseRange(text).error
              /\ text.n >= entry.prefix
              /\ Meant(text) \subseteq {a \in Addresses :
                   NetworkOf(a, entry.prefix) = NetworkOf(entry.address, entry.prefix)}
              /\ entry.address \in Meant(text)
                   \/ HostPart(entry.address, text.n) \in {0, BlockSize(text.n) - 1}
=============================================================================
