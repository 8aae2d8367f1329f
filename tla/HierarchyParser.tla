--------------------------- MODULE HierarchyParser ---------------------------
(***************************************************************************)
(* From a dump of devices to the rows of one customer's hierarchy: the     *)
(* path of every device, split into segments, becomes a chain of nodes     *)
(* from the head office down to the device's leaf.                         *)
(*                                                                         *)
(* A segment is named by its normalized text; the node ids "<prefix>_HO",  *)
(* "<prefix>:<segment>" and the device's name are distinct values.         *)
(***************************************************************************)
EXTENDS SequencesExt

CONSTANTS
    HeadOffice,  \* the node id <prefix>_HO
    BankLike,    \* the segments that name the bank, its head office or the prefix
    None         \* no parent

\* split_full_path: the head office is put first where the path lacks it.
\* The first segment of the result stands for the head office.
SplitFullPath(path, device) ==
    IF path = <<>> THEN <<HeadOffice, device>>
    ELSE IF Head(path) \in BankLike THEN path
    ELSE <<HeadOffice>> \o path

\* The last segment is the device, whatever the path calls it; the first one is
\* the head office, unless it is the last.
Identifiers(path, device) ==
    LET parts == SplitFullPath(path, device) IN
    [i \in DOMAIN parts |-> IF i = Len(parts) THEN device
                            ELSE IF i = 1 THEN HeadOffice ELSE parts[i]]

\* parse_device_path
ParseDevicePath(report) ==
    LET ids == Identifiers(report.path, report.device) IN
    [i \in DOMAIN ids |-> [node |-> ids[i], parent |-> IF i = 1 THEN None ELSE ids[i - 1]]]

\* The nodes of a dump, device by device.
ParseDump(dump) == FlattenSeq([i \in DOMAIN dump |-> ParseDevicePath(dump[i])])

\* The rows are written in the order in which they appear from the end.
RowOrder(nodes) ==
    LET order[k \in 0 .. Len(nodes)] ==
          IF k = 0 THEN <<>>
          ELSE LET n == nodes[Len(nodes) + 1 - k].node IN
               IF n \in ToSet(order[k - 1]) THEN order[k - 1] ELSE Append(order[k - 1], n)
    IN order[Len(nodes)]

Occurrences(nodes, n) == {i \in DOMAIN nodes : nodes[i].node = n}
First(nodes, n) == CHOOSE i \in Occurrences(nodes, n) : \A j \in Occurrences(nodes, n) : i <= j

\* Mutant: the last occurrence of a node wins.
ParentsLast(nodes) ==
    [n \in {nodes[i].node : i \in DOMAIN nodes} |->
        nodes[CHOOSE i \in Occurrences(nodes, n) : \A j \in Occurrences(nodes, n) : j <= i].parent]

\* The first occurrence of a node wins.
Parents(nodes) == [n \in {nodes[i].node : i \in DOMAIN nodes} |-> nodes[First(nodes, n)].parent]

\* What upsert_nodes writes for a dump.
Deduped(nodes) == [order |-> RowOrder(nodes), parent |-> Parents(nodes)]
Batch(dump)    == Deduped(ParseDump(dump))
=============================================================================
