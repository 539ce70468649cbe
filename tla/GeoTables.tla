------------------------------ MODULE GeoTables ------------------------------
(***************************************************************************)
(* The range tables behind country, IP and ASN blocking (geoip/table.go,   *)
(* asn.go) at a width of GTBits bits, with the machine's wrap-around: the  *)
(* merge of sorted ranges, the binary search over the result, and the      *)
(* split of an ASN's range into aligned prefixes for the firewall.         *)
(***************************************************************************)
EXTENDS Integers, Sequences

CONSTANTS
  GTBits,      (* the width of an address (32 or 128 in the code)           *)
  GTRanges     (* bound: ranges in a table                                  *)

ASSUME GTAssumption == GTBits \in Nat \ {0} /\ GTRanges \in Nat

VARIABLES
  gtKind,     (* "prefix" (Table) or "asn" (ASNTable)                       *)
  gtSource,   (* the ranges the table was loaded from                       *)
  gtIn,       (* the sorted ranges mergeRanges has yet to look at           *)
  gtOut,      (* the table                                                  *)
  gtSplit     (* cidrs4 in progress                                         *)
GTVars == <<gtKind, gtSource, gtIn, gtOut, gtSplit>>

(* 1 << k *)
Pow2[k \in 0..GTBits] == IF k = 0 THEN 1 ELSE 2 * Pow2[k - 1]

TopAddr == Pow2[GTBits] - 1
Addrs == 0..TopAddr
Wrap(n) == n % Pow2[GTBits]
Span(r) == r.start..r.end
NoSplit == [on |-> FALSE, start |-> 0, end |-> 0, from |-> 0, cidrs |-> <<>>]

(* v4Range, v6Range: the masked prefix's first and last address            *)
RangeOf(addr, ones) ==
  LET size == Pow2[GTBits - ones] IN [start |-> (addr \div size) * size, end |-> (addr \div size) * size + size - 1]
PrefixRanges == {RangeOf(a, ones) : a \in Addrs, ones \in 0..GTBits}
Spans == {r \in [start : Addrs, end : Addrs] : r.start <= r.end}
Disjoint(s) == \A i, j \in 1..Len(s) : i /= j => Span(s[i]) \cap Span(s[j]) = {}

(* SortFunc by start: ties in any order                                    *)
Sorts(s) == \A i, j \in 1..Len(s) : i < j => s[i].start <= s[j].start

(* A table's lines are prefixes; the ip2asn dataset's are disjoint ranges. *)
GTInit ==
  /\ gtKind \in {"prefix", "asn"}
  /\ \E n \in 0..GTRanges :
       /\ gtIn \in [1..n -> IF gtKind = "prefix" THEN PrefixRanges ELSE Spans]
       /\ Sorts(gtIn)
       /\ gtKind = "asn" => Disjoint(gtIn)
  /\ gtSource = {gtIn[i] : i \in 1..Len(gtIn)}
  /\ gtOut = <<>> /\ gtSplit = NoSplit

-----------------------------------------------------------------------------
(* Mutant: adjacent ranges only.                                           *)
JoinsAdjacent(last, r) == r.start = Wrap(last.end + 1)
(* r.start <= out[n-1].end+1, in the machine's arithmetic                  *)
Joins(last, r) == r.start <= Wrap(last.end + 1)

(* mergeRanges4, mergeRanges6: one range of the sorted input               *)
MergeOne ==
  /\ gtKind = "prefix" /\ gtIn /= <<>>
  /\ LET r == Head(gtIn)
         n == Len(gtOut)
     IN gtOut' = IF n > 0 /\ Joins(gtOut[n], r)
                 THEN [gtOut EXCEPT ![n].end = IF r.end > @ THEN r.end ELSE @]
                 ELSE Append(gtOut, r)
  /\ gtIn' = Tail(gtIn)
  /\ UNCHANGED <<gtKind, gtSource, gtSplit>>
(* ASNTable.sort only sorts.                                               *)
KeepSorted ==
  /\ gtKind = "asn" /\ gtIn /= <<>>
  /\ gtOut' = gtIn /\ gtIn' = <<>>
  /\ UNCHANGED <<gtKind, gtSource, gtSplit>>

(* sort.Search over 1..n: the first index whose end is not below x, if the *)
(* ends are in order                                                       *)
SearchEnd(t, x) ==
  LET n == Len(t)
      bisect[w \in (0..n) \X (0..n)] ==
        LET lo == w[1]
            hi == w[2]
            mid == (lo + hi) \div 2
        IN IF lo >= hi THEN lo
           ELSE IF t[mid + 1].end >= x THEN bisect[<<lo, mid>>] ELSE bisect[<<mid + 1, hi>>]
  IN bisect[<<0, n>>] + 1
(* Contains, Lookup                                                        *)
TableContains(t, x) == LET i == SearchEnd(t, x) IN IF i <= Len(t) THEN t[i].start <= x ELSE FALSE

-----------------------------------------------------------------------------
(* cidrs4: start & -start, halved until the block fits                     *)
Sizes == {Pow2[k] : k \in 0..(GTBits - 1)}
Largest(S) == CHOOSE s \in S : \A q \in S : q <= s
Aligned(start) == Largest({s \in Sizes : start % s = 0})
BlockSize(start, end) == Largest({s \in Sizes : s <= Aligned(start) /\ start + s - 1 <= end})

SplitBegins(r) ==
  /\ gtKind = "asn" /\ gtIn = <<>> /\ ~gtSplit.on /\ gtSplit.cidrs = <<>>
  /\ r \in gtSource
  /\ gtSplit' = [on |-> TRUE, start |-> r.start, end |-> r.end, from |-> r.start, cidrs |-> <<>>]
  /\ UNCHANGED <<gtKind, gtSource, gtIn, gtOut>>
(* One turn of the loop. A range that ends at the top address wraps start  *)
(* to zero and the loop never ends: only such ranges can emit more blocks  *)
(* than twice the width, and the model stops there.                        *)
SplitOne ==
  /\ gtSplit.on /\ gtSplit.start <= gtSplit.end /\ Len(gtSplit.cidrs) <= 2 * GTBits
  /\ LET size == BlockSize(gtSplit.start, gtSplit.end)
     IN gtSplit' = [gtSplit EXCEPT !.cidrs = Append(@, [start |-> gtSplit.start, end |-> gtSplit.start + size - 1]),
                                   !.start = Wrap(@ + size)]
  /\ UNCHANGED <<gtKind, gtSource, gtIn, gtOut>>
SplitEnds ==
  /\ gtSplit.on /\ gtSplit.start > gtSplit.end
  /\ gtSplit' = [gtSplit EXCEPT !.on = FALSE]
  /\ UNCHANGED <<gtKind, gtSource, gtIn, gtOut>>

GTNext == MergeOne \/ KeepSorted \/ (\E r \in gtSource : SplitBegins(r)) \/ SplitOne \/ SplitEnds
GTSpec == GTInit /\ [][GTNext]_GTVars

-----------------------------------------------------------------------------
Ready == gtIn = <<>>
(* A range up to the top address, where end+1 wraps, with a shorter one    *)
(* inside it                                                               *)
WrapsOver(S) == \E r, q \in S : r.end = TopAddr /\ q.start >= r.start /\ q.end < TopAddr

(* Ranges stay within the address space, and a range splits into at most   *)
(* two prefixes per address bit (mergeRanges4, cidrs4).                    *)
GTTypeOK ==
  /\ \A i \in 1..Len(gtOut) : gtOut[i] \in Spans
  /\ Len(gtSplit.cidrs) <= 2 * GTBits + 1
  /\ gtSplit.on /\ gtSplit.end /= TopAddr => Len(gtSplit.cidrs) <= 2 * GTBits

(* An address is found exactly when a source range holds it, unless a      *)
(* range up to the top address has a shorter one inside it.                *)
TableExact ==
  Ready /\ ~WrapsOver(gtSource) =>
    \A x \in Addrs : TableContains(gtOut, x) <=> \E r \in gtSource : x \in Span(r)

(* The prefixes given to the firewall tile the range exactly, each one     *)
(* aligned, and there are fewer than two a bit.                            *)
SplitExact ==
  LET p == gtSplit.cidrs IN
  (~gtSplit.on /\ p /= <<>>) =>
    /\ UNION {Span(p[i]) : i \in 1..Len(p)} = gtSplit.from..gtSplit.end
    /\ \A i, j \in 1..Len(p) : i /= j => Span(p[i]) \cap Span(p[j]) = {}
    /\ \A i \in 1..Len(p) : p[i] \in PrefixRanges
    /\ Len(p) < 2 * GTBits

(* The tables against plain sets of addresses: a lookup finds exactly the  *)
(* source ranges' addresses, and the prefixes tile the range they split    *)
(* (mergeRanges4, contains, cidrs4).                                       *)
GeoTablesExact ==
  /\ GTTypeOK
  /\ TableExact
  /\ SplitExact
=============================================================================
