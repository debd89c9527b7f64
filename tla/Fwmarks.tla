------------------------------- MODULE Fwmarks -------------------------------
(***************************************************************************)
(* The marks keen-pbr puts on packets (config/config.cpp): what makes a    *)
(* fwmark.mask acceptable, how many marks it holds, and how                *)
(* allocate_outbound_marks() hands them out, two to each routable          *)
(* outbound, on words of WordBits bits (32 in the code).                   *)
(***************************************************************************)
EXTENDS Naturals, Sequences

CONSTANTS WordBits, NibbleBits

ASSUME WordAssumption ==
    /\ NibbleBits \in Nat \ {0}
    /\ WordBits \in Nat \ {0}
    /\ WordBits % NibbleBits = 0

Word == 2 ^ WordBits

Nibble == 2 ^ NibbleBits

(* mask & (~mask + 1)                                                      *)
LowestBit(mask) ==
    CHOOSE p \in {2 ^ b : b \in 0 .. (WordBits - 1)} : mask % p = 0 /\ mask % (2 * p) # 0

NormalizedMask(mask) == mask \div LowestBit(mask)

HasFullNibbles(n) ==
    n # 0 /\ \A k \in 0 .. (WordBits \div NibbleBits - 1) :
                 n \div (Nibble ^ k) # 0 => (n \div (Nibble ^ k)) % Nibble = Nibble - 1

(* validate_fwmark_mask()                                                  *)
ValidMask(mask) ==
    /\ mask # 0
    /\ \E k \in 0 .. (WordBits \div NibbleBits - 1) : LowestBit(mask) = Nibble ^ k
    /\ HasFullNibbles(NormalizedMask(mask))

(* One more than the normalized mask, in a word: a mask of ones holds none *)
MarkCapacity(mask) == (NormalizedMask(mask) + 1) % Word

(* allocate_outbound_marks() does not throw for n routable outbounds.      *)
Allocates(n, mask) ==
    ValidMask(mask) /\ \A k \in 1 .. n : (2 * (k - 1)) + 2 <= MarkCapacity(mask)

(* The k-th routable outbound in the order of tags: the mark of the user's *)
(* packets, and the mark of keen-pbr's own downloads and queries.          *)
UserMark(start, mask, k) == (start + (2 * (k - 1)) * LowestBit(mask)) % Word

DetourMark(start, mask, k) == (start + (2 * (k - 1) + 1) * LowestBit(mask)) % Word

(* mark & mask, for the masks that ValidMask accepts                       *)
Masked(mark, mask) ==
    LowestBit(mask) * ((mark \div LowestBit(mask)) % (NormalizedMask(mask) + 1))
==============================================================================
