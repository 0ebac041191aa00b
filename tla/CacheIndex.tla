---------------------------- MODULE CacheIndex ----------------------------
(***************************************************************************)
(* How a cache with any number of lines, of any number of words, splits an *)
(* address (cache_l1.hpp and cache_l2.hpp use the same arithmetic).        *)
(* Addresses are word addresses: shifts and masks lose the two lowest bits *)
(* of those of the code, which are 0 in the address of a word.             *)
(***************************************************************************)
LOCAL INSTANCE Integers

(* power_of_two of the constructors: 2^log2_l1CacheLines, where the loop    *)
(* counts the bits of lines - 1 and one is added for a cache of one line.   *)
PowerOfTwo(lines) ==
    IF lines = 1 THEN 2
    ELSE CHOOSE p \in {2^k : k \in 1 .. lines} : p >= lines /\ p < 2 * lines

(* The words of the line size that the loop over cacheLineSize finds the    *)
(* logarithm of: the greatest power of two that is not above it.            *)
FloorPower(words) ==
    CHOOSE p \in {2^k : k \in 0 .. words} : p <= words /\ words < 2 * p

(* address_int >> log2_cacheLineSize                                        *)
LineNumber(address, lineWords) == address \div FloorPower(lineWords)

(* address_int & (cacheLineSize - 1)                                        *)
Bit(n, k) == (n \div 2^k) % 2
Offset(address, lineWords) ==
    CHOOSE o \in 0 .. lineWords - 1 :
        \A k \in 0 .. lineWords - 1 :
            Bit(o, k) = Bit(address, k) * Bit(lineWords - 1, k)

Index(address, lineWords, lines) ==
    (LineNumber(address, lineWords) % PowerOfTwo(lines)) % lines

(* A mistake: the tag of a cache whose count is not a power of two lacks the *)
(* bit that its index does not use.                                         *)
ShortTag(address, lineWords, lines) ==
    LineNumber(address, lineWords) \div PowerOfTwo(lines)

(* A count that is not a power of two leaves one more bit in the tag.       *)
TagOf(address, lineWords, lines) ==
    LineNumber(address, lineWords)
        \div (IF PowerOfTwo(lines) # lines THEN PowerOfTwo(lines) \div 2
                                           ELSE lines)
=============================================================================
