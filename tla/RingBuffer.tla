----------------------------- MODULE RingBuffer ------------------------------
(***************************************************************************)
(* The ring buffer of engine/RingBuffer/ring_buffer.go, in which a         *)
(* TcpClient keeps the bytes it has received and the bytes it has to send. *)
(* It grows when a write does not fit and halves whenever it becomes       *)
(* empty, down to no buffer at all.  size is a power of two or 0, so       *)
(* x & mask is x % size.                                                   *)
(***************************************************************************)
EXTENDS Integers, Sequences, FiniteSetsExt

CONSTANTS
    Byte,        \* values of a byte; 0 is what make() fills a buffer with
    InitSize,    \* size of the first allocation (4096)
    NewSizes,    \* arguments of New
    MaxLength,   \* bound: bytes in the buffer
    MaxWrite     \* bound: bytes of one Write

\* no divisor but 1 is odd
PowerOfTwo(n) == n > 0 /\ \A d \in 2..n : n % d = 0 => d % 2 = 0

ASSUME BufferAssumption ==
    /\ 0 \in Byte
    /\ InitSize \in Nat /\ PowerOfTwo(InitSize)
    /\ MaxLength \in Nat /\ MaxWrite \in Nat
    /\ NewSizes \subseteq Nat

VARIABLES
    buf, size,   \* the buffer and its size
    r, w,        \* next position to read, next position to write
    isEmpty,     \* tells an empty buffer from a full one when r = w
    got,         \* what the last Read or ReadByte returned
    content      \* history: the bytes written and not yet read or shifted out

vars == <<buf, size, r, w, isEmpty, got, content>>

\* CeilToPowerOfTwo; sizes are far from the width of an int
CeilToPowerOfTwo(n) == Min({k \in 2..(2 * n + 2) : PowerOfTwo(k) /\ k >= n})

Zeros(n) == [i \in 0..(n - 1) |-> 0]

Init ==
    /\ \E n \in NewSizes : size = IF n = 0 THEN 0 ELSE CeilToPowerOfTwo(n)
    /\ buf = Zeros(size)
    /\ r = 0 /\ w = 0
    /\ isEmpty = TRUE
    /\ got = << >>
    /\ content = << >>

(***************************************************************************)
(* Reading without moving                                                  *)
(***************************************************************************)

\* buf[i:j]
Slice(i, j) == [k \in 1..(j - i) |-> buf[i + k - 1]]

\* copy(b[at:], p)
Copy(b, at, p) ==
    [i \in DOMAIN b |-> IF at <= i /\ i < at + Len(p) THEN p[i - at + 1] ELSE b[i]]

Length ==
    IF r = w THEN IF isEmpty THEN 0 ELSE size
    ELSE IF w > r THEN w - r ELSE size - r + w

Free ==
    IF r = w THEN IF isEmpty THEN size ELSE 0
    ELSE IF w < r THEN r - w ELSE size - w + r

Least(i, j) == IF i < j THEN i ELSE j

\* LazyRead(n): head and tail together
LazyRead(n) ==
    LET m == Least(n, Length) IN
    IF isEmpty \/ n <= 0 THEN << >>
    ELSE IF w > r \/ r + m <= size THEN Slice(r, r + m)
    ELSE Slice(r, size) \o Slice(0, m - (size - r))

\* LazyReadAll, head and tail together, and ByteBuffer, which copies the same bytes
LazyReadAll ==
    IF isEmpty THEN << >>
    ELSE IF w > r THEN Slice(r, w)
    ELSE Slice(r, size) \o Slice(0, w)

(***************************************************************************)
(* Operations                                                              *)
(***************************************************************************)

\* the part of content behind the first n bytes
Rest(n) == SubSeq(content, n + 1, Len(content))

\* wrong variant: the size is halved twice
ResetTwice ==
    /\ isEmpty' = TRUE
    /\ r' = 0 /\ w' = 0
    /\ size' = size \div 2
    /\ buf' = Zeros(size \div 4)

\* Reset: halves the buffer
Reset ==
    /\ isEmpty' = TRUE
    /\ r' = 0 /\ w' = 0
    /\ size' = size \div 2
    /\ buf' = Zeros(size \div 2)

\* moves r by n of the m bytes in the buffer
Advance(n, m) ==
    IF n < m
    THEN r' = (r + n) % size /\ UNCHANGED <<buf, size, w, isEmpty>>
    ELSE Reset

\* Shift(n)
Shift(n) ==
    /\ n > 0
    /\ Advance(n, Length)
    /\ got' = << >>
    /\ content' = Rest(n)

\* a call of Reset from outside
ResetBuffer ==
    /\ Reset
    /\ got' = << >>
    /\ content' = << >>

\* wrong variant: the bytes behind the wrap-around are left out
ReadHeadOnly(n) ==
    LET m == Least(n, Length) IN
    /\ n > 0
    /\ ~isEmpty
    /\ got' = IF w > r THEN Slice(r, r + m) ELSE Slice(r, Least(r + m, size))
    /\ LET next == IF w > r THEN r + m ELSE (r + m) % size IN
       IF next = w THEN Reset ELSE r' = next /\ UNCHANGED <<buf, size, w, isEmpty>>
    /\ content' = Rest(m)

\* Read into a slice of n bytes
Read(n) ==
    LET m == Least(n, Length) IN
    /\ n > 0
    /\ ~isEmpty
    /\ got' = IF w > r \/ r + m <= size
              THEN Slice(r, r + m)
              ELSE Slice(r, size) \o Slice(0, m - (size - r))
    /\ LET next == IF w > r THEN r + m ELSE (r + m) % size IN
       IF next = w THEN Reset ELSE r' = next /\ UNCHANGED <<buf, size, w, isEmpty>>
    /\ content' = Rest(m)

ReadByte ==
    LET next == IF r + 1 = size THEN 0 ELSE r + 1 IN
    /\ ~isEmpty
    /\ got' = <<buf[r]>>
    /\ IF next = w THEN Reset ELSE r' = next /\ UNCHANGED <<buf, size, w, isEmpty>>
    /\ content' = Rest(1)

\* wrong variant: the old bytes stay at the place they had
MallocInPlace(need) ==
    LET newCap == IF size = 0 /\ need < InitSize THEN InitSize ELSE CeilToPowerOfTwo(size + need)
    IN  [buf |-> Copy(Zeros(newCap), r, LazyReadAll), size |-> newCap, r |-> 0, w |-> Length]

\* malloc(need): a larger buffer, with the old bytes at its beginning
Malloc(need) ==
    LET newCap == IF size = 0 /\ need < InitSize THEN InitSize ELSE CeilToPowerOfTwo(size + need)
    IN  [buf |-> Copy(Zeros(newCap), 0, LazyReadAll), size |-> newCap, r |-> 0, w |-> Length]

\* the buffer after room has been made for n more bytes
Prepared(n) ==
    IF n > Free THEN Malloc(n - Free) ELSE [buf |-> buf, size |-> size, r |-> r, w |-> w]

\* Write(p), and WriteString
Write(p) ==
    LET n == Len(p)
        b == Prepared(n)
        c1 == b.size - b.w
    IN  /\ n > 0
        /\ Len(content) + n <= MaxLength
        /\ IF b.w >= b.r /\ c1 < n
           THEN /\ buf' = Copy(Copy(b.buf, b.w, SubSeq(p, 1, c1)), 0, SubSeq(p, c1 + 1, n))
                /\ w' = IF n - c1 = b.size THEN 0 ELSE n - c1
           ELSE /\ buf' = Copy(b.buf, b.w, p)
                /\ w' = IF b.w + n = b.size THEN 0 ELSE b.w + n
        /\ size' = b.size /\ r' = b.r
        /\ isEmpty' = FALSE
        /\ got' = << >>
        /\ content' = content \o p

WriteByte(c) ==
    LET b == Prepared(1) IN
    /\ Len(content) < MaxLength
    /\ buf' = [b.buf EXCEPT ![b.w] = c]
    /\ w' = IF b.w + 1 = b.size THEN 0 ELSE b.w + 1
    /\ size' = b.size /\ r' = b.r
    /\ isEmpty' = FALSE
    /\ got' = << >>
    /\ content' = Append(content, c)

Next ==
    \/ \E n \in 1..(MaxLength + 1) : Shift(n) \/ Read(n)
    \/ ReadByte \/ ResetBuffer
    \/ \E n \in 1..MaxWrite : \E p \in [1..n -> Byte] : Write(p)
    \/ \E c \in Byte : WriteByte(c)

Spec == Init /\ [][Next]_vars
-----------------------------------------------------------------------------
(***************************************************************************)
(* Properties                                                              *)
(***************************************************************************)

\* Type invariant: the size is a power of two, the positions lie in the buffer
\* and an empty buffer begins at 0.
TypeOK ==
    /\ size \in Nat /\ (size = 0 \/ PowerOfTwo(size))
    /\ buf \in [0..(size - 1) -> Byte]
    /\ r \in 0..size /\ w \in 0..size
    /\ size > 0 => r < size /\ w < size
    /\ isEmpty => r = 0 /\ w = 0
    /\ ~isEmpty => size > 0

\* The buffer is a queue of bytes: through every wrap-around, growth and shrinking
\* LazyReadAll returns the bytes that were written and not yet consumed, in
\* order, LazyRead a prefix of them, and Length and Free count them.
ContentKept ==
    /\ LazyReadAll = content
    /\ \A n \in 0..(MaxLength + 1) : LazyRead(n) = SubSeq(content, 1, Least(n, Len(content)))
    /\ Length = Len(content)
    /\ Free = size - Len(content)

\* Read and ReadByte return the bytes that they remove.
ReadReturnsFront == [][got' # << >> => content = got' \o content']_vars
=============================================================================
