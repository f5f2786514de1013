------------------------------ MODULE Channel ------------------------------
(***************************************************************************)
(* The single-producer single-consumer ring of labs/multicore.h as the two *)
(* cores use it (apps/labs.cc): core 0 publishes frames and frees the      *)
(* slots it sees read, core 1 draws.  Core 0 owns w_head and d_head, core  *)
(* 1 owns r_head; each publishes one counter through an atomic of          *)
(* channel_t and works with the copy of the other's that it loaded last.   *)
(* The steps are the accesses to shared memory: the two atomics, and the   *)
(* slots, which are written and read in more than one instruction.         *)
(***************************************************************************)
EXTENDS Integers

CONSTANTS
    Size,      \* channel0_size, 4
    MaxCount,  \* where a counter stops: INT_MAX in the code
    Frames,    \* what shell_render can produce
    Torn       \* a slot, or a screen, that holds no whole frame

ASSUME SizeAssumption == Size \in Nat \ {0}
ASSUME MaxCountAssumption == MaxCount \in Nat \ {0}
ASSUME TornAssumption == Torn \notin Frames

VARIABLES
    ppc,     \* core 0: "idle", "construct", "release", "acquire", "destroy"
    w_head,  \* writeport_t.write_channel: frames written,
    r_seen,  \*   frames known to be read (its r_head),
    d_head,  \*   slots freed
    w_index, d_index,  \* channel0_writeport_{write,delete}_index_tmp
    frame,   \* rendertmp
    cpc,     \* core 1: "acquire", "render", "release"
    w_seen,  \* readport_t.read_channel: frames known to be written (its w_head),
    r_head,  \*   frames read
    r_index, \* channel0_readport_read_index_tmp
    w_pnt, r_pnt,  \* channel_t
    data,    \* channel0_data
    screen   \* what the VGA memory shows

prodVars == <<ppc, w_head, r_seen, d_head, w_index, d_index, frame, w_pnt>>
consVars == <<cpc, w_seen, r_head, r_index, r_pnt, screen>>
vars == <<ppc, w_head, r_seen, d_head, w_index, d_index, frame, w_pnt,
          cpc, w_seen, r_head, r_index, r_pnt, screen, data>>

Index == 0 .. Size - 1
Contents == Frames \cup {Torn}

TypeOK ==
    /\ ppc \in {"idle", "construct", "release", "acquire", "destroy"}
    /\ w_head \in 0 .. MaxCount /\ r_seen \in 0 .. MaxCount
    /\ d_head \in 0 .. MaxCount
    /\ w_index \in Index /\ d_index \in Index
    /\ frame \in Contents
    /\ cpc \in {"acquire", "render", "release"}
    /\ w_seen \in 0 .. MaxCount /\ r_head \in 0 .. MaxCount
    /\ r_index \in Index
    /\ w_pnt \in 0 .. MaxCount /\ r_pnt \in 0 .. MaxCount
    /\ data \in [Index -> Contents]
    /\ screen \in Contents

\* channel_t, writeport_t and readport_t are constructed; slots are not.
Init ==
    /\ ppc = "idle"
    /\ w_head = 0 /\ r_seen = 0 /\ d_head = 0
    /\ w_index = 0 /\ d_index = 0
    /\ frame = Torn
    /\ cpc = "acquire"
    /\ w_seen = 0 /\ r_head = 0
    /\ r_index = 0
    /\ w_pnt = 0 /\ r_pnt = 0
    /\ data = [i \in Index |-> Torn]
    /\ screen = Torn

(***************************************************************************)
(* Reserving                                                               *)
(***************************************************************************)

\* How far a is ahead of b, and 0 if the counters make no sense.
Ahead(a, b) == IF a - b >= 0 /\ Size >= a - b THEN a - b ELSE 0

WriteReserveSize ==
    IF w_head - d_head >= 0 /\ Size >= w_head - d_head
      THEN Size - w_head + d_head
      ELSE 0

\* Slip: the slot being read counts as read.
DeleteReserveSizeEager(r) == Ahead(r + 1, d_head)

DeleteReserveSize(r) == Ahead(r, d_head)

\* Slip: one frame more than was published.
ReadReserveSizeEager(w) == Ahead(w + 1, r_head)

ReadReserveSize(w) == Ahead(w, r_head)

(***************************************************************************)
(* Core 0                                                                  *)
(***************************************************************************)

\* shell_render made a frame; a slot is reserved and construct begins.
BeginConstruct ==
    /\ ppc = "idle"
    /\ w_head < MaxCount
    /\ WriteReserveSize >= 1
    /\ frame' \in Frames
    /\ w_index' = w_head % Size
    /\ data' = [data EXCEPT ![w_head % Size] = Torn]
    /\ ppc' = "construct"
    /\ UNCHANGED <<w_head, r_seen, d_head, d_index, w_pnt, consVars>>

\* The ring is full: the frame is dropped.
SkipWrite ==
    /\ ppc = "idle"
    /\ w_head < MaxCount => WriteReserveSize < 1
    /\ ppc' = "acquire"
    /\ UNCHANGED <<w_head, r_seen, d_head, w_index, d_index, frame, w_pnt, data,
                   consVars>>

EndConstruct ==
    /\ ppc = "construct"
    /\ data' = [data EXCEPT ![w_index] = frame]
    /\ ppc' = "release"
    /\ UNCHANGED <<w_head, r_seen, d_head, w_index, d_index, frame, w_pnt,
                   consVars>>

WriteRelease ==
    /\ ppc = "release"
    /\ w_head' = w_head + 1
    /\ w_pnt' = w_head'
    /\ ppc' = "acquire"
    /\ UNCHANGED <<r_seen, d_head, w_index, d_index, frame, data, consVars>>

\* read_acquire, and destroy begins if a slot has been read.
ReadAcquire ==
    /\ ppc = "acquire"
    /\ r_seen' = r_pnt
    /\ IF DeleteReserveSize(r_pnt) >= 1
         THEN /\ ppc' = "destroy"
              /\ d_index' = d_head % Size
              /\ data' = [data EXCEPT ![d_head % Size] = Torn]
         ELSE /\ ppc' = "idle"
              /\ UNCHANGED <<d_index, data>>
    /\ UNCHANGED <<w_head, d_head, w_index, frame, w_pnt, consVars>>

\* Slip: the slot is not given back.
DeleteReleaseLost ==
    /\ ppc = "destroy"
    /\ ppc' = "idle"
    /\ UNCHANGED <<w_head, r_seen, d_head, w_index, d_index, frame, w_pnt, data,
                   consVars>>

DeleteRelease ==
    /\ ppc = "destroy"
    /\ d_head' = d_head + 1
    /\ ppc' = "idle"
    /\ UNCHANGED <<w_head, r_seen, w_index, d_index, frame, w_pnt, data,
                   consVars>>

(***************************************************************************)
(* Core 1                                                                  *)
(***************************************************************************)

\* write_acquire, and render begins if there is a frame.
WriteAcquire ==
    /\ cpc = "acquire"
    /\ w_seen' = w_pnt
    /\ IF ReadReserveSize(w_pnt) >= 1
         THEN cpc' = "render" /\ r_index' = r_head % Size
         ELSE UNCHANGED <<cpc, r_index>>
    /\ UNCHANGED <<r_head, r_pnt, screen, prodVars, data>>

EndRender ==
    /\ cpc = "render"
    /\ screen' = data[r_index]
    /\ cpc' = "release"
    /\ UNCHANGED <<w_seen, r_head, r_index, r_pnt, prodVars, data>>

\* Slip: the shared counter is advanced, the private one is not.
ReadReleaseStale ==
    /\ cpc = "release"
    /\ r_pnt' = r_head + 1
    /\ cpc' = "acquire"
    /\ UNCHANGED <<w_seen, r_head, r_index, screen, prodVars, data>>

ReadRelease ==
    /\ cpc = "release"
    /\ r_head' = r_head + 1
    /\ r_pnt' = r_head'
    /\ cpc' = "acquire"
    /\ UNCHANGED <<w_seen, r_index, screen, prodVars, data>>

(***************************************************************************)
(* Specification                                                           *)
(***************************************************************************)

Producer == \/ BeginConstruct \/ SkipWrite \/ EndConstruct \/ WriteRelease
            \/ ReadAcquire \/ DeleteRelease

Consumer == WriteAcquire \/ EndRender \/ ReadRelease

Next == Producer \/ Consumer

\* Both cores loop for ever; neither waits for the other.
Spec == Init /\ [][Next]_vars /\ WF_vars(Producer) /\ WF_vars(Consumer)

(***************************************************************************)
(* Properties                                                              *)
(***************************************************************************)

One(b) == IF b THEN 1 ELSE 0

\* The invariant that heads labs/multicore.h, name by name: the counters and
\* their copies on the two cores are always in this order.
CountChain ==
    LET w_deleted      == d_head
        w_deleting     == d_head + One(ppc = "destroy")
        w_cached_read  == r_seen
        shared_read    == r_pnt
        r_reading      == r_head + One(cpc # "acquire")
        r_cached_write == w_seen
        shared_write   == w_pnt
        w_writing      == w_head + One(ppc \in {"construct", "release"})
    IN /\ w_deleted <= w_deleting
       /\ w_deleting <= w_cached_read
       /\ w_cached_read <= shared_read
       /\ shared_read <= r_reading
       /\ r_reading <= r_cached_write
       /\ r_cached_write <= shared_write
       /\ shared_write <= w_writing
       /\ w_writing <= w_deleted + Size

\* The cores are never in the same slot while one of them changes it.
NoSlotRace ==
    cpc = "render" => /\ ppc = "construct" => w_index # r_index
                      /\ ppc = "destroy" => d_index # r_index

\* The frames published and not yet drawn are whole, and in their slots.
drawn == r_head + One(cpc = "release")
queue == [k \in 1 .. w_pnt - drawn |-> data[(drawn + k - 1) % Size]]

\* The ring is the FIFO of FrameFifo: no frame is lost, repeated, reordered or
\* drawn half-written once it is published, and each is drawn in the end.
Fifo == INSTANCE FrameFifo WITH Blank <- Torn
IsFifo == Fifo!Spec

\* The ring never stays full: slots come back though core 0 frees at most one
\* per loop, after it tried to write.
NeverFullForever == []<>(w_head - d_head < Size)
=============================================================================
