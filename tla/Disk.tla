-------------------------------- MODULE Disk ---------------------------------
(***************************************************************************)
(* What the installer's block layer (limine.c, device_read_raw and         *)
(* device_write_raw) promises: a disk whose bytes read back as they were   *)
(* last written, whatever is still on its way to the medium.               *)
(*                                                                         *)
(* content is the disk as the program sees it, stable is the medium.  One  *)
(* request is served at a time, in any number of pieces, and may be given  *)
(* up after any of them.                                                   *)
(***************************************************************************)
EXTENDS Integers, Sequences

CONSTANTS
    Addr,           \* the byte addresses of the medium
    Request,        \* [kind, loc, data]: data is what to write or, in a read,
                    \* as many bytes as are asked for
    NoRequest       \* no request is being served

VARIABLES
    content,        \* what a read returns
    stable,         \* what is on the medium
    request,        \* the request being served
    progress,       \* how many of its bytes are done
    got             \* the bytes read so far

vars == <<content, stable, request, progress, got>>

\* Bytes the program changed may reach the medium at any time, or in part.
Settle ==
    \A a \in DOMAIN stable : stable'[a] \in {stable[a], content[a]}

Begin ==
    /\ request = NoRequest \/ progress = Len(request.data)
    /\ request' \in Request
    /\ progress' = 0
    /\ got' = <<>>
    /\ UNCHANGED <<content, stable>>

\* The n bytes of the request that follow the ones done.
Piece(n) == request.loc + progress .. request.loc + progress + n - 1

Serve(n) ==
    /\ progress + n <= Len(request.data)
    /\ Piece(n) \subseteq Addr
    /\ progress' = progress + n
    /\ IF request.kind = "read"
       THEN /\ got' = got \o
                 [i \in 1 .. n |-> content[request.loc + progress + i - 1]]
            /\ UNCHANGED content
       ELSE /\ content' = [a \in Addr |->
                 IF a \in Piece(n) THEN request.data[a - request.loc + 1]
                                   ELSE content[a]]
            /\ UNCHANGED got
    /\ UNCHANGED <<stable, request>>

\* The request is done or has failed.
End ==
    /\ request # NoRequest
    /\ request' = NoRequest
    /\ Settle
    /\ UNCHANGED <<content, progress, got>>

\* Something reaches the medium between two pieces, or between two requests.
Write ==
    /\ Settle
    /\ UNCHANGED <<content, request, progress, got>>

\* The program gives up what has not reached the medium.
Forget ==
    /\ Settle
    /\ content' = stable'
    /\ UNCHANGED <<request, progress, got>>

Init ==
    /\ stable \in [Addr -> Nat]
    /\ content = stable
    /\ request = NoRequest
    /\ progress = 0
    /\ got = <<>>

Next ==
    \/ Begin \/ End \/ Write \/ Forget
    \/ /\ request # NoRequest
       /\ \E n \in 1 .. Len(request.data) : Serve(n)

Spec == Init /\ [][Next]_vars
==============================================================================
