---------------------------- MODULE MCHostCommand ----------------------------
(* TLC instances of HostCommand. *)
EXTENDS HostCommand

Frame(a, b, p0, p1, p2, p3) == <<a, b, p0, p1, p2, p3, 0, 0>>

\* One frame for every way through CommandChk and Execute; 25 is no digit.
MCFrames == {Frame(I, S, 0, 0, 0, 0), Frame(G, W, 0, 1, 0, 0),
             Frame(G, W, 0, 0, 1, 15), Frame(G, W, 0, 1, 25, 0),
             Frame(G, W, 25, 1, 0, 0), Frame(S, G, 0, 7, 0, 0),
             Frame(S, G, 0, 8, 0, 0), Frame(S, 15, 0, 1, 0, 0),
             Frame(S, 15, 0, 2, 0, 0), Frame(W, W, 0, 0, 0, 0)}

\* Commands whose parameters are legal for one of them only.
MCPipelinedFrames == {Frame(G, W, 0, 9, 0, 0), Frame(S, G, 0, 5, 0, 0),
                      Frame(S, 15, 0, 1, 0, 0), Frame(W, W, 0, 0, 0, 0)}

MCCommentFrames == {Frame(G, W, 0, 1, 0, 0), Frame(G, W, 0, 2, 0, 0)}

MCNoise == {OPEN, CLOSE, 7}
MCStray == {7}
NoNoise == {}
=============================================================================
