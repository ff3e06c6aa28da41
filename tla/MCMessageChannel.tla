-------------------------- MODULE MCMessageChannel --------------------------
EXTENDS MessageChannel, TLC

CONSTANTS s1, s2, r1, r2

\* Several senders and receivers; one sender that also waits for the channel to
\* drain, and one receiver with a timeout; senders beside others that wait for the
\* channel to drain, as in AsyncMetricsReporter; a receiver with a timeout beside
\* another receiver.
MCUsages ==
    { (s1 :> {"send", "trySend"}) @@ (s2 :> {"send"})
      @@ (r1 :> {"receive", "tryReceive"}) @@ (r2 :> {"receive"}),
      (s1 :> {"send", "trySend", "waitForEmpty"}) @@ (s2 :> {"trySend"})
      @@ (r1 :> {"receive", "timedReceive"}) @@ (r2 :> {"tryReceive"}),
      (s1 :> {"send", "waitForEmpty"}) @@ (s2 :> {"send", "waitForEmpty"})
      @@ (r1 :> {"receive"}) @@ (r2 :> {"send"}),
      (s1 :> {"send"}) @@ (s2 :> {"trySend"})
      @@ (r1 :> {"timedReceive"}) @@ (r2 :> {"receive"}) }
=============================================================================
