--------------------------- MODULE MCAuthService ----------------------------
EXTENDS AuthService

\* Two good requests whose nonces share their first half, and a bad one that
\* brings the first nonce again when the cache may have forgotten it.
MCRequests ==
    {[nonce |-> <<1, 1>>, timestamp |-> 1, user |-> 1, hmacOk |-> TRUE],
     [nonce |-> <<1, 2>>, timestamp |-> 2, user |-> 2, hmacOk |-> TRUE],
     [nonce |-> <<1, 1>>, timestamp |-> 6, user |-> 0, hmacOk |-> FALSE]}

=============================================================================
