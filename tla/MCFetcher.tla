----------------------------- MODULE MCFetcher -----------------------------
EXTENDS Fetcher

\* A file:// premirror and a site, and a mirror site before the file:// mirror.
BothKinds == <<"file", "net">>
NetFirst  == <<"net", "file">>
=============================================================================
