------------------------------ MODULE Catalogue ------------------------------
(***************************************************************************)
(* What a request names: a MAM book id and, through the download url, a    *)
(* torrent file.  Shared by the media table and the torrent client.        *)
(***************************************************************************)
EXTENDS Integers

CONSTANTS
    Books,     \* MAM book ids
    Links,     \* torrent files
    LinkOf,    \* the file behind a book's TorrentDownloadUrl
    MaxTid     \* bound: torrent ids ever handed out by the client

ASSUME CatalogueAssumption ==
    /\ Books \subseteq Nat
    /\ Links \subseteq Nat \ {0}
    /\ LinkOf \in [Books -> Links]
    /\ MaxTid \in Nat
=============================================================================
