----------------------------- MODULE Msg9P2000L -----------------------------
(***************************************************************************)
(* 9P2000.L: include/styxe/9p2000L.hpp and src/9p2000L.cpp.  9P2000.u and  *)
(* the messages of the Linux VFS.                                          *)
(***************************************************************************)
EXTENDS Msg9P2000U

(* enum class _9P2000L::MessageType *)
MessageTypeL ==
  [ Tlerror      |-> 6,  Rlerror      |-> 7,  Tstatfs    |-> 8,  Rstatfs    |-> 9,
    Tlopen       |-> 12, Rlopen       |-> 13, Tlcreate   |-> 14, Rlcreate   |-> 15,
    Tsymlink     |-> 16, Rsymlink     |-> 17, Tmknod     |-> 18, Rmknod     |-> 19,
    Trename      |-> 20, Rrename      |-> 21, Treadlink  |-> 22, Rreadlink  |-> 23,
    Tgetattr     |-> 24, Rgetattr     |-> 25, Tsetattr   |-> 26, Rsetattr   |-> 27,
    Txattrwalk   |-> 30, Rxattrwalk   |-> 31,
    Txattrcreate |-> 32, Rxattrcreate |-> 33,
    Treaddir     |-> 40, Rreaddir     |-> 41, Tfsync     |-> 50, Rfsync     |-> 51,
    Tlock        |-> 52, Rlock        |-> 53, Tgetlock   |-> 54, Rgetlock   |-> 55,
    Tlink        |-> 60, Rlink        |-> 61, Tmkdir     |-> 72, Rmkdir     |-> 73,
    Trenameat    |-> 74, Rrenameat    |-> 75, Tunlinkat  |-> 76, Runlinkat  |-> 77 ]

-----------------------------------------------------------------------------
(* struct _9P2000L::Request *)
RequestStructL ==
  [ StatFS      |-> [fid |-> "u32"],
    LOpen       |-> [fid |-> "u32", flags |-> "u32"],
    LCreate     |-> [fid |-> "u32", name |-> "str", flags |-> "u32", mode |-> "u32", gid |-> "u32"],
    Symlink     |-> [fid |-> "u32", name |-> "str", symtgt |-> "str", gid |-> "u32"],
    MkNode      |-> [dfid |-> "u32", name |-> "str", mode |-> "u32",
                     major |-> "u32", minor |-> "u32", gid |-> "u32"],
    Rename      |-> [fid |-> "u32", dfid |-> "u32", name |-> "str"],
    ReadLink    |-> [fid |-> "u32"],
    GetAttr     |-> [fid |-> "u32", request_mask |-> "u64"],
    SetAttr     |-> [fid |-> "u32", valid |-> "u32", mode |-> "u32", uid |-> "u32", gid |-> "u32",
                     size |-> "u64", atime_sec |-> "u64", atime_nsec |-> "u64",
                     mtime_sec |-> "u64", mtime_nsec |-> "u64"],
    XAttrWalk   |-> [fid |-> "u32", newfid |-> "u32", name |-> "str"],
    XAttrCreate |-> [fid |-> "u32", name |-> "str", attr_size |-> "u64", flags |-> "u32"],
    ReadDir     |-> [fid |-> "u32", offset |-> "u64", count |-> "u32"],
    FSync       |-> [fid |-> "u32"],
    Lock        |-> [fid |-> "u32", type |-> "u8", flags |-> "u32", start |-> "u64",
                     length |-> "u64", proc_id |-> "u32", client_id |-> "str"],
    GetLock     |-> [fid |-> "u32", type |-> "u8", start |-> "u64", length |-> "u64",
                     proc_id |-> "u32", client_id |-> "str"],
    Link        |-> [dfid |-> "u32", fid |-> "u32", name |-> "str"],
    MkDir       |-> [dfid |-> "u32", name |-> "str", mode |-> "u32", gid |-> "u32"],
    RenameAt    |-> [olddirfid |-> "u32", oldname |-> "str", newdirfid |-> "u32", newname |-> "str"],
    UnlinkAt    |-> [dfid |-> "u32", name |-> "str", flags |-> "u32"] ] @@ RequestStructU

RequestEncL ==
  [ StatFS      |-> <<"fid">>,
    LOpen       |-> <<"fid", "flags">>,
    LCreate     |-> <<"fid", "name", "flags", "mode", "gid">>,
    Symlink     |-> <<"fid", "name", "symtgt", "gid">>,
    MkNode      |-> <<"dfid", "name", "mode", "major", "minor", "gid">>,
    Rename      |-> <<"fid", "dfid", "name">>,
    ReadLink    |-> <<"fid">>,
    GetAttr     |-> <<"fid", "request_mask">>,
    SetAttr     |-> <<"fid", "valid", "mode", "uid", "gid", "size",
                      "atime_sec", "atime_nsec", "mtime_sec", "mtime_nsec">>,
    XAttrWalk   |-> <<"fid", "newfid", "name">>,
    XAttrCreate |-> <<"fid", "name", "attr_size", "flags">>,
    ReadDir     |-> <<"fid", "offset", "count">>,
    FSync       |-> <<"fid">>,
    Lock        |-> <<"fid", "type", "flags", "start", "length", "proc_id", "client_id">>,
    GetLock     |-> <<"fid", "type", "start", "length", "proc_id", "client_id">>,
    Link        |-> <<"dfid", "fid", "name">>,
    MkDir       |-> <<"dfid", "name", "mode", "gid">>,
    RenameAt    |-> <<"olddirfid", "oldname", "newdirfid", "newname">>,
    UnlinkAt    |-> <<"dfid", "name", "flags">> ] @@ RequestEncU

RequestDecL ==
  [ StatFS      |-> <<"fid">>,
    LOpen       |-> <<"fid", "flags">>,
    LCreate     |-> <<"fid", "name", "flags", "mode", "gid">>,
    Symlink     |-> <<"fid", "name", "symtgt", "gid">>,
    MkNode      |-> <<"dfid", "name", "mode", "major", "minor", "gid">>,
    Rename      |-> <<"fid", "dfid", "name">>,
    ReadLink    |-> <<"fid">>,
    GetAttr     |-> <<"fid", "request_mask">>,
    SetAttr     |-> <<"fid", "valid", "mode", "uid", "gid", "size",
                      "atime_sec", "atime_nsec", "mtime_sec", "mtime_nsec">>,
    XAttrWalk   |-> <<"fid", "newfid", "name">>,
    XAttrCreate |-> <<"fid", "name", "attr_size", "flags">>,
    ReadDir     |-> <<"fid", "offset", "count">>,
    FSync       |-> <<"fid">>,
    Lock        |-> <<"fid", "type", "flags", "start", "length", "proc_id", "client_id">>,
    GetLock     |-> <<"fid", "type", "start", "length", "proc_id", "client_id">>,
    Link        |-> <<"dfid", "fid", "name">>,
    MkDir       |-> <<"dfid", "name", "mode", "gid">>,
    RenameAt    |-> <<"olddirfid", "oldname", "newdirfid", "newname">>,
    UnlinkAt    |-> <<"dfid", "name", "flags">> ] @@ RequestDecU

RequestCodeL ==
  LET T == MessageTypeL
  IN  [ StatFS    |-> T.Tstatfs,    LOpen       |-> T.Tlopen,       LCreate  |-> T.Tlcreate,
        Symlink   |-> T.Tsymlink,   MkNode      |-> T.Tmknod,       Rename   |-> T.Trename,
        ReadLink  |-> T.Treadlink,  GetAttr     |-> T.Tgetattr,     SetAttr  |-> T.Tsetattr,
        XAttrWalk |-> T.Txattrwalk, XAttrCreate |-> T.Txattrcreate, ReadDir  |-> T.Treaddir,
        FSync     |-> T.Tfsync,     Lock        |-> T.Tlock,        GetLock  |-> T.Tgetlock,
        Link      |-> T.Tlink,      MkDir       |-> T.Tmkdir,       RenameAt |-> T.Trenameat,
        UnlinkAt  |-> T.Tunlinkat ] @@ RequestCodeU

-----------------------------------------------------------------------------
(* struct _9P2000L::Response *)
ResponseStructL ==
  [ LError      |-> [ecode |-> "u32"],
    StatFS      |-> [type |-> "u32", bsize |-> "u32", blocks |-> "u64", bfree |-> "u64",
                     bavail |-> "u64", files |-> "u64", ffree |-> "u64", fsid |-> "u64",
                     namelen |-> "u32"],
    LOpen       |-> ResponseStruct9P.Open,
    LCreate     |-> ResponseStruct9P.Create,
    Symlink     |-> [qid |-> "qid"],
    MkNode      |-> [qid |-> "qid"],
    Rename      |-> << >>,
    ReadLink    |-> [target |-> "str"],
    GetAttr     |-> [qid |-> "qid", valid |-> "u64", mode |-> "u32", uid |-> "u32", gid |-> "u32",
                     size |-> "u64", atime_sec |-> "u64", atime_nsec |-> "u64",
                     mtime_sec |-> "u64", mtime_nsec |-> "u64", ctime_sec |-> "u64",
                     ctime_nsec |-> "u64", nlink |-> "u64", rdev |-> "u64", blksize |-> "u64",
                     blocks |-> "u64", btime_sec |-> "u64", btime_nsec |-> "u64",
                     gen |-> "u64", data_version |-> "u64"],
    SetAttr     |-> << >>,
    XAttrWalk   |-> [size |-> "u64"],
    XAttrCreate |-> << >>,
    ReadDir     |-> [data |-> "data"],
    FSync       |-> << >>,
    Lock        |-> [status |-> "u8"],
    GetLock     |-> [type |-> "u8", start |-> "u64", length |-> "u64", proc_id |-> "u32",
                     client_id |-> "str"],
    Link        |-> << >>,
    MkDir       |-> [qid |-> "qid"],
    RenameAt    |-> << >>,
    UnlinkAt    |-> << >> ] @@ ResponseStructU

ResponseEncL ==
  [ LError      |-> <<"ecode">>,
    StatFS      |-> <<"type", "bsize", "blocks", "bfree", "bavail", "files", "ffree",
                      "fsid", "namelen">>,
    LOpen       |-> <<"qid", "iounit">>,
    LCreate     |-> <<"qid", "iounit">>,
    Symlink     |-> <<"qid">>,
    MkNode      |-> <<"qid">>,
    Rename      |-> << >>,
    ReadLink    |-> <<"target">>,
    GetAttr     |-> <<"valid", "qid", "mode", "uid", "gid", "nlink", "rdev", "size", "blksize",
                      "blocks", "atime_sec", "atime_nsec", "mtime_sec", "mtime_nsec",
                      "ctime_sec", "ctime_nsec", "btime_sec", "btime_nsec", "gen",
                      "data_version">>,
    SetAttr     |-> << >>,
    XAttrWalk   |-> <<"size">>,
    XAttrCreate |-> << >>,
    ReadDir     |-> <<"data">>,
    FSync       |-> << >>,
    Lock        |-> <<"status">>,
    GetLock     |-> <<"type", "start", "length", "proc_id", "client_id">>,
    Link        |-> << >>,
    MkDir       |-> <<"qid">>,
    RenameAt    |-> << >>,
    UnlinkAt    |-> << >> ] @@ ResponseEncU

ResponseDecL ==
  [ LError      |-> <<"ecode">>,
    StatFS      |-> <<"type", "bsize", "blocks", "bfree", "bavail", "files", "ffree",
                      "fsid", "namelen">>,
    LOpen       |-> <<"qid", "iounit">>,
    LCreate     |-> <<"qid", "iounit">>,
    Symlink     |-> <<"qid">>,
    MkNode      |-> <<"qid">>,
    Rename      |-> << >>,
    ReadLink    |-> <<"target">>,
    GetAttr     |-> <<"valid", "qid", "mode", "uid", "gid", "nlink", "rdev", "size", "blksize",
                      "blocks", "atime_sec", "atime_nsec", "mtime_sec", "mtime_nsec",
                      "ctime_sec", "ctime_nsec", "btime_sec", "btime_nsec", "gen",
                      "data_version">>,
    SetAttr     |-> << >>,
    XAttrWalk   |-> <<"size">>,
    XAttrCreate |-> << >>,
    ReadDir     |-> <<"data">>,
    FSync       |-> << >>,
    Lock        |-> <<"status">>,
    GetLock     |-> <<"type", "start", "length", "proc_id", "client_id">>,
    Link        |-> << >>,
    MkDir       |-> <<"qid">>,
    RenameAt    |-> << >>,
    UnlinkAt    |-> << >> ] @@ ResponseDecU

ResponseCodeL ==
  LET T == MessageTypeL
  IN  [ LError    |-> T.Rlerror,
        StatFS    |-> T.Rstatfs,    LOpen       |-> T.Rlopen,       LCreate  |-> T.Rlcreate,
        Symlink   |-> T.Rsymlink,   MkNode      |-> T.Rmknod,       Rename   |-> T.Rrename,
        ReadLink  |-> T.Rreadlink,  GetAttr     |-> T.Rgetattr,     SetAttr  |-> T.Rsetattr,
        XAttrWalk |-> T.Rxattrwalk, XAttrCreate |-> T.Rxattrcreate, ReadDir  |-> T.Rreaddir,
        FSync     |-> T.Rfsync,     Lock        |-> T.Rlock,        GetLock  |-> T.Rgetlock,
        Link      |-> T.Rlink,      MkDir       |-> T.Rmkdir,       RenameAt |-> T.Rrenameat,
        UnlinkAt  |-> T.Runlinkat ] @@ ResponseCodeU

-----------------------------------------------------------------------------
(* _9P2000L::getRequestParserTable and getResponseParserTable *)
RequestTableL ==
  LET T == MessageTypeL
  IN  T.Tstatfs :> "StatFS" @@ T.Tlopen :> "LOpen" @@ T.Tlcreate :> "LCreate"
      @@ T.Tsymlink :> "Symlink" @@ T.Tmknod :> "MkNode" @@ T.Trename :> "Rename"
      @@ T.Treadlink :> "ReadLink" @@ T.Tgetattr :> "GetAttr" @@ T.Tsetattr :> "SetAttr"
      @@ T.Txattrwalk :> "XAttrWalk" @@ T.Txattrcreate :> "XAttrCreate"
      @@ T.Treaddir :> "ReadDir" @@ T.Tfsync :> "FSync" @@ T.Tlock :> "Lock"
      @@ T.Tgetlock :> "GetLock" @@ T.Tlink :> "Link" @@ T.Tmkdir :> "MkDir"
      @@ T.Trenameat :> "RenameAt" @@ T.Tunlinkat :> "UnlinkAt" @@ RequestTableU

ResponseTableL ==
  LET T == MessageTypeL
  IN  T.Rlerror :> "LError" @@ T.Rstatfs :> "StatFS" @@ T.Rlopen :> "LOpen"
      @@ T.Rlcreate :> "LCreate" @@ T.Rsymlink :> "Symlink" @@ T.Rmknod :> "MkNode"
      @@ T.Rrename :> "Rename" @@ T.Rreadlink :> "ReadLink" @@ T.Rgetattr :> "GetAttr"
      @@ T.Rsetattr :> "SetAttr" @@ T.Rxattrwalk :> "XAttrWalk"
      @@ T.Rxattrcreate :> "XAttrCreate" @@ T.Rreaddir :> "ReadDir" @@ T.Rfsync :> "FSync"
      @@ T.Rlock :> "Lock" @@ T.Rgetlock :> "GetLock" @@ T.Rlink :> "Link"
      @@ T.Rmkdir :> "MkDir" @@ T.Rrenameat :> "RenameAt" @@ T.Runlinkat :> "UnlinkAt"
      @@ ResponseTableU
=============================================================================
