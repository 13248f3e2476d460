CONSTANTS
  File <- MCFile
  Generated = {"etc/fstab"}
  IfInstalled = {"etc/kyua/kyua.conf"}
  Entropy = {"boot/entropy"}
  AutoPrefixed = {"usr/local/bin/gdb"}
  Listed = {"usr/bin/clear", "bin/cheribsdbox"}
  Optional = {"boot/loader.efi"}
  Boxable = {"usr/bin/clear", "bin/cheribsdbox"}
  Box = "bin/cheribsdbox"
  Loader = "boot/loader.efi"
  AuthorizedKeys = "root/.ssh/authorized_keys"
  Gdb = "usr/bin/gdb"
  LocalGdb = "usr/local/bin/gdb"
  Extras <- MCExtras
  Installs <- MCInstalls
  Kinds <- MCKinds
  MaxKeys = 3
SPECIFICATION Spec
INVARIANT TypeOK
INVARIANT ContentsAreWanted
INVARIANT HostKeysAreKept
INVARIANT OnlyTheImageIsLeft
CONSTRAINT FilesOrLayouts
