-------------------------------- MODULE Flash --------------------------------
(***************************************************************************)
(* fs.c and fs.h: where in the flash the block device of littlefs reads,   *)
(* programs and erases.  The lower half of the flash holds the program.    *)
(*                                                                         *)
(* littlefs asks for blocks below block_count, and for what lies inside    *)
(* one block; addresses are 32 bits wide.                                  *)
(***************************************************************************)
EXTENDS Integers

PICO_FLASH_SIZE_BYTES == 2 * 1024 * 1024
FLASH_BLOCK_SIZE      == 65536
FLASH_PAGE_SIZE       == 256
FLASH_SECTOR_SIZE     == 4096
Width                 == 65536 * 65536

FS_SIZE  == 1024 * 1024
FS_START == PICO_FLASH_SIZE_BYTES - FS_SIZE

block_count == FS_SIZE \div FLASH_BLOCK_SIZE

\* rp2040_prog; rp2040_read adds XIP_BASE, where the flash is mapped.
Address(block, off) == (FS_START + block * FLASH_BLOCK_SIZE + off) % Width

\* rp2040_erase
EraseAddress(block) == (FS_START + block * FLASH_BLOCK_SIZE) % Width

-----------------------------------------------------------------------------
\* What littlefs may ask for: whole pages inside a block.
Access(block, off, size) ==
  /\ block \in 0 .. block_count - 1
  /\ off \in Nat /\ size \in Nat
  /\ off % FLASH_PAGE_SIZE = 0 /\ size % FLASH_PAGE_SIZE = 0
  /\ off + size <= FLASH_BLOCK_SIZE
=============================================================================
