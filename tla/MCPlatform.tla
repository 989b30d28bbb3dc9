----------------------------- MODULE MCPlatform -----------------------------
(* Constants for model checking Platform. *)
EXTENDS PlatformInv
CONSTANTS b1, b2, b3, b4, b5, b6, b7, b8, b9, b10, b11
MCBlocks == {b1, b2, b3, b4, b5, b6, b7, b8, b9, b10, b11}
MCProcs == {"device", "shell", "wifi", "wwd", "player", "http"}
MCTaskIDs == {"DEVICE_TASK", "BCORE", "SHELL", "WIFI_APPLICATION", "TCPIP_THREAD", "WWD",
              "SDIO_IRQ_TASK", "DLNA", "HTTP", "AUDIOCONTROL", "STREAMCONTROL"}
MCDevices == {"UART", "DMA", "FILE", "AUDIO", "BCORE", "SDC", "SDIO", "FIFO"}
MCHandles == {"UartHDC", "hDma", "hSdc", "hFileList", "hSdio", "hFifo", "PAudio",
              "hFifoA", "hFileA", "hAudioA", "hBcoreA", "hFifoS"}
MCUnbalanced == {"FILE", "FIFO"}
MCNoMemory == {"HTTP"}
=============================================================================
